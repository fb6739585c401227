------------------------- MODULE RotatingLog_proofs -------------------------
(***************************************************************************)
(* The log writers, for any number of sessions, of entries and of files:   *)
(* whoever appends to a file, or archives it, holds the claim on it, so no *)
(* two writers share a file and no file is archived under its writer.      *)
(* Outside the unguarded windows the claim is also on the file that has    *)
(* the name, so a source goes only when its archive is made, and what was  *)
(* written is found until it is pruned.                                    *)
(***************************************************************************)
EXTENDS RotatingLog, TLAPS

USE LogAssumption DEF MaybeInode, dirVars, logVars, tryVars, jobVars, histVars,
    Goto, JobGoto

\* The disjuncts of Next that one session takes.
SessionStep(s) ==
  FindLastFile(s) \/ Write(s) \/ CloseFile(s) \/ Step(s)
    \/ RotateFail(s) \/ Crash(s)

-----------------------------------------------------------------------------
(* The invariant *)

\* The part of TypeOK that the claims depend on.
Shape ==
  /\ dir \in [Name -> MaybeInode]
  /\ claim \in [Inode -> Holder \cup {Free}]
  /\ pc \in [Session -> SessionPC]
  /\ file \in [Session -> MaybeInode]
  /\ path \in [Session -> Index \cup {None}]
  /\ fd \in [Session -> MaybeInode]
  /\ index \in [Session -> Nat]
  /\ matches \in [Session -> SUBSET Name]
  /\ closing \in [Session -> BOOLEAN]
  /\ jpc \in [Job -> JobPC]
  /\ jsrc \in [Job -> MaybeInode]
  /\ jdst \in [Job -> MaybeInode]

\* What each session and each compression has in hand, by where it is.
InHand ==
  /\ \A s \in Session :
       /\ pc[s] \in {"opOpen", "opClaim", "rotClaim"} => index[s] \in Index
       /\ pc[s] \in {"opClaim", "rotClaim", "prUnlock"} => fd[s] # None
       /\ pc[s] = "open" => file[s] # None
       /\ pc[s] \in {"prList", "prCheck", "prUnlock", "prRemove"}
            => closing[s] \/ file[s] # None
       /\ pc[s] = "waiting" => closing[s]
       /\ file[s] # None => path[s] \in Index
  /\ \A j \in Job :
       /\ jpc[j] = "openSrc" => jsrc[j] = None
       /\ jpc[j] \notin {"none", "openSrc"} => jsrc[j] # None
       /\ jpc[j] \in {"claimDst", "copy"} => jdst[j] # None

\* Whoever uses a file holds it.
Claims ==
  /\ \A s \in Session :
       /\ file[s] # None => claim[file[s]] = Writer(s)
       /\ pc[s] = "prUnlock" => claim[fd[s]] = Probe(s)
  /\ \A j \in Job :
       /\ jpc[j] \in {"openDst", "claimDst", "copy", "unlink", "release"}
            => claim[jsrc[j]] = Source(j)
       /\ jpc[j] = "copy" => claim[jdst[j]] = Destination(j)

LogInv == Shape /\ InHand /\ Claims

-----------------------------------------------------------------------------
(* Inodes and holders *)

\* A file made under a name is a file.
LEMMA NewInodeType ==
  ASSUME NEW n \in Name, Spare(n) # {}
  PROVE  NewInode(n) \in Inode
<1>1. NewInode(n) \in Spare(n)
  BY DEF NewInode
<1>2. Spare(n) \subseteq Inode
  BY DEF Spare, Inode
<1> QED BY <1>1, <1>2

\* The parts of names and of jobs.
LEMMA Names ==
  /\ Index \subseteq Nat
  /\ \A i \in Index : Log(i) \in Name /\ Archive(i) \in Name
  /\ \A i \in Index, k \in Index : Log(i) # Archive(k)
  /\ \A s \in Session, i \in Index : <<s, i>> \in Job
  /\ \A j \in Job : j[1] \in Session /\ j[2] \in Index
  BY DEF Index, Log, Archive, Name, Job

\* A holder is who it says it is: holds in different roles are different.
LEMMA Holders ==
  /\ \A s \in Session : Writer(s) \in Holder /\ Probe(s) \in Holder
  /\ \A j \in Job : Source(j) \in Holder /\ Destination(j) \in Holder
  /\ Free \notin Holder
  /\ \A s, t \in Session :
       /\ Writer(s) = Writer(t) => s = t
       /\ Probe(s) = Probe(t) => s = t
       /\ Writer(s) # Probe(t)
  /\ \A j, k \in Job :
       /\ Source(j) = Source(k) => j = k
       /\ Destination(j) = Destination(k) => j = k
       /\ Source(j) # Destination(k)
  /\ \A s \in Session, j \in Job :
       /\ Writer(s) # Source(j) /\ Writer(s) # Destination(j)
       /\ Probe(s) # Source(j) /\ Probe(s) # Destination(j)
  BY DEF Holder, Writer, Probe, Source, Destination, Free, Job

\* A holder's first part is its session.
LEMMA HolderSession ==
  /\ \A s \in Session : Writer(s)[1] = s /\ Probe(s)[1] = s
  /\ \A j \in Job : Source(j)[1] = j[1] /\ Destination(j)[1] = j[1]
  BY DEF Writer, Probe, Source, Destination

-----------------------------------------------------------------------------
(* The two actions that name what they change *)

\* A write that fills the file closes it and starts its compression, with the
\* claim or without.
LeavesFile(s, j) ==
  /\ pc' = [pc EXCEPT ![s] = "rotIndex"]
  /\ file' = [file EXCEPT ![s] = None]
  /\ jdst' = jdst
  /\ \/ /\ claim' = [claim EXCEPT ![file[s]] = Source(j)]
        /\ jpc' = [jpc EXCEPT ![j] = "openDst"]
        /\ jsrc' = [jsrc EXCEPT ![j] = file[s]]
     \/ /\ claim' = [claim EXCEPT ![file[s]] = Free]
        /\ jpc' = [jpc EXCEPT ![j] = "openSrc"]
        /\ jsrc' = [jsrc EXCEPT ![j] = None]

\* A write changes nothing the claims depend on, or leaves its file.
LEMMA WriteCases ==
  ASSUME LogInv, NEW s \in Session, Write(s)
  PROVE  /\ file[s] \in Inode
         /\ UNCHANGED <<dir, path, fd, index, matches, closing>>
         /\ \/ UNCHANGED <<claim, pc, file, jpc, jsrc, jdst>>
            \/ \E j \in Job : LeavesFile(s, j)
<1>1. file[s] \in Inode /\ path[s] \in Index
  BY DEF Write, LogInv, Shape, InHand
<1> UNCHANGED <<dir, path, fd, index, matches, closing>>
  BY DEF Write
<1>2. CASE Full(written[s] + 1)
  <2>1. <<s, path[s]>> \in Job
    BY <1>1, Names
  <2>2. PICK dup \in BOOLEAN : StartCompression(s, dup)
    BY <1>2 DEF Write
  <2> file' = [file EXCEPT ![s] = None] /\ pc' = [pc EXCEPT ![s] = "rotIndex"]
    BY <1>2 DEF Write, Goto
  <2>3. LeavesFile(s, <<s, path[s]>>)
    <3>1. CASE dup
      BY <3>1, <2>2 DEF StartCompression, LeavesFile
    <3>2. CASE ~dup
      BY <3>2, <2>2 DEF StartCompression, LeavesFile
    <3> QED BY <3>1, <3>2
  <2> QED BY <1>1, <2>1, <2>3
<1>3. CASE ~Full(written[s] + 1)
  BY <1>1, <1>3 DEF Write
<1> QED BY <1>2, <1>3

\* An archive is opened, or the compression is given up.
LEMMA OpenArchiveCases ==
  ASSUME LogInv, NEW j \in Job, OpenArchive(j)
  PROVE  \/ /\ \E dst \in Inode :
                 /\ dir' = [dir EXCEPT ![Archive(j[2])] = dst]
                 /\ jdst' = [jdst EXCEPT ![j] = dst]
            /\ jpc' = [jpc EXCEPT ![j] = "claimDst"]
            /\ UNCHANGED <<claim, jsrc>>
         \/ LeaveSource(j) /\ UNCHANGED dir
<1> DEFINE n == Archive(j[2])
           dst == IF dir[n] = None THEN NewInode(n) ELSE dir[n]
<1>1. n \in Name
  BY Names
<1>2. dir[n] \in MaybeInode
  BY <1>1 DEF LogInv, Shape
<1>3. CASE dir[n] = None /\ Spare(n) # {}
  BY <1>1, <1>3, NewInodeType DEF OpenArchive
<1>4. CASE dir[n] # None
  BY <1>2, <1>4 DEF OpenArchive
<1>5. CASE dir[n] = None /\ Spare(n) = {}
  BY <1>5 DEF OpenArchive
<1> QED BY <1>3, <1>4, <1>5

-----------------------------------------------------------------------------
(* Every step keeps it *)

\* At the start nothing is open and nothing is claimed.
LEMMA InitLog == Init => LogInv
  BY DEF Init, LogInv, Shape, InHand, Claims, SessionPC, JobPC

\* Values stay in their types.
LEMMA NextShape ==
  ASSUME LogInv, [Next]_vars
  PROVE  Shape'
<1>1. ASSUME NEW s \in Session, SessionStep(s) PROVE Shape'
  <2>1. CASE FindLastFile(s)
    <3>1. pc' \in [Session -> SessionPC]
      BY <2>1 DEF FindLastFile, LogInv, Shape, InHand, SessionPC
    <3>2. index' \in [Session -> Nat]
      BY <2>1 DEF FindLastFile, LogInv, Shape, InHand, Index
    <3> QED BY <2>1, <3>1, <3>2 DEF FindLastFile, LogInv, Shape
  <2>2. CASE OpenLast(s)
    <3>1. pc' \in [Session -> SessionPC]
      BY <2>2 DEF OpenLast, LogInv, Shape, InHand, SessionPC
    <3>2. fd' \in [Session -> MaybeInode]
      BY <2>2, Names DEF OpenLast, LogInv, Shape, InHand
    <3> QED BY <2>2, <3>1, <3>2 DEF OpenLast, LogInv, Shape
  <2>3. CASE ClaimLast(s)
    <3>1. claim' \in [Inode -> Holder \cup {Free}]
      BY <2>3, Holders DEF ClaimLast, LogInv, Shape, InHand
    <3>2. pc' \in [Session -> SessionPC]
      BY <2>3 DEF ClaimLast, LogInv, Shape, InHand, SessionPC
    <3>3. file' \in [Session -> MaybeInode]
      BY <2>3 DEF ClaimLast, LogInv, Shape, InHand
    <3>4. path' \in [Session -> Index \cup {None}]
      BY <2>3 DEF ClaimLast, LogInv, Shape, InHand
    <3>5. fd' \in [Session -> MaybeInode]
      BY <2>3 DEF ClaimLast, LogInv, Shape, InHand
    <3>6. index' \in [Session -> Nat]
      BY <2>3 DEF ClaimLast, LogInv, Shape, InHand
    <3> QED BY <2>3, <3>1, <3>2, <3>3, <3>4, <3>5, <3>6 DEF ClaimLast, LogInv, Shape
  <2>4. CASE Write(s)
    <3>1. /\ file[s] \in Inode
          /\ UNCHANGED <<dir, path, fd, index, matches, closing>>
          /\ \/ UNCHANGED <<claim, pc, file, jpc, jsrc, jdst>>
             \/ \E j \in Job : LeavesFile(s, j)
      BY <2>4, WriteCases
    <3>2. CASE UNCHANGED <<claim, pc, file, jpc, jsrc, jdst>>
      BY <3>1, <3>2 DEF LogInv, Shape
    <3>3. ASSUME NEW j \in Job, LeavesFile(s, j)
          PROVE  Shape'
      <4>1. claim' \in [Inode -> Holder \cup {Free}]
        BY <3>1, <3>3, Holders DEF LogInv, Shape, LeavesFile
      <4>2. pc' \in [Session -> SessionPC]
        BY <3>1, <3>3 DEF LogInv, Shape, LeavesFile, SessionPC
      <4>3. file' \in [Session -> MaybeInode]
        BY <3>1, <3>3 DEF LogInv, Shape, LeavesFile
      <4>4. jpc' \in [Job -> JobPC]
        BY <3>1, <3>3 DEF LogInv, Shape, LeavesFile, JobPC
      <4>5. jsrc' \in [Job -> MaybeInode]
        BY <3>1, <3>3 DEF LogInv, Shape, LeavesFile
      <4> QED BY <3>1, <3>3, <4>1, <4>2, <4>3, <4>4, <4>5 DEF LogInv, Shape, LeavesFile
    <3> QED BY <3>1, <3>2, <3>3
  <2>5. CASE FindNextIndex(s)
    <3>1. index' \in [Session -> Nat]
      BY <2>5 DEF FindNextIndex, LogInv, Shape, InHand
    <3>2. pc' \in [Session -> SessionPC]
      BY <2>5 DEF FindNextIndex, LogInv, Shape, InHand, SessionPC
    <3> QED BY <2>5, <3>1, <3>2 DEF FindNextIndex, LogInv, Shape
  <2>6. CASE RotateCreate(s)
    <3>1. dir' \in [Name -> MaybeInode]
      BY <2>6, Names, NewInodeType DEF RotateCreate, LogInv, Shape, InHand,
         Index
    <3>2. pc' \in [Session -> SessionPC]
      BY <2>6 DEF RotateCreate, LogInv, Shape, InHand, NextIndex, SessionPC
    <3>3. fd' \in [Session -> MaybeInode]
      BY <2>6, Names, NewInodeType DEF RotateCreate, LogInv, Shape, InHand,
         Index
    <3>4. index' \in [Session -> Nat]
      BY <2>6 DEF RotateCreate, LogInv, Shape, InHand, NextIndex
    <3> QED BY <2>6, <3>1, <3>2, <3>3, <3>4 DEF RotateCreate, LogInv, Shape, NextIndex
  <2>7. CASE RotateFail(s)
    BY <2>7 DEF RotateFail, LogInv, Shape, InHand, SessionPC, JobPC
  <2>8. CASE RotateClaim(s)
    <3>1. claim' \in [Inode -> Holder \cup {Free}]
      BY <2>8, Holders DEF RotateClaim, LogInv, Shape, InHand
    <3>2. pc' \in [Session -> SessionPC]
      BY <2>8 DEF RotateClaim, LogInv, Shape, InHand, NextIndex, SessionPC
    <3>3. file' \in [Session -> MaybeInode]
      BY <2>8 DEF RotateClaim, LogInv, Shape, InHand
    <3>4. path' \in [Session -> Index \cup {None}]
      BY <2>8 DEF RotateClaim, LogInv, Shape, InHand
    <3>5. fd' \in [Session -> MaybeInode]
      BY <2>8 DEF RotateClaim, LogInv, Shape, InHand
    <3>6. index' \in [Session -> Nat]
      BY <2>8 DEF RotateClaim, LogInv, Shape, InHand, NextIndex
    <3> QED BY <2>8, <3>1, <3>2, <3>3, <3>4, <3>5, <3>6 DEF RotateClaim, LogInv,
       Shape, NextIndex
  <2>9. CASE PruneList(s)
    <3>1. matches' \in [Session -> SUBSET Name]
      BY <2>9 DEF PruneList, LogInv, Shape, InHand, Present
    <3>2. pc' \in [Session -> SessionPC]
      BY <2>9 DEF PruneList, LogInv, Shape, InHand, Pruned, SessionPC
    <3> QED BY <2>9, <3>1, <3>2 DEF PruneList, LogInv, Shape
  <2>10. CASE PruneCheck(s)
    <3>1. claim' \in [Inode -> Holder \cup {Free}]
      BY <2>10, Holders DEF PruneCheck, LogInv, Shape, InHand, Oldest
    <3>2. fd' \in [Session -> MaybeInode]
      BY <2>10 DEF PruneCheck, LogInv, Shape, InHand, Oldest
    <3>3. matches' \in [Session -> SUBSET Name]
      BY <2>10 DEF PruneCheck, LogInv, Shape, InHand
    <3>4. pc' \in [Session -> SessionPC]
      BY <2>10 DEF PruneCheck, LogInv, Shape, InHand, Pruned, SessionPC
    <3> QED BY <2>10, <3>1, <3>2, <3>3, <3>4 DEF PruneCheck, LogInv, Shape
  <2>11. CASE PruneUnlock(s)
    BY <2>11 DEF PruneUnlock, LogInv, Shape, InHand, SessionPC, JobPC
  <2>12. CASE PruneRemove(s)
    BY <2>12 DEF PruneRemove, Pruned, Oldest, LogInv, Shape, InHand,
       SessionPC, JobPC
  <2>13. CASE CloseFile(s)
    BY <2>13 DEF CloseFile, LogInv, Shape, InHand, SessionPC, JobPC
  <2>14. CASE Crash(s)
    BY <2>14 DEF Crash, LogInv, Shape, InHand, SessionPC, JobPC
  <2> QED BY <1>1, <2>1, <2>2, <2>3, <2>4, <2>5, <2>6, <2>7, <2>8, <2>9, <2>10, <2>11,
     <2>12, <2>13, <2>14 DEF SessionStep, Step
<1>2. ASSUME NEW j \in Job, Compress(j) PROVE Shape'
  <2>1. CASE OpenSource(j)
    <3>1. jpc' \in [Job -> JobPC]
      BY <2>1 DEF OpenSource, LogInv, Shape, InHand, EndJob, JobPC
    <3>2. jsrc' \in [Job -> MaybeInode]
      BY <2>1, Names DEF OpenSource, LogInv, Shape, InHand, EndJob
    <3>3. jdst' \in [Job -> MaybeInode]
      BY <2>1 DEF OpenSource, LogInv, Shape, InHand, EndJob
    <3> QED BY <2>1, <3>1, <3>2, <3>3 DEF OpenSource, LogInv, Shape, EndJob
  <2>2. CASE ClaimSource(j)
    <3>1. claim' \in [Inode -> Holder \cup {Free}]
      BY <2>2, Holders DEF ClaimSource, LogInv, Shape, InHand
    <3>2. jpc' \in [Job -> JobPC]
      BY <2>2 DEF ClaimSource, LogInv, Shape, InHand, EndJob, JobPC
    <3>3. jsrc' \in [Job -> MaybeInode]
      BY <2>2 DEF ClaimSource, LogInv, Shape, InHand, EndJob
    <3>4. jdst' \in [Job -> MaybeInode]
      BY <2>2 DEF ClaimSource, LogInv, Shape, InHand, EndJob
    <3> QED BY <2>2, <3>1, <3>2, <3>3, <3>4 DEF ClaimSource, LogInv, Shape, EndJob
  <2>3. CASE OpenArchive(j)
    <3>1. dir' \in [Name -> MaybeInode]
      BY <2>3, OpenArchiveCases DEF OpenArchive, LogInv, Shape, InHand
    <3>2. claim' \in [Inode -> Holder \cup {Free}]
      BY <2>3, OpenArchiveCases DEF OpenArchive, LogInv, Shape, InHand,
         LeaveSource
    <3>3. jpc' \in [Job -> JobPC]
      BY <2>3 DEF OpenArchive, LogInv, Shape, InHand, LeaveSource, EndJob,
         JobPC
    <3>4. jsrc' \in [Job -> MaybeInode]
      BY <2>3 DEF OpenArchive, LogInv, Shape, InHand, LeaveSource, EndJob
    <3>5. jdst' \in [Job -> MaybeInode]
      BY <2>3, OpenArchiveCases DEF OpenArchive, LogInv, Shape, InHand,
         LeaveSource, EndJob
    <3> QED BY <2>3, <3>1, <3>2, <3>3, <3>4, <3>5 DEF OpenArchive, LogInv, Shape,
       LeaveSource, EndJob
  <2>4. CASE ClaimArchive(j)
    <3>1. claim' \in [Inode -> Holder \cup {Free}]
      BY <2>4, Holders DEF ClaimArchive, LogInv, Shape, InHand, LeaveSource
    <3>2. jpc' \in [Job -> JobPC]
      BY <2>4 DEF ClaimArchive, LogInv, Shape, InHand, LeaveSource, EndJob,
         JobPC
    <3>3. jsrc' \in [Job -> MaybeInode]
      BY <2>4 DEF ClaimArchive, LogInv, Shape, InHand, LeaveSource, EndJob
    <3>4. jdst' \in [Job -> MaybeInode]
      BY <2>4 DEF ClaimArchive, LogInv, Shape, InHand, LeaveSource, EndJob
    <3> QED BY <2>4, <3>1, <3>2, <3>3, <3>4 DEF ClaimArchive, LogInv, Shape,
       LeaveSource, EndJob
  <2>5. CASE Copy(j)
    BY <2>5 DEF Copy, CopyDone, CopyFailed, EndJob, LogInv, Shape, InHand,
       SessionPC, JobPC
  <2>6. CASE RemoveSource(j)
    BY <2>6 DEF RemoveSource, LogInv, Shape, InHand, SessionPC, JobPC
  <2>7. CASE ReleaseSource(j)
    BY <2>7 DEF ReleaseSource, EndJob, LogInv, Shape, InHand, SessionPC, JobPC
  <2> QED BY <1>2, <2>1, <2>2, <2>3, <2>4, <2>5, <2>6, <2>7 DEF Compress
<1>3. CASE UNCHANGED vars
  BY <1>3 DEF vars, LogInv, Shape, InHand, SessionPC, JobPC
<1> QED BY <1>1, <1>2, <1>3 DEF Next, SessionStep

\* A session goes on only with the file it needs.
LEMMA NextInHand ==
  ASSUME LogInv, [Next]_vars
  PROVE  InHand'
<1>1. ASSUME NEW s \in Session, SessionStep(s) PROVE InHand'
  <2>1. CASE FindLastFile(s)
    <3>1. ASSUME NEW t \in Session
         PROVE  pc'[t] \in {"opOpen", "opClaim", "rotClaim"} => index'[t] \in Index
      BY <2>1 DEF FindLastFile, LogInv, Shape, InHand, Index
    <3>2. ASSUME NEW t \in Session
         PROVE  pc'[t] \in {"opClaim", "rotClaim", "prUnlock"} => fd'[t] # None
      BY <2>1 DEF FindLastFile, LogInv, Shape, InHand, Index
    <3>3. ASSUME NEW t \in Session
         PROVE  pc'[t] = "open" => file'[t] # None
      BY <2>1 DEF FindLastFile, LogInv, Shape, InHand, Index
    <3>4. ASSUME NEW t \in Session
         PROVE  pc'[t] \in {"prList", "prCheck", "prUnlock", "prRemove"}
               => closing'[t] \/ file'[t] # None
      BY <2>1 DEF FindLastFile, LogInv, Shape, InHand, Index
    <3>5. ASSUME NEW t \in Session
         PROVE  pc'[t] = "waiting" => closing'[t]
      BY <2>1 DEF FindLastFile, LogInv, Shape, InHand, Index
    <3>6. ASSUME NEW t \in Session
         PROVE  file'[t] # None => path'[t] \in Index
      BY <2>1 DEF FindLastFile, LogInv, Shape, InHand, Index
    <3>7. ASSUME NEW k \in Job
         PROVE  jpc'[k] = "openSrc" => jsrc'[k] = None
      BY <2>1 DEF FindLastFile, LogInv, Shape, InHand, Index
    <3>8. ASSUME NEW k \in Job
         PROVE  jpc'[k] \notin {"none", "openSrc"} => jsrc'[k] # None
      BY <2>1 DEF FindLastFile, LogInv, Shape, InHand, Index
    <3>9. ASSUME NEW k \in Job
         PROVE  jpc'[k] \in {"claimDst", "copy"} => jdst'[k] # None
      BY <2>1 DEF FindLastFile, LogInv, Shape, InHand, Index
    <3> QED BY <3>1, <3>2, <3>3, <3>4, <3>5, <3>6, <3>7, <3>8, <3>9 DEF InHand
  <2>2. CASE OpenLast(s)
    BY <2>2 DEF OpenLast, LogInv, Shape, InHand, SessionPC, JobPC
  <2>3. CASE ClaimLast(s)
    BY <2>3 DEF ClaimLast, Claimed, LogInv, Shape, InHand, SessionPC, JobPC
  <2>4. CASE Write(s)
    <3>1. /\ file[s] \in Inode
          /\ UNCHANGED <<dir, path, fd, index, matches, closing>>
          /\ \/ UNCHANGED <<claim, pc, file, jpc, jsrc, jdst>>
             \/ \E j \in Job : LeavesFile(s, j)
      BY <2>4, WriteCases
    <3>2. CASE UNCHANGED <<claim, pc, file, jpc, jsrc, jdst>>
      BY <3>1, <3>2 DEF LogInv, Shape, InHand
    <3>3. ASSUME NEW j \in Job, LeavesFile(s, j)
          PROVE  InHand'
      <4>1. ASSUME NEW t \in Session
           PROVE  pc'[t] \in {"opOpen", "opClaim", "rotClaim"} => index'[t] \in Index
        BY <3>1, <3>3 DEF LogInv, Shape, InHand, LeavesFile
      <4>2. ASSUME NEW t \in Session
           PROVE  pc'[t] \in {"opClaim", "rotClaim", "prUnlock"} => fd'[t] # None
        BY <3>1, <3>3 DEF LogInv, Shape, InHand, LeavesFile
      <4>3. ASSUME NEW t \in Session
           PROVE  pc'[t] = "open" => file'[t] # None
        BY <3>1, <3>3 DEF LogInv, Shape, InHand, LeavesFile
      <4>4. ASSUME NEW t \in Session
           PROVE  pc'[t] \in {"prList", "prCheck", "prUnlock", "prRemove"}
                   => closing'[t] \/ file'[t] # None
        BY <3>1, <3>3 DEF LogInv, Shape, InHand, LeavesFile
      <4>5. ASSUME NEW t \in Session
           PROVE  pc'[t] = "waiting" => closing'[t]
        BY <3>1, <3>3 DEF LogInv, Shape, InHand, LeavesFile
      <4>6. ASSUME NEW t \in Session
           PROVE  file'[t] # None => path'[t] \in Index
        BY <3>1, <3>3 DEF LogInv, Shape, InHand, LeavesFile
      <4>7. ASSUME NEW k \in Job
           PROVE  jpc'[k] = "openSrc" => jsrc'[k] = None
        BY <3>1, <3>3 DEF LogInv, Shape, InHand, LeavesFile
      <4>8. ASSUME NEW k \in Job
           PROVE  jpc'[k] \notin {"none", "openSrc"} => jsrc'[k] # None
        BY <3>1, <3>3 DEF LogInv, Shape, InHand, LeavesFile
      <4>9. ASSUME NEW k \in Job
           PROVE  jpc'[k] \in {"claimDst", "copy"} => jdst'[k] # None
        BY <3>1, <3>3 DEF LogInv, Shape, InHand, LeavesFile
      <4> QED BY <4>1, <4>2, <4>3, <4>4, <4>5, <4>6, <4>7, <4>8, <4>9 DEF InHand
    <3> QED BY <3>1, <3>2, <3>3
  <2>5. CASE FindNextIndex(s)
    BY <2>5 DEF FindNextIndex, LogInv, Shape, InHand, SessionPC, JobPC
  <2>6. CASE RotateCreate(s)
    <3>1. ASSUME NEW t \in Session
         PROVE  pc'[t] \in {"opOpen", "opClaim", "rotClaim"} => index'[t] \in Index
      BY <2>6, NewInodeType, Names DEF RotateCreate, LogInv, Shape, InHand,
         NextIndex, Index
    <3>2. ASSUME NEW t \in Session
         PROVE  pc'[t] \in {"opClaim", "rotClaim", "prUnlock"} => fd'[t] # None
      BY <2>6, NewInodeType, Names DEF RotateCreate, LogInv, Shape, InHand,
         NextIndex, Index
    <3>3. ASSUME NEW t \in Session
         PROVE  pc'[t] = "open" => file'[t] # None
      BY <2>6, NewInodeType, Names DEF RotateCreate, LogInv, Shape, InHand,
         NextIndex, Index
    <3>4. ASSUME NEW t \in Session
         PROVE  pc'[t] \in {"prList", "prCheck", "prUnlock", "prRemove"}
               => closing'[t] \/ file'[t] # None
      BY <2>6, NewInodeType, Names DEF RotateCreate, LogInv, Shape, InHand,
         NextIndex, Index
    <3>5. ASSUME NEW t \in Session
         PROVE  pc'[t] = "waiting" => closing'[t]
      BY <2>6, NewInodeType, Names DEF RotateCreate, LogInv, Shape, InHand,
         NextIndex, Index
    <3>6. ASSUME NEW t \in Session
         PROVE  file'[t] # None => path'[t] \in Index
      BY <2>6, NewInodeType, Names DEF RotateCreate, LogInv, Shape, InHand,
         NextIndex, Index
    <3>7. ASSUME NEW k \in Job
         PROVE  jpc'[k] = "openSrc" => jsrc'[k] = None
      BY <2>6, NewInodeType, Names DEF RotateCreate, LogInv, Shape, InHand,
         NextIndex, Index
    <3>8. ASSUME NEW k \in Job
         PROVE  jpc'[k] \notin {"none", "openSrc"} => jsrc'[k] # None
      BY <2>6, NewInodeType, Names DEF RotateCreate, LogInv, Shape, InHand,
         NextIndex, Index
    <3>9. ASSUME NEW k \in Job
         PROVE  jpc'[k] \in {"claimDst", "copy"} => jdst'[k] # None
      BY <2>6, NewInodeType, Names DEF RotateCreate, LogInv, Shape, InHand,
         NextIndex, Index
    <3> QED BY <3>1, <3>2, <3>3, <3>4, <3>5, <3>6, <3>7, <3>8, <3>9 DEF InHand
  <2>7. CASE RotateFail(s)
    BY <2>7 DEF RotateFail, LogInv, Shape, InHand, SessionPC, JobPC
  <2>8. CASE RotateClaim(s)
    BY <2>8 DEF RotateClaim, NextIndex, Claimed, LogInv, Shape, InHand,
       SessionPC, JobPC
  <2>9. CASE PruneList(s)
    BY <2>9 DEF PruneList, Pruned, Present, LogInv, Shape, InHand, SessionPC,
       JobPC
  <2>10. CASE PruneCheck(s)
    BY <2>10 DEF PruneCheck, Pruned, Oldest, Claimed, LogInv, Shape, InHand,
       SessionPC, JobPC
  <2>11. CASE PruneUnlock(s)
    BY <2>11 DEF PruneUnlock, LogInv, Shape, InHand, SessionPC, JobPC
  <2>12. CASE PruneRemove(s)
    BY <2>12 DEF PruneRemove, Pruned, Oldest, LogInv, Shape, InHand,
       SessionPC, JobPC
  <2>13. CASE CloseFile(s)
    BY <2>13 DEF CloseFile, LogInv, Shape, InHand, SessionPC, JobPC
  <2>14. CASE Crash(s)
    BY <2>14 DEF Crash, LogInv, Shape, InHand, SessionPC, JobPC
  <2> QED BY <1>1, <2>1, <2>2, <2>3, <2>4, <2>5, <2>6, <2>7, <2>8, <2>9, <2>10, <2>11,
     <2>12, <2>13, <2>14 DEF SessionStep, Step
<1>2. ASSUME NEW j \in Job, Compress(j) PROVE InHand'
  <2>1. CASE OpenSource(j)
    BY <2>1 DEF OpenSource, EndJob, LogInv, Shape, InHand, SessionPC, JobPC
  <2>2. CASE ClaimSource(j)
    BY <2>2 DEF ClaimSource, EndJob, Claimed, LogInv, Shape, InHand,
       SessionPC, JobPC
  <2>3. CASE OpenArchive(j)
    <3>1. ASSUME NEW t \in Session
         PROVE  pc'[t] \in {"opOpen", "opClaim", "rotClaim"} => index'[t] \in Index
      BY <2>3, OpenArchiveCases, Names, SMTT(60) DEF OpenArchive, LogInv,
         Shape, InHand, LeaveSource, EndJob
    <3>2. ASSUME NEW t \in Session
         PROVE  pc'[t] \in {"opClaim", "rotClaim", "prUnlock"} => fd'[t] # None
      BY <2>3, OpenArchiveCases, Names, SMTT(60) DEF OpenArchive, LogInv,
         Shape, InHand, LeaveSource, EndJob
    <3>3. ASSUME NEW t \in Session
         PROVE  pc'[t] = "open" => file'[t] # None
      BY <2>3, OpenArchiveCases, Names, SMTT(60) DEF OpenArchive, LogInv,
         Shape, InHand, LeaveSource, EndJob
    <3>4. ASSUME NEW t \in Session
         PROVE  pc'[t] \in {"prList", "prCheck", "prUnlock", "prRemove"}
               => closing'[t] \/ file'[t] # None
      BY <2>3, OpenArchiveCases, Names, SMTT(60) DEF OpenArchive, LogInv,
         Shape, InHand, LeaveSource, EndJob
    <3>5. ASSUME NEW t \in Session
         PROVE  pc'[t] = "waiting" => closing'[t]
      BY <2>3, OpenArchiveCases, Names, SMTT(60) DEF OpenArchive, LogInv,
         Shape, InHand, LeaveSource, EndJob
    <3>6. ASSUME NEW t \in Session
         PROVE  file'[t] # None => path'[t] \in Index
      BY <2>3, OpenArchiveCases, Names, SMTT(60) DEF OpenArchive, LogInv,
         Shape, InHand, LeaveSource, EndJob
    <3>7. ASSUME NEW k \in Job
         PROVE  jpc'[k] = "openSrc" => jsrc'[k] = None
      BY <2>3, OpenArchiveCases, Names, SMTT(60) DEF OpenArchive, LogInv,
         Shape, InHand, LeaveSource, EndJob
    <3>8. ASSUME NEW k \in Job
         PROVE  jpc'[k] \notin {"none", "openSrc"} => jsrc'[k] # None
      BY <2>3, OpenArchiveCases, Names, SMTT(60) DEF OpenArchive, LogInv,
         Shape, InHand, LeaveSource, EndJob
    <3>9. ASSUME NEW k \in Job
         PROVE  jpc'[k] \in {"claimDst", "copy"} => jdst'[k] # None
      <4>1. \/ \E dst \in Inode : jdst' = [jdst EXCEPT ![j] = dst]
            \/ EndJob(j)
        BY <2>3, OpenArchiveCases DEF LeaveSource
      <4>2. jpc' = [jpc EXCEPT ![j] = "claimDst"] \/ EndJob(j)
        BY <2>3, OpenArchiveCases DEF LeaveSource
      <4>3. CASE EndJob(j)
        BY <4>3 DEF LogInv, Shape, InHand, EndJob
      <4>4. ASSUME NEW dst \in Inode, jdst' = [jdst EXCEPT ![j] = dst],
                   jpc' = [jpc EXCEPT ![j] = "claimDst"]
            PROVE  jpc'[k] \in {"claimDst", "copy"} => jdst'[k] # None
        BY <4>4 DEF LogInv, Shape, InHand
      <4> QED BY <4>1, <4>2, <4>3, <4>4
    <3> QED BY <3>1, <3>2, <3>3, <3>4, <3>5, <3>6, <3>7, <3>8, <3>9 DEF InHand
  <2>4. CASE ClaimArchive(j)
    BY <2>4 DEF ClaimArchive, LeaveSource, EndJob, Claimed, LogInv, Shape,
       InHand, SessionPC, JobPC
  <2>5. CASE Copy(j)
    BY <2>5 DEF Copy, CopyDone, CopyFailed, EndJob, LogInv, Shape, InHand,
       SessionPC, JobPC
  <2>6. CASE RemoveSource(j)
    BY <2>6 DEF RemoveSource, LogInv, Shape, InHand, SessionPC, JobPC
  <2>7. CASE ReleaseSource(j)
    BY <2>7 DEF ReleaseSource, EndJob, LogInv, Shape, InHand, SessionPC, JobPC
  <2> QED BY <1>2, <2>1, <2>2, <2>3, <2>4, <2>5, <2>6, <2>7 DEF Compress
<1>3. CASE UNCHANGED vars
  BY <1>3 DEF vars, LogInv, Shape, InHand, SessionPC, JobPC
<1> QED BY <1>1, <1>2, <1>3 DEF Next, SessionStep

\* A claim is taken only when nobody has it, and given up only by its holder.
LEMMA NextClaims ==
  ASSUME LogInv, Shape', [Next]_vars
  PROVE  Claims'
<1>1. ASSUME NEW s \in Session, SessionStep(s) PROVE Claims'
  <2>1. CASE FindLastFile(s)
    <3>1. ASSUME NEW t \in Session
         PROVE  file'[t] # None => claim'[file'[t]] = Writer(t)
      BY <2>1, Holders, SMTT(60) DEF FindLastFile, LogInv, Shape, InHand, Claims
    <3>2. ASSUME NEW t \in Session
         PROVE  pc'[t] = "prUnlock" => claim'[fd'[t]] = Probe(t)
      BY <2>1, Holders, SMTT(60) DEF FindLastFile, LogInv, Shape, InHand, Claims
    <3>3. ASSUME NEW k \in Job
         PROVE  jpc'[k] \in {"openDst", "claimDst", "copy", "unlink", "release"}
               => claim'[jsrc'[k]] = Source(k)
      BY <2>1, Holders, SMTT(60) DEF FindLastFile, LogInv, Shape, InHand, Claims
    <3>4. ASSUME NEW k \in Job
         PROVE  jpc'[k] = "copy" => claim'[jdst'[k]] = Destination(k)
      BY <2>1, Holders, SMTT(60) DEF FindLastFile, LogInv, Shape, InHand, Claims
    <3> QED BY <3>1, <3>2, <3>3, <3>4 DEF Claims
  <2>2. CASE OpenLast(s)
    BY <2>2, Holders, SMTT(60) DEF OpenLast, LogInv, Shape, InHand, Claims, SessionPC,
       JobPC
  <2>3. CASE ClaimLast(s)
    <3>1. ASSUME NEW t \in Session
         PROVE  file'[t] # None => claim'[file'[t]] = Writer(t)
      BY <2>3, Holders, SMTT(60) DEF ClaimLast, LogInv, Shape, InHand, Claims, Claimed
    <3>2. ASSUME NEW t \in Session
         PROVE  pc'[t] = "prUnlock" => claim'[fd'[t]] = Probe(t)
      BY <2>3, Holders, SMTT(60) DEF ClaimLast, LogInv, Shape, InHand, Claims, Claimed
    <3>3. ASSUME NEW k \in Job
         PROVE  jpc'[k] \in {"openDst", "claimDst", "copy", "unlink", "release"}
               => claim'[jsrc'[k]] = Source(k)
      BY <2>3, Holders, SMTT(60) DEF ClaimLast, LogInv, Shape, InHand, Claims, Claimed
    <3>4. ASSUME NEW k \in Job
         PROVE  jpc'[k] = "copy" => claim'[jdst'[k]] = Destination(k)
      BY <2>3, Holders, SMTT(60) DEF ClaimLast, LogInv, Shape, InHand, Claims, Claimed
    <3> QED BY <3>1, <3>2, <3>3, <3>4 DEF Claims
  <2>4. CASE Write(s)
    <3>1. /\ file[s] \in Inode
          /\ UNCHANGED <<dir, path, fd, index, matches, closing>>
          /\ \/ UNCHANGED <<claim, pc, file, jpc, jsrc, jdst>>
             \/ \E j \in Job : LeavesFile(s, j)
      BY <2>4, WriteCases
    <3>2. CASE UNCHANGED <<claim, pc, file, jpc, jsrc, jdst>>
      BY <3>1, <3>2 DEF LogInv, Shape, InHand, Claims
    <3>3. ASSUME NEW j \in Job, LeavesFile(s, j)
          PROVE  Claims'
      <4>1. ASSUME NEW t \in Session
           PROVE  file'[t] # None => claim'[file'[t]] = Writer(t)
        BY <3>1, <3>3, Holders, SMTT(60) DEF LogInv, Shape, InHand, Claims, LeavesFile
      <4>2. ASSUME NEW t \in Session
           PROVE  pc'[t] = "prUnlock" => claim'[fd'[t]] = Probe(t)
        BY <3>1, <3>3, Holders, SMTT(60) DEF LogInv, Shape, InHand, Claims, LeavesFile
      <4>3. ASSUME NEW k \in Job
           PROVE  jpc'[k] \in {"openDst", "claimDst", "copy", "unlink", "release"}
                   => claim'[jsrc'[k]] = Source(k)
        BY <3>1, <3>3, Holders, SMTT(60) DEF LogInv, Shape, InHand, Claims, LeavesFile
      <4>4. ASSUME NEW k \in Job
           PROVE  jpc'[k] = "copy" => claim'[jdst'[k]] = Destination(k)
        BY <3>1, <3>3, Holders, SMTT(60) DEF LogInv, Shape, InHand, Claims, LeavesFile
      <4> QED BY <4>1, <4>2, <4>3, <4>4 DEF Claims
    <3> QED BY <3>1, <3>2, <3>3
  <2>5. CASE FindNextIndex(s)
    BY <2>5, Holders, SMTT(60) DEF FindNextIndex, LogInv, Shape, InHand, Claims,
       SessionPC, JobPC
  <2>6. CASE RotateCreate(s)
    BY <2>6, Holders, NewInodeType DEF RotateCreate, NextIndex, LogInv, Shape,
       InHand, Claims, SessionPC, JobPC
  <2>7. CASE RotateFail(s)
    BY <2>7, Holders, SMTT(60) DEF RotateFail, LogInv, Shape, InHand, Claims, SessionPC,
       JobPC
  <2>8. CASE RotateClaim(s)
    <3>1. ASSUME NEW t \in Session
         PROVE  file'[t] # None => claim'[file'[t]] = Writer(t)
      BY <2>8, Holders, SMTT(60) DEF RotateClaim, LogInv, Shape, InHand, Claims,
         Claimed, NextIndex
    <3>2. ASSUME NEW t \in Session
         PROVE  pc'[t] = "prUnlock" => claim'[fd'[t]] = Probe(t)
      BY <2>8, Holders, SMTT(60) DEF RotateClaim, LogInv, Shape, InHand, Claims,
         Claimed, NextIndex
    <3>3. ASSUME NEW k \in Job
         PROVE  jpc'[k] \in {"openDst", "claimDst", "copy", "unlink", "release"}
               => claim'[jsrc'[k]] = Source(k)
      BY <2>8, Holders, SMTT(60) DEF RotateClaim, LogInv, Shape, InHand, Claims,
         Claimed, NextIndex
    <3>4. ASSUME NEW k \in Job
         PROVE  jpc'[k] = "copy" => claim'[jdst'[k]] = Destination(k)
      BY <2>8, Holders, SMTT(60) DEF RotateClaim, LogInv, Shape, InHand, Claims,
         Claimed, NextIndex
    <3> QED BY <3>1, <3>2, <3>3, <3>4 DEF Claims
  <2>9. CASE PruneList(s)
    BY <2>9, Holders, SMTT(60) DEF PruneList, Pruned, Present, LogInv, Shape, InHand,
       Claims, SessionPC, JobPC
  <2>10. CASE PruneCheck(s)
    <3>1. ASSUME NEW t \in Session
         PROVE  file'[t] # None => claim'[file'[t]] = Writer(t)
      BY <2>10, Holders, SMTT(60) DEF PruneCheck, LogInv, Shape, InHand, Claims,
         Claimed, Pruned, Oldest
    <3>2. ASSUME NEW t \in Session
         PROVE  pc'[t] = "prUnlock" => claim'[fd'[t]] = Probe(t)
      BY <2>10, Holders, SMTT(60) DEF PruneCheck, LogInv, Shape, InHand, Claims,
         Claimed, Pruned, Oldest
    <3>3. ASSUME NEW k \in Job
         PROVE  jpc'[k] \in {"openDst", "claimDst", "copy", "unlink", "release"}
               => claim'[jsrc'[k]] = Source(k)
      BY <2>10, Holders, SMTT(60) DEF PruneCheck, LogInv, Shape, InHand, Claims,
         Claimed, Pruned, Oldest
    <3>4. ASSUME NEW k \in Job
         PROVE  jpc'[k] = "copy" => claim'[jdst'[k]] = Destination(k)
      BY <2>10, Holders, SMTT(60) DEF PruneCheck, LogInv, Shape, InHand, Claims,
         Claimed, Pruned, Oldest
    <3> QED BY <3>1, <3>2, <3>3, <3>4 DEF Claims
  <2>11. CASE PruneUnlock(s)
    <3>1. ASSUME NEW t \in Session
         PROVE  file'[t] # None => claim'[file'[t]] = Writer(t)
      BY <2>11, Holders, SMTT(60) DEF PruneUnlock, LogInv, Shape, InHand, Claims
    <3>2. ASSUME NEW t \in Session
         PROVE  pc'[t] = "prUnlock" => claim'[fd'[t]] = Probe(t)
      BY <2>11, Holders, SMTT(60) DEF PruneUnlock, LogInv, Shape, InHand, Claims
    <3>3. ASSUME NEW k \in Job
         PROVE  jpc'[k] \in {"openDst", "claimDst", "copy", "unlink", "release"}
               => claim'[jsrc'[k]] = Source(k)
      BY <2>11, Holders, SMTT(60) DEF PruneUnlock, LogInv, Shape, InHand, Claims
    <3>4. ASSUME NEW k \in Job
         PROVE  jpc'[k] = "copy" => claim'[jdst'[k]] = Destination(k)
      BY <2>11, Holders, SMTT(60) DEF PruneUnlock, LogInv, Shape, InHand, Claims
    <3> QED BY <3>1, <3>2, <3>3, <3>4 DEF Claims
  <2>12. CASE PruneRemove(s)
    BY <2>12, Holders, SMTT(60) DEF PruneRemove, Pruned, Oldest, LogInv, Shape, InHand,
       Claims, SessionPC, JobPC
  <2>13. CASE CloseFile(s)
    <3>1. ASSUME NEW t \in Session
         PROVE  file'[t] # None => claim'[file'[t]] = Writer(t)
      BY <2>13, Holders, SMTT(60) DEF CloseFile, LogInv, Shape, InHand, Claims
    <3>2. ASSUME NEW t \in Session
         PROVE  pc'[t] = "prUnlock" => claim'[fd'[t]] = Probe(t)
      BY <2>13, Holders, SMTT(60) DEF CloseFile, LogInv, Shape, InHand, Claims
    <3>3. ASSUME NEW k \in Job
         PROVE  jpc'[k] \in {"openDst", "claimDst", "copy", "unlink", "release"}
               => claim'[jsrc'[k]] = Source(k)
      BY <2>13, Holders, SMTT(60) DEF CloseFile, LogInv, Shape, InHand, Claims
    <3>4. ASSUME NEW k \in Job
         PROVE  jpc'[k] = "copy" => claim'[jdst'[k]] = Destination(k)
      BY <2>13, Holders, SMTT(60) DEF CloseFile, LogInv, Shape, InHand, Claims
    <3> QED BY <3>1, <3>2, <3>3, <3>4 DEF Claims
  <2>14. CASE Crash(s)
    <3>1. ASSUME NEW t \in Session
         PROVE  file'[t] # None => claim'[file'[t]] = Writer(t)
      BY <2>14, HolderSession, SMTT(60) DEF Crash, LogInv, Shape, InHand,
         Claims
    <3>2. ASSUME NEW t \in Session
         PROVE  pc'[t] = "prUnlock" => claim'[fd'[t]] = Probe(t)
      BY <2>14, HolderSession, SMTT(60) DEF Crash, LogInv, Shape, InHand,
         Claims
    <3>3. ASSUME NEW k \in Job
         PROVE  jpc'[k] \in {"openDst", "claimDst", "copy", "unlink", "release"}
               => claim'[jsrc'[k]] = Source(k)
      BY <2>14, HolderSession, SMTT(60) DEF Crash, LogInv, Shape, InHand,
         Claims
    <3>4. ASSUME NEW k \in Job
         PROVE  jpc'[k] = "copy" => claim'[jdst'[k]] = Destination(k)
      BY <2>14, HolderSession, SMTT(60) DEF Crash, LogInv, Shape, InHand,
         Claims
    <3> QED BY <3>1, <3>2, <3>3, <3>4 DEF Claims
  <2> QED BY <1>1, <2>1, <2>2, <2>3, <2>4, <2>5, <2>6, <2>7, <2>8, <2>9, <2>10, <2>11,
     <2>12, <2>13, <2>14 DEF SessionStep, Step
<1>2. ASSUME NEW j \in Job, Compress(j) PROVE Claims'
  <2>1. CASE OpenSource(j)
    BY <2>1, Holders, SMTT(60) DEF OpenSource, EndJob, LogInv, Shape, InHand, Claims,
       SessionPC, JobPC
  <2>2. CASE ClaimSource(j)
    <3>1. ASSUME NEW t \in Session
         PROVE  file'[t] # None => claim'[file'[t]] = Writer(t)
      BY <2>2, Holders, SMTT(60) DEF ClaimSource, LogInv, Shape, InHand, Claims,
         Claimed, EndJob
    <3>2. ASSUME NEW t \in Session
         PROVE  pc'[t] = "prUnlock" => claim'[fd'[t]] = Probe(t)
      BY <2>2, Holders, SMTT(60) DEF ClaimSource, LogInv, Shape, InHand, Claims,
         Claimed, EndJob
    <3>3. ASSUME NEW k \in Job
         PROVE  jpc'[k] \in {"openDst", "claimDst", "copy", "unlink", "release"}
               => claim'[jsrc'[k]] = Source(k)
      BY <2>2, Holders, SMTT(60) DEF ClaimSource, LogInv, Shape, InHand, Claims,
         Claimed, EndJob
    <3>4. ASSUME NEW k \in Job
         PROVE  jpc'[k] = "copy" => claim'[jdst'[k]] = Destination(k)
      BY <2>2, Holders, SMTT(60) DEF ClaimSource, LogInv, Shape, InHand, Claims,
         Claimed, EndJob
    <3> QED BY <3>1, <3>2, <3>3, <3>4 DEF Claims
  <2>3. CASE OpenArchive(j)
    <3>1. ASSUME NEW t \in Session
         PROVE  file'[t] # None => claim'[file'[t]] = Writer(t)
      BY <2>3, OpenArchiveCases, Holders, SMTT(60) DEF OpenArchive, LogInv,
         Shape, InHand, Claims, LeaveSource, EndJob
    <3>2. ASSUME NEW t \in Session
         PROVE  pc'[t] = "prUnlock" => claim'[fd'[t]] = Probe(t)
      BY <2>3, OpenArchiveCases, Holders, SMTT(60) DEF OpenArchive, LogInv,
         Shape, InHand, Claims, LeaveSource, EndJob
    <3>3. ASSUME NEW k \in Job
         PROVE  jpc'[k] \in {"openDst", "claimDst", "copy", "unlink", "release"}
               => claim'[jsrc'[k]] = Source(k)
      BY <2>3, OpenArchiveCases, Holders, SMTT(60) DEF OpenArchive, LogInv,
         Shape, InHand, Claims, LeaveSource, EndJob
    <3>4. ASSUME NEW k \in Job
         PROVE  jpc'[k] = "copy" => claim'[jdst'[k]] = Destination(k)
      BY <2>3, OpenArchiveCases, Holders, SMTT(60) DEF OpenArchive, LogInv,
         Shape, InHand, Claims, LeaveSource, EndJob
    <3> QED BY <3>1, <3>2, <3>3, <3>4 DEF Claims
  <2>4. CASE ClaimArchive(j)
    <3>1. ASSUME NEW t \in Session
         PROVE  file'[t] # None => claim'[file'[t]] = Writer(t)
      BY <2>4, Holders, SMTT(60) DEF ClaimArchive, LogInv, Shape, InHand, Claims,
         Claimed, LeaveSource, EndJob
    <3>2. ASSUME NEW t \in Session
         PROVE  pc'[t] = "prUnlock" => claim'[fd'[t]] = Probe(t)
      BY <2>4, Holders, SMTT(60) DEF ClaimArchive, LogInv, Shape, InHand, Claims,
         Claimed, LeaveSource, EndJob
    <3>3. ASSUME NEW k \in Job
         PROVE  jpc'[k] \in {"openDst", "claimDst", "copy", "unlink", "release"}
               => claim'[jsrc'[k]] = Source(k)
      BY <2>4, Holders, SMTT(60) DEF ClaimArchive, LogInv, Shape, InHand, Claims,
         Claimed, LeaveSource, EndJob
    <3>4. ASSUME NEW k \in Job
         PROVE  jpc'[k] = "copy" => claim'[jdst'[k]] = Destination(k)
      BY <2>4, Holders, SMTT(60) DEF ClaimArchive, LogInv, Shape, InHand, Claims,
         Claimed, LeaveSource, EndJob
    <3> QED BY <3>1, <3>2, <3>3, <3>4 DEF Claims
  <2>5. CASE Copy(j)
    <3>1. ASSUME NEW t \in Session
         PROVE  file'[t] # None => claim'[file'[t]] = Writer(t)
      BY <2>5, Holders, SMTT(60) DEF Copy, LogInv, Shape, InHand, Claims, CopyDone,
         CopyFailed, EndJob
    <3>2. ASSUME NEW t \in Session
         PROVE  pc'[t] = "prUnlock" => claim'[fd'[t]] = Probe(t)
      BY <2>5, Holders, SMTT(60) DEF Copy, LogInv, Shape, InHand, Claims, CopyDone,
         CopyFailed, EndJob
    <3>3. ASSUME NEW k \in Job
         PROVE  jpc'[k] \in {"openDst", "claimDst", "copy", "unlink", "release"}
               => claim'[jsrc'[k]] = Source(k)
      BY <2>5, Holders, SMTT(60) DEF Copy, LogInv, Shape, InHand, Claims, CopyDone,
         CopyFailed, EndJob
    <3>4. ASSUME NEW k \in Job
         PROVE  jpc'[k] = "copy" => claim'[jdst'[k]] = Destination(k)
      BY <2>5, Holders, SMTT(60) DEF Copy, LogInv, Shape, InHand, Claims, CopyDone,
         CopyFailed, EndJob
    <3> QED BY <3>1, <3>2, <3>3, <3>4 DEF Claims
  <2>6. CASE RemoveSource(j)
    BY <2>6, Holders, SMTT(60) DEF RemoveSource, LogInv, Shape, InHand, Claims,
       SessionPC, JobPC
  <2>7. CASE ReleaseSource(j)
    <3>1. ASSUME NEW t \in Session
         PROVE  file'[t] # None => claim'[file'[t]] = Writer(t)
      BY <2>7, Holders, SMTT(60) DEF ReleaseSource, LogInv, Shape, InHand, Claims,
         EndJob
    <3>2. ASSUME NEW t \in Session
         PROVE  pc'[t] = "prUnlock" => claim'[fd'[t]] = Probe(t)
      BY <2>7, Holders, SMTT(60) DEF ReleaseSource, LogInv, Shape, InHand, Claims,
         EndJob
    <3>3. ASSUME NEW k \in Job
         PROVE  jpc'[k] \in {"openDst", "claimDst", "copy", "unlink", "release"}
               => claim'[jsrc'[k]] = Source(k)
      BY <2>7, Holders, SMTT(60) DEF ReleaseSource, LogInv, Shape, InHand, Claims,
         EndJob
    <3>4. ASSUME NEW k \in Job
         PROVE  jpc'[k] = "copy" => claim'[jdst'[k]] = Destination(k)
      BY <2>7, Holders, SMTT(60) DEF ReleaseSource, LogInv, Shape, InHand, Claims,
         EndJob
    <3> QED BY <3>1, <3>2, <3>3, <3>4 DEF Claims
  <2> QED BY <1>2, <2>1, <2>2, <2>3, <2>4, <2>5, <2>6, <2>7 DEF Compress
<1>3. CASE UNCHANGED vars
  BY <1>3, Holders, SMTT(60) DEF vars, LogInv, Shape, InHand, Claims, SessionPC, JobPC
<1> QED BY <1>1, <1>2, <1>3 DEF Next, SessionStep

-----------------------------------------------------------------------------
(* Theorems *)

\* The claims always say who uses which file.
LEMMA LogInvariance == Spec => []LogInv
<1>1. LogInv /\ [Next]_vars => LogInv'
  BY NextShape, NextInHand, NextClaims DEF LogInv
<1> QED BY InitLog, <1>1, PTL DEF Spec

\* However sessions start, rotate, prune, close and are killed, no two writers
\* share a file, and no compression reads a file that is still written to.
THEOREM OwnFileEach == Spec => []WritersApart
<1>1. LogInv => WritersApart
  <2> SUFFICES ASSUME LogInv, NEW s \in Session, file[s] # None
               PROVE  /\ \A t \in Session \ {s} : file[t] # file[s]
                      /\ \A j \in Job : jpc[j] \notin {"none", "claimSrc"}
                                          => jsrc[j] # file[s]
    BY DEF WritersApart
  <2>1. ASSUME NEW t \in Session, t # s PROVE file[t] # file[s]
    BY <2>1, Holders, SMTT(60) DEF LogInv, Claims
  <2>2. ASSUME NEW j \in Job, jpc[j] \notin {"none", "claimSrc"}
        PROVE  jsrc[j] # file[s]
    BY <2>2, Holders, SMTT(60) DEF LogInv, Claims, InHand, Shape, JobPC
  <2> QED BY <2>1, <2>2
<1> QED BY LogInvariance, <1>1, PTL
-----------------------------------------------------------------------------
(* Archives *)

\* What is in a file, and how much was written.
Contents == data \in [Inode -> SUBSET Entry] /\ sent \in [Session -> Nat]

\* An inode is used under the name it was made under.
Named ==
  /\ \A n \in Name : dir[n] # None => dir[n][1] = n
  /\ \A s \in Session :
       /\ file[s] # None => file[s][1] = Log(path[s])
       /\ pc[s] \in {"opClaim", "rotClaim"} => fd[s][1] = Log(index[s])
  /\ \A j \in Job :
       /\ jsrc[j] # None => jsrc[j][1] = Log(j[2])
       /\ jdst[j] # None => jdst[j][1] = Archive(j[2])

\* What a compression has saved, or a prune has taken away.
Saved(j) ==
  dropped \cup (IF dir[Archive(j[2])] = None THEN {} ELSE data[dir[Archive(j[2])]])

\* Outside the windows of `race', who holds the claim on a file holds it on the file
\* that has the name: so two compressions of one index exclude each other.
Placed ==
  race = {} =>
    /\ \A s \in Session : file[s] # None => dir[Log(path[s])] = file[s]
    /\ \A j \in Job :
         /\ jpc[j] \in {"openDst", "claimDst", "copy", "unlink"} =>
              dir[Log(j[2])] = jsrc[j]
         /\ jpc[j] = "copy" => dir[Archive(j[2])] = jdst[j]
         /\ jpc[j] = "unlink" => data[jsrc[j]] \subseteq Saved(j)

PlaceInv == LogInv /\ Contents /\ Named /\ Placed

\* A new file has no name, nor anybody who uses it, and is of the name it is made for.
LEMMA NewInodeFresh ==
  ASSUME NEW n \in Name, Spare(n) # {}
  PROVE  /\ NewInode(n) \in Inode /\ NewInode(n)[1] = n
         /\ \A m \in Name : dir[m] # NewInode(n)
         /\ \A s \in Session : file[s] # NewInode(n)
         /\ \A j \in Job : jsrc[j] # NewInode(n) /\ jdst[j] # NewInode(n)
<1>1. NewInode(n) \in Spare(n)
  BY DEF NewInode
<1>2. NewInode(n) \in Inode /\ NewInode(n)[1] = n
  BY <1>1 DEF Spare, Inode
<1>3. NewInode(n) \notin InUse
  BY <1>1 DEF Spare
<1> QED BY <1>2, <1>3 DEF InUse

\* The names of an index differ from those of any other.
LEMMA NamesApart ==
  /\ \A i, k \in Index : Log(i) # Archive(k)
  /\ \A i, k \in Index : Log(i) = Log(k) => i = k
  /\ \A i, k \in Index : Archive(i) = Archive(k) => i = k
  BY DEF Log, Archive

LEMMA InitPlace == Init => PlaceInv
<1> SUFFICES ASSUME Init PROVE PlaceInv
  OBVIOUS
<1>1. Contents
  BY DEF Init, Contents
<1>2. Named /\ Placed
  BY DEF Init, Named, Placed
<1> QED BY InitLog, <1>1, <1>2 DEF PlaceInv

\* Entries are entries.
LEMMA NextContents ==
  ASSUME PlaceInv, [Next]_vars
  PROVE  Contents'
<1> USE DEF PlaceInv, Contents
<1>1. ASSUME NEW s \in Session, Write(s) PROVE Contents'
  <2>1. file[s] \in Inode
    BY <1>1, WriteCases
  <2>2. sent[s] + 1 \in 1..Quota[s]
    BY <1>1 DEF Write
  <2>3. <<s, sent[s] + 1>> \in Entry
    BY <2>2 DEF Entry
  <2> QED BY <1>1, <2>1, <2>3 DEF Write
<1>2. ASSUME NEW s \in Session, RotateCreate(s) PROVE Contents'
  BY <1>2 DEF RotateCreate
<1>3. ASSUME NEW s \in Session, SessionStep(s), ~Write(s), ~RotateCreate(s)
      PROVE  Contents'
  BY <1>3 DEF SessionStep, Step, FindLastFile, CloseFile, RotateFail, Crash, OpenLast,
     ClaimLast, FindNextIndex, RotateClaim, PruneList, PruneCheck, PruneUnlock,
     PruneRemove
<1>4. ASSUME NEW j \in Job, Compress(j) PROVE Contents'
  <2>1. CASE OpenArchive(j)
    BY <2>1 DEF OpenArchive
  <2>2. CASE ClaimArchive(j)
    BY <2>2 DEF ClaimArchive
  <2>3. CASE Copy(j)
    BY <2>3 DEF Copy, CopyDone, CopyFailed, LogInv, Shape, InHand
  <2> QED BY <1>4, <2>1, <2>2, <2>3 DEF Compress, OpenSource, ClaimSource, RemoveSource,
          ReleaseSource
<1>5. CASE UNCHANGED vars
  BY <1>5 DEF vars
<1> QED BY <1>1, <1>2, <1>3, <1>4, <1>5 DEF Next, SessionStep

\* Inodes keep to their names.
LEMMA NextNamed ==
  ASSUME PlaceInv, [Next]_vars
  PROVE  Named'
<1> USE DEF PlaceInv
<1>1. ASSUME NEW s \in Session, SessionStep(s) PROVE Named'
  <2>1. CASE FindLastFile(s)
    BY <2>1 DEF FindLastFile, Named, LogInv, Shape
  <2>2. CASE OpenLast(s)
    BY <2>2, Names DEF OpenLast, Named, LogInv, Shape, InHand
  <2>3. CASE ClaimLast(s)
    BY <2>3, Names DEF ClaimLast, Named, LogInv, Shape, InHand
  <2>4. CASE Write(s)
    <3>1. CASE UNCHANGED <<claim, pc, file, jpc, jsrc, jdst>>
      BY <2>4, <3>1, WriteCases DEF Named
    <3>2. ASSUME ~UNCHANGED <<claim, pc, file, jpc, jsrc, jdst>> PROVE Named'
      <4>1. Full(written[s] + 1)
        BY <2>4, <3>2 DEF Write
      <4>2. path[s] \in Index /\ file[s][1] = Log(path[s])
        BY <2>4 DEF Write, LogInv, InHand, Named
      <4>3. PICK dup \in BOOLEAN : StartCompression(s, dup)
        BY <2>4, <4>1 DEF Write
      <4>4. <<s, path[s]>> \in Job /\ <<s, path[s]>>[2] = path[s]
        BY <4>2, Names
      <4>5. ASSUME NEW j \in Job, jsrc'[j] # None PROVE jsrc'[j][1] = Log(j[2])
        BY <4>2, <4>3, <4>4, <4>5 DEF StartCompression, Named, LogInv, Shape
      <4> QED BY <2>4, <4>1, <4>3, <4>5 DEF Write, StartCompression, Named, LogInv, Shape
    <3> QED BY <3>1, <3>2
  <2>5. CASE FindNextIndex(s)
    BY <2>5 DEF FindNextIndex, Named, LogInv, Shape
  <2>6. CASE RotateCreate(s)
    <3>1. CASE CompressionOwns(s, Log(index[s])) \/ dir[Log(index[s])] # None
      BY <2>6, <3>1 DEF RotateCreate, NextIndex, Named, LogInv, Shape
    <3>2. CASE ~(CompressionOwns(s, Log(index[s])) \/ dir[Log(index[s])] # None)
      <4>1. index[s] \in Index /\ Log(index[s]) \in Name /\ Spare(Log(index[s])) # {}
        BY <2>6, <3>2, Names DEF RotateCreate, LogInv, Shape, Index
      <4>2. NewInode(Log(index[s]))[1] = Log(index[s])
        BY <4>1, NewInodeFresh
      <4> HIDE DEF Log
      <4> QED BY <2>6, <3>2, <4>1, <4>2 DEF RotateCreate, Named, LogInv, Shape
    <3> QED BY <3>1, <3>2
  <2>7. CASE RotateFail(s)
    BY <2>7 DEF RotateFail, Named, LogInv, Shape
  <2>8. CASE RotateClaim(s)
    BY <2>8 DEF RotateClaim, NextIndex, Named, LogInv, Shape, InHand
  <2>9. CASE PruneList(s) \/ PruneCheck(s) \/ PruneUnlock(s)
    BY <2>9 DEF PruneList, PruneCheck, PruneUnlock, Pruned, Named, LogInv, Shape
  <2>10. CASE PruneRemove(s)
    BY <2>10 DEF PruneRemove, Pruned, Named, LogInv, Shape
  <2>11. CASE CloseFile(s)
    BY <2>11 DEF CloseFile, Named, LogInv, Shape
  <2>12. CASE Crash(s)
    BY <2>12 DEF Crash, Named, LogInv, Shape
  <2> QED BY <1>1, <2>1, <2>2, <2>3, <2>4, <2>5, <2>6, <2>7, <2>8, <2>9, <2>10, <2>11,
     <2>12 DEF SessionStep, Step
<1>2. ASSUME NEW j \in Job, Compress(j) PROVE Named'
  <2>1. CASE OpenSource(j)
    <3>1. Log(j[2]) \in Name
      BY Names
    <3>2. UNCHANGED <<dir, file, path, pc, fd, index>>
      BY <2>1 DEF OpenSource
    <3>3. ASSUME NEW k \in Job, jsrc'[k] # None PROVE jsrc'[k][1] = Log(k[2])
      BY <2>1, <3>1, <3>3 DEF OpenSource, EndJob, Named, LogInv, Shape
    <3>4. ASSUME NEW k \in Job, jdst'[k] # None PROVE jdst'[k][1] = Archive(k[2])
      BY <2>1, <3>4 DEF OpenSource, EndJob, Named, LogInv, Shape
    <3> QED BY <3>2, <3>3, <3>4 DEF Named
  <2>5. CASE ClaimSource(j)
    BY <2>5 DEF ClaimSource, EndJob, Named, LogInv, Shape
  <2>2. CASE OpenArchive(j)
    <3> DEFINE n == Archive(j[2])
               dst == IF dir[n] = None THEN NewInode(n) ELSE dir[n]
    <3>1. CASE LeaveSource(j) /\ UNCHANGED <<dir, data>>
      BY <2>2, <3>1 DEF OpenArchive, LeaveSource, EndJob, Named, LogInv, Shape
    <3>2. ASSUME ~(LeaveSource(j) /\ UNCHANGED <<dir, data>>) PROVE Named'
      <4>1. n \in Name
        BY Names
      <4>2. dst[1] = n
        BY <2>2, <3>2, <4>1, NewInodeFresh DEF OpenArchive, Named
      <4>3. dir' = [dir EXCEPT ![n] = dst] /\ jdst' = [jdst EXCEPT ![j] = dst]
        BY <2>2, <3>2 DEF OpenArchive
      <4>4. UNCHANGED <<file, path, pc, fd, index, jsrc>>
        BY <2>2, <3>2 DEF OpenArchive
      <4> HIDE DEF dst
      <4> QED BY <4>1, <4>2, <4>3, <4>4 DEF Named, LogInv, Shape
    <3> QED BY <3>1, <3>2
  <2>3. CASE ClaimArchive(j) \/ RemoveSource(j) \/ ReleaseSource(j)
    BY <2>3, Names DEF ClaimArchive, LeaveSource, RemoveSource, ReleaseSource, EndJob, Named,
       LogInv, Shape
  <2>4. CASE Copy(j)
    <3>1. CASE CopyDone(j)
      BY <2>4, <3>1 DEF Copy, CopyDone, Named, LogInv, Shape
    <3>2. CASE CopyFailed(j)
      BY <2>4, <3>2 DEF Copy, CopyFailed, EndJob, Named, LogInv, Shape
    <3> QED BY <2>4, <3>1, <3>2 DEF Copy
  <2> QED BY <1>2, <2>1, <2>2, <2>3, <2>4, <2>5 DEF Compress
<1>3. CASE UNCHANGED vars
  BY <1>3 DEF vars, Named
<1> QED BY <1>1, <1>2, <1>3 DEF Next, SessionStep

\* A step that leaves the files alone, and of the users of files lets some go.
LEMMA PlacedKept ==
  ASSUME Placed, race \subseteq race', UNCHANGED <<dir, data, dropped>>,
         \A s \in Session : file'[s] = None \/ (file'[s] = file[s] /\ path'[s] = path[s]),
         \A j \in Job : \/ jpc'[j] \in {"none", "openSrc", "claimSrc", "release"}
                        \/ /\ jpc'[j] = jpc[j] /\ jsrc'[j] = jsrc[j]
                           /\ jdst'[j] = jdst[j]
  PROVE  Placed'
<1> SUFFICES ASSUME race' = {} PROVE Placed'
  BY DEF Placed
<1>1. race = {}
  OBVIOUS
<1>2. \A j \in Job : Saved(j)' = Saved(j)
  BY DEF Saved
<1> QED BY <1>1, <1>2 DEF Placed

\* While a compression holds its source.
Holding == {"openDst", "claimDst", "copy", "unlink"}

\* Outside the windows an index has one user: a writer or a compression.
LEMMA OneUser ==
  ASSUME PlaceInv, race = {}
  PROVE  /\ \A s, t \in Session :
              file[s] # None /\ file[t] # None /\ path[s] = path[t] => s = t
         /\ \A s \in Session, j \in Job :
              file[s] # None /\ jpc[j] \in Holding => path[s] # j[2]
         /\ \A j, k \in Job :
              jpc[j] \in Holding /\ jpc[k] \in Holding /\ j[2] = k[2] => j = k
<1> USE DEF PlaceInv, LogInv, Claims, Placed, Holding
<1>1. \A s, t \in Session :
        file[s] # None /\ file[t] # None /\ path[s] = path[t] => s = t
  BY Holders
<1>2. \A s \in Session, j \in Job :
        file[s] # None /\ jpc[j] \in Holding => path[s] # j[2]
  BY Holders
<1>3. \A j, k \in Job :
        jpc[j] \in Holding /\ jpc[k] \in Holding /\ j[2] = k[2] => j = k
  BY Holders
<1> QED BY <1>1, <1>2, <1>3

\* An archive is no log file, nor one of another index; a source is no archive.
LEMMA FilesApart ==
  ASSUME PlaceInv
  PROVE  /\ \A j, k \in Job :
              /\ jsrc[j] # None /\ jdst[k] # None => jsrc[j] # jdst[k]
              /\ jdst[k] # None /\ jdst[k] = dir[Archive(j[2])] => j[2] = k[2]
         /\ \A s \in Session, j \in Job :
              /\ file[s] # None => file[s] # dir[Archive(j[2])]
              /\ file[s] # None /\ jdst[j] # None => file[s] # jdst[j]
<1> USE DEF PlaceInv, Named
<1>1. \A j \in Job : Log(j[2])[2] = "log" /\ Archive(j[2])[2] = "gz" /\ Archive(j[2])[1] = j[2]
  BY DEF Log, Archive
<1>2. \A j \in Job : /\ jsrc[j] # None => jsrc[j][1][2] = "log"
                     /\ jdst[j] # None => jdst[j][1][2] = "gz" /\ jdst[j][1][1] = j[2]
  BY <1>1
<1>3. \A j \in Job : dir[Archive(j[2])] # None =>
        dir[Archive(j[2])][1][2] = "gz" /\ dir[Archive(j[2])][1][1] = j[2]
  <2> SUFFICES ASSUME NEW j \in Job, dir[Archive(j[2])] # None
               PROVE  dir[Archive(j[2])][1] = Archive(j[2])
    BY <1>1
  <2>1. Archive(j[2]) \in Name
    BY Names
  <2> QED BY <2>1
<1>4. \A s \in Session : file[s] # None => file[s][1][2] = "log"
  BY DEF Log
<1> QED BY <1>2, <1>3, <1>4

\* The steps of a session.
LEMMA SessionPlaced ==
  ASSUME PlaceInv, NEW s \in Session, SessionStep(s), race' = {}
  PROVE  Placed'
<1> USE DEF PlaceInv
<1>1. race = {}
  BY DEF SessionStep, Step, FindLastFile, Write, CloseFile, RotateFail, Crash, OpenLast,
     ClaimLast, FindNextIndex, RotateCreate, RotateClaim, PruneList, PruneCheck,
     PruneUnlock, PruneRemove
<1>2. CASE FindLastFile(s) \/ OpenLast(s) \/ FindNextIndex(s) \/ RotateFail(s)
             \/ PruneList(s) \/ PruneCheck(s) \/ PruneUnlock(s)
  BY <1>2, PlacedKept DEF FindLastFile, OpenLast, FindNextIndex, RotateFail, PruneList,
     PruneCheck, PruneUnlock
<1>3. CASE CloseFile(s)
  BY <1>3, PlacedKept DEF CloseFile, LogInv, Shape
<1>4. CASE Crash(s)
  BY <1>4, PlacedKept DEF Crash, LogInv, Shape
<1>5. CASE ClaimLast(s) \/ RotateClaim(s)
  <2>1. /\ UNCHANGED <<dir, data, dropped, jpc, jsrc, jdst>>
        /\ \A t \in Session : t # s => file'[t] = file[t] /\ path'[t] = path[t]
        /\ \/ UNCHANGED <<file, path>>
           \/ file'[s] = fd[s] /\ path'[s] = index[s] /\ dir[Log(index[s])] = fd[s]
    <3>1. race \cup {"stale"} # {}
      OBVIOUS
    <3>2. CASE ClaimLast(s)
      BY <3>1, <3>2 DEF ClaimLast, LogInv, Shape
    <3>3. CASE RotateClaim(s)
      BY <3>1, <3>3 DEF RotateClaim, NextIndex, LogInv, Shape
    <3> QED BY <1>5, <3>2, <3>3
  <2>2. \A t \in Session : file'[t] # None => dir'[Log(path'[t])] = file'[t]
    BY <1>1, <2>1 DEF Placed
  <2>3. \A j \in Job : Saved(j)' = Saved(j)
    BY <2>1 DEF Saved
  <2> QED BY <1>1, <2>1, <2>2, <2>3 DEF Placed
<1>6. CASE Write(s)
  <2>1. /\ file[s] \in Inode /\ file[s] # None
        /\ UNCHANGED <<dir, path, dropped>>
        /\ data' = [data EXCEPT ![file[s]] = @ \cup {<<s, sent[s] + 1>>}]
        /\ \/ UNCHANGED <<claim, pc, file, jpc, jsrc, jdst>>
           \/ \E j \in Job : LeavesFile(s, j)
    BY <1>6, WriteCases DEF Write
  <2>2. ASSUME NEW j \in Job, jpc[j] = "unlink"
        PROVE  data'[jsrc[j]] \subseteq Saved(j)'
    <3>1. jsrc[j] # file[s] /\ jsrc[j] \in Inode
      BY <1>6, <2>2, Holders DEF Write, LogInv, Shape, InHand, Claims
    <3>2. data'[jsrc[j]] = data[jsrc[j]]
      BY <2>1, <3>1 DEF Contents
    <3>3. dir[Archive(j[2])] # None => dir[Archive(j[2])] \in Inode
      BY Names DEF LogInv, Shape
    <3>4. Saved(j) \subseteq Saved(j)'
      BY <2>1, <3>3 DEF Contents, Saved
    <3> QED BY <1>1, <2>2, <3>2, <3>4 DEF Placed
  <2>3. CASE UNCHANGED <<claim, pc, file, jpc, jsrc, jdst>>
    BY <1>1, <2>1, <2>2, <2>3 DEF Placed
  <2>4. ASSUME NEW j \in Job, LeavesFile(s, j), j = <<s, path[s]>> PROVE Placed'
    <3>1. /\ \A t \in Session : file'[t] # None => file'[t] = file[t] /\ path'[t] = path[t]
          /\ \A k \in Job : k # j =>
               jpc'[k] = jpc[k] /\ jsrc'[k] = jsrc[k] /\ jdst'[k] = jdst[k]
          /\ jpc'[j] = "openSrc" \/ (jpc'[j] = "openDst" /\ jsrc'[j] = file[s])
      BY <2>1, <2>4 DEF LeavesFile, LogInv, Shape
    <3>2. dir[Log(j[2])] = file[s]
      BY <1>1, <2>1, <2>4 DEF Placed
    <3> QED BY <1>1, <2>1, <2>2, <3>1, <3>2 DEF Placed
  <2>5. CASE ~UNCHANGED <<claim, pc, file, jpc, jsrc, jdst>>
    <3>1. Full(written[s] + 1)
      BY <1>6, <2>5 DEF Write
    <3>2. PICK dup \in BOOLEAN : StartCompression(s, dup)
      BY <1>6, <3>1 DEF Write
    <3>3. <<s, path[s]>> \in Job
      BY <2>1, Names DEF LogInv, InHand
    <3>4. file' = [file EXCEPT ![s] = None] /\ pc' = [pc EXCEPT ![s] = "rotIndex"]
      BY <1>6, <3>1 DEF Write
    <3>5. LeavesFile(s, <<s, path[s]>>)
      BY <3>2, <3>4 DEF StartCompression, LeavesFile
    <3> QED BY <2>4, <3>3, <3>5
  <2> QED BY <2>3, <2>5
<1>7. CASE RotateCreate(s)
  <2> DEFINE n == Log(index[s])
             i == NewInode(n)
  <2>1. UNCHANGED <<file, path, jpc, jsrc, jdst, dropped>>
    BY <1>7 DEF RotateCreate
  <2>2. CASE UNCHANGED <<dir, data>>
    BY <1>1, <2>1, <2>2, PlacedKept
  <2>3. CASE ~UNCHANGED <<dir, data>>
    <3>1. /\ index[s] \in Index /\ n \in Name /\ Spare(n) # {} /\ dir[n] = None
          /\ dir' = [dir EXCEPT ![n] = i] /\ data' = [data EXCEPT ![i] = {}]
      BY <1>7, <2>3, Names DEF RotateCreate, LogInv, Shape, Index
    <3>2. /\ i \in Inode /\ \A m \in Name : dir[m] # i
          /\ \A j \in Job : jsrc[j] # i
      BY <3>1, NewInodeFresh
    <3> HIDE DEF i
    <3>3. \A m \in Name : m # n => dir'[m] = dir[m]
      BY <3>1 DEF LogInv, Shape
    <3>4. \A t \in Session : file[t] # None => dir'[Log(path[t])] = file[t]
      BY <1>1, <3>1, <3>3, Names DEF Placed, LogInv, InHand
    <3>5. ASSUME NEW j \in Job
          PROVE  /\ jpc[j] \in Holding => dir'[Log(j[2])] = jsrc[j]
                 /\ dir'[Archive(j[2])] = dir[Archive(j[2])]
      <4>1. Archive(j[2]) # n /\ Archive(j[2]) \in Name /\ Log(j[2]) \in Name
        BY <3>1, Names, NamesApart
      <4>2. jpc[j] \in Holding => jsrc[j] # None /\ dir[Log(j[2])] = jsrc[j]
        BY <1>1 DEF Placed, LogInv, InHand, Holding
      <4> QED BY <3>1, <3>3, <4>1, <4>2
    <3>6. ASSUME NEW j \in Job, jpc[j] = "unlink"
          PROVE  data'[jsrc[j]] \subseteq Saved(j)'
      <4>1. jsrc[j] \in Inode /\ jsrc[j] # i
        BY <3>2, <3>6 DEF LogInv, Shape, InHand
      <4>2. dir[Archive(j[2])] # i /\ dir[Archive(j[2])] \in MaybeInode
        BY <3>2, Names DEF LogInv, Shape
      <4>3. Saved(j)' = Saved(j)
        BY <2>1, <3>1, <3>5, <4>2 DEF Saved, Contents
      <4>4. data'[jsrc[j]] = data[jsrc[j]]
        BY <3>1, <4>1 DEF Contents
      <4> QED BY <1>1, <3>6, <4>3, <4>4 DEF Placed
    <3> QED BY <1>1, <2>1, <3>4, <3>5, <3>6 DEF Placed, Holding
  <2> QED BY <2>2, <2>3
<1>8. CASE PruneRemove(s)
  <2>1. PICK n \in Name :
          /\ dir' = [dir EXCEPT ![n] = None]
          /\ IF dir[n] = None THEN UNCHANGED histVars
             ELSE /\ dropped' = dropped \cup data[dir[n]]
                  /\ race' = IF Claimed(dir[n]) THEN race \cup {"pruned"} ELSE race
    BY <1>8 DEF PruneRemove, Oldest, LogInv, Shape
  <2>2. UNCHANGED <<file, path, jpc, jsrc, jdst, data>>
    BY <1>8 DEF PruneRemove
  <2>3. dir[n] = None \/ claim[dir[n]] = Free
    BY <2>1 DEF Claimed
  <2>4. \A m \in Name : m # n => dir'[m] = dir[m]
    BY <2>1 DEF LogInv, Shape
  <2>5. ASSUME NEW m \in Name, dir[m] # None, claim[dir[m]] # Free
        PROVE  dir'[m] = dir[m]
    BY <2>3, <2>4, <2>5
  <2>6. \A t \in Session : file[t] # None => dir'[Log(path[t])] = file[t]
    <3> SUFFICES ASSUME NEW t \in Session, file[t] # None
                 PROVE  dir'[Log(path[t])] = file[t]
      OBVIOUS
    <3>1. dir[Log(path[t])] = file[t] /\ Log(path[t]) \in Name
      BY <1>1, Names DEF Placed, LogInv, InHand
    <3>2. claim[file[t]] # Free
      BY Holders DEF LogInv, Claims
    <3> QED BY <2>5, <3>1, <3>2
  <2>7. ASSUME NEW j \in Job
        PROVE  /\ jpc[j] \in Holding => dir'[Log(j[2])] = jsrc[j]
               /\ jpc[j] = "copy" => dir'[Archive(j[2])] = jdst[j]
    <3>1. Archive(j[2]) \in Name /\ Log(j[2]) \in Name
      BY Names
    <3>2. jpc[j] \in Holding =>
            dir[Log(j[2])] = jsrc[j] /\ jsrc[j] # None /\ claim[jsrc[j]] # Free
      BY <1>1, Holders DEF Placed, LogInv, InHand, Claims, Holding
    <3>3. jpc[j] = "copy" =>
            dir[Archive(j[2])] = jdst[j] /\ jdst[j] # None /\ claim[jdst[j]] # Free
      BY <1>1, Holders DEF Placed, LogInv, InHand, Claims
    <3> QED BY <2>5, <3>1, <3>2, <3>3
  <2>8. \A j \in Job : Saved(j) \subseteq Saved(j)'
    <3> SUFFICES ASSUME NEW j \in Job PROVE Saved(j) \subseteq Saved(j)'
      OBVIOUS
    <3>1. Archive(j[2]) \in Name /\ dropped \subseteq dropped'
      BY <2>1, Names
    <3>2. CASE Archive(j[2]) = n
      BY <2>1, <2>2, <3>1, <3>2 DEF Saved
    <3>3. CASE Archive(j[2]) # n
      BY <2>2, <2>4, <3>1, <3>3 DEF Saved
    <3> QED BY <3>2, <3>3
  <2> QED BY <1>1, <2>2, <2>6, <2>7, <2>8 DEF Placed, Holding
<1> QED BY <1>2, <1>3, <1>4, <1>5, <1>6, <1>7, <1>8 DEF SessionStep, Step

\* The steps of a compression.
LEMMA CompressPlaced ==
  ASSUME PlaceInv, NEW j \in Job, Compress(j), race' = {}
  PROVE  Placed'
<1> USE DEF PlaceInv
<1>1. race = {}
  BY DEF Compress, OpenSource, ClaimSource, OpenArchive, ClaimArchive, Copy, RemoveSource,
     ReleaseSource
<1>2. CASE OpenSource(j) \/ ReleaseSource(j)
  BY <1>2, PlacedKept DEF OpenSource, ReleaseSource, EndJob, LogInv, Shape
<1>3. CASE ClaimSource(j)
  <2>1. CASE EndJob(j) /\ UNCHANGED <<claim, race>>
    BY <1>3, <2>1, PlacedKept DEF ClaimSource, EndJob, LogInv, Shape
  <2>2. CASE ~(EndJob(j) /\ UNCHANGED <<claim, race>>)
    <3>1. race \cup {"stale"} # {}
      OBVIOUS
    <3>2. /\ UNCHANGED <<dir, data, file, path, jsrc, jdst, dropped>>
          /\ dir[Log(j[2])] = jsrc[j]
          /\ jpc' = [jpc EXCEPT ![j] = "openDst"]
      BY <1>3, <2>2, <3>1 DEF ClaimSource
    <3>3. \A k \in Job : Saved(k)' = Saved(k)
      BY <3>2 DEF Saved
    <3> QED BY <1>1, <3>2, <3>3 DEF Placed, LogInv, Shape
  <2> QED BY <2>1, <2>2
<1>4. CASE OpenArchive(j)
  <2>1. CASE LeaveSource(j) /\ UNCHANGED <<dir, data>>
    BY <1>4, <2>1, PlacedKept DEF OpenArchive, LeaveSource, EndJob, LogInv, Shape
  <2>2. CASE ~(LeaveSource(j) /\ UNCHANGED <<dir, data>>)
    <3> DEFINE n == Archive(j[2])
               i == NewInode(n)
    <3>1. /\ UNCHANGED <<file, path, jsrc, dropped>>
          /\ jpc[j] = "openDst" /\ jpc' = [jpc EXCEPT ![j] = "claimDst"]
          /\ \A k \in Job : k # j => jdst'[k] = jdst[k]
          /\ \/ dir[n] # None /\ dir' = [dir EXCEPT ![n] = dir[n]] /\ data' = data
             \/ /\ dir[n] = None /\ Spare(n) # {}
                /\ dir' = [dir EXCEPT ![n] = i] /\ data' = [data EXCEPT ![i] = {}]
      BY <1>4, <2>2 DEF OpenArchive, LogInv, Shape
    <3>2. n \in Name
      BY Names
    <3>3. /\ \A m \in Name : m # n => dir'[m] = dir[m]
          /\ dir[n] # None => dir'[n] = dir[n]
      BY <3>1, <3>2 DEF LogInv, Shape
    <3>4. \A t \in Session : file[t] # None => dir'[Log(path[t])] = file[t]
      BY <1>1, <3>2, <3>3, Names, NamesApart DEF Placed, LogInv, InHand
    <3>5. ASSUME NEW k \in Job, jpc[k] \in Holding PROVE dir'[Log(k[2])] = jsrc[k]
      <4>1. Log(k[2]) \in Name /\ Log(k[2]) # n
        BY Names, NamesApart
      <4> QED BY <1>1, <3>3, <3>5, <4>1 DEF Placed, Holding
    <3>6. ASSUME NEW k \in Job, jpc[k] = "copy" PROVE dir'[Archive(k[2])] = jdst[k]
      <4>1. Archive(k[2]) \in Name /\ dir[Archive(k[2])] = jdst[k] /\ jdst[k] # None
        BY <1>1, <3>6, Names DEF Placed, LogInv, InHand
      <4> QED BY <3>3, <4>1
    <3>7. ASSUME NEW k \in Job, jpc[k] = "unlink"
          PROVE  data'[jsrc[k]] \subseteq Saved(k)'
      <4>1. k[2] # j[2] /\ Archive(k[2]) # n /\ Archive(k[2]) \in Name
        BY <1>1, <3>1, <3>7, OneUser, Names, NamesApart DEF Holding
      <4>2. dir'[Archive(k[2])] = dir[Archive(k[2])]
        BY <3>3, <4>1
      <4>3. dir[Archive(k[2])] \in MaybeInode /\ jsrc[k] \in Inode
        BY <3>7, <4>1 DEF LogInv, Shape, InHand
      <4>4. ASSUME NEW x \in Inode, x = dir[Archive(k[2])] \/ x = jsrc[k]
            PROVE  data'[x] = data[x]
        <5>1. CASE dir[n] # None
          BY <3>1, <5>1
        <5>2. CASE dir[n] = None
          <6>1. i # x
            BY <3>1, <3>2, <4>1, <4>4, <5>2, NewInodeFresh
          <6> HIDE DEF i
          <6> QED BY <3>1, <5>2, <6>1 DEF Contents
        <5> QED BY <5>1, <5>2
      <4>5. data'[jsrc[k]] = data[jsrc[k]] /\ Saved(k)' = Saved(k)
        BY <3>1, <4>2, <4>3, <4>4 DEF Saved
      <4> QED BY <1>1, <3>7, <4>5 DEF Placed
    <3>8. \A k \in Job : jpc'[k] # "none" =>
            jsrc'[k] = jsrc[k] /\ (k # j => jpc'[k] = jpc[k] /\ jdst'[k] = jdst[k])
      BY <3>1 DEF LogInv, Shape
    <3>9. jpc'[j] = "claimDst"
      BY <3>1 DEF LogInv, Shape
    <3> QED BY <3>1, <3>4, <3>5, <3>6, <3>7, <3>8, <3>9 DEF Placed, Holding
  <2> QED BY <2>1, <2>2
<1>5. CASE ClaimArchive(j)
  <2>1. CASE LeaveSource(j) /\ UNCHANGED <<data, race>>
    BY <1>5, <2>1, PlacedKept DEF ClaimArchive, LeaveSource, EndJob, LogInv, Shape
  <2>2. CASE ~(LeaveSource(j) /\ UNCHANGED <<data, race>>)
    <3>1. race \cup {"stale"} # {}
      OBVIOUS
    <3>2. /\ UNCHANGED <<dir, file, path, jsrc, jdst, dropped>>
          /\ jpc[j] = "claimDst" /\ jpc' = [jpc EXCEPT ![j] = "copy"]
          /\ data' = [data EXCEPT ![jdst[j]] = {}]
          /\ dir[Archive(j[2])] = jdst[j]
      BY <1>5, <2>2, <3>1 DEF ClaimArchive
    <3>3. ASSUME NEW k \in Job, jpc[k] = "unlink"
          PROVE  data'[jsrc[k]] \subseteq Saved(k)'
      <4>1. k[2] # j[2]
        BY <1>1, <3>2, <3>3, OneUser DEF Holding
      <4>2. jdst[j] # None /\ jsrc[k] # None
        BY <3>2, <3>3 DEF LogInv, InHand
      <4>3. jdst[j] # dir[Archive(k[2])] /\ jdst[j] # jsrc[k]
        BY <4>1, <4>2, FilesApart
      <4>4. dir[Archive(k[2])] \in MaybeInode /\ jsrc[k] \in Inode
        BY <4>2, Names DEF LogInv, Shape
      <4>5. data'[jsrc[k]] = data[jsrc[k]] /\ Saved(k)' = Saved(k)
        BY <3>2, <4>3, <4>4 DEF Saved, Contents
      <4> QED BY <1>1, <3>3, <4>5 DEF Placed
    <3>4. \A k \in Job : jpc'[k] = IF k = j THEN "copy" ELSE jpc[k]
      BY <3>2 DEF LogInv, Shape
    <3> QED BY <1>1, <3>2, <3>3, <3>4 DEF Placed
  <2> QED BY <2>1, <2>2
<1>6. CASE Copy(j)
  <2>1. jpc[j] = "copy" /\ dir[Archive(j[2])] = jdst[j] /\ dir[Log(j[2])] = jsrc[j]
    BY <1>1, <1>6 DEF Copy, Placed
  <2>2. UNCHANGED <<file, path, dropped>>
    BY <1>6 DEF Copy
  <2>3. jdst[j] \in Inode /\ jsrc[j] \in Inode
    BY <2>1 DEF LogInv, Shape, InHand
  <2>4. \A k \in Job : jpc[k] \in Holding /\ k # j => k[2] # j[2]
    BY <1>1, <2>1, OneUser DEF Holding
  <2>5. CASE CopyDone(j)
    <3>1. /\ UNCHANGED <<dir, jsrc>> /\ data' = [data EXCEPT ![jdst[j]] = data[jsrc[j]]]
          /\ \A k \in Job : k # j => jpc'[k] = jpc[k] /\ jdst'[k] = jdst[k]
          /\ jpc'[j] = "unlink"
      BY <2>5 DEF CopyDone, LogInv, Shape
    <3>2. jsrc[j] # jdst[j]
      BY <2>3, FilesApart
    <3>3. data'[jsrc[j]] \subseteq Saved(j)'
      BY <2>1, <2>2, <2>3, <3>1, <3>2 DEF Saved, Contents
    <3>4. ASSUME NEW k \in Job, k # j, jpc[k] = "unlink"
          PROVE  data'[jsrc[k]] \subseteq Saved(k)'
      <4>1. k[2] # j[2]
        BY <2>4, <3>4 DEF Holding
      <4>2. jsrc[k] # None
        BY <3>4 DEF LogInv, InHand
      <4>3. jdst[j] # dir[Archive(k[2])] /\ jdst[j] # jsrc[k]
        BY <2>3, <4>1, <4>2, FilesApart
      <4>4. dir[Archive(k[2])] \in MaybeInode /\ jsrc[k] \in Inode
        BY <4>2, Names DEF LogInv, Shape
      <4>5. data'[jsrc[k]] = data[jsrc[k]] /\ Saved(k)' = Saved(k)
        BY <2>2, <3>1, <4>3, <4>4 DEF Saved, Contents
      <4> QED BY <1>1, <3>4, <4>5 DEF Placed
    <3> QED BY <1>1, <2>1, <2>2, <3>1, <3>3, <3>4 DEF Placed
  <2>6. CASE CopyFailed(j)
    <3>1. /\ UNCHANGED data /\ dir' = [dir EXCEPT ![Archive(j[2])] = None]
          /\ \A k \in Job :
               k # j => jpc'[k] = jpc[k] /\ jsrc'[k] = jsrc[k] /\ jdst'[k] = jdst[k]
          /\ jpc'[j] = "none"
      BY <2>6 DEF CopyFailed, EndJob, LogInv, Shape
    <3>2. \A m \in Name : m # Archive(j[2]) => dir'[m] = dir[m]
      BY <3>1 DEF LogInv, Shape
    <3>3. ASSUME NEW t \in Session, file[t] # None PROVE dir'[Log(path[t])] = file[t]
      <4>1. dir[Log(path[t])] = file[t]
        BY <1>1, <3>3 DEF Placed
      <4>2. path[t] \in Index /\ j[2] \in Index
        BY <3>3, Names DEF LogInv, InHand
      <4>3. Log(path[t]) \in Name /\ Log(path[t]) # Archive(j[2])
        BY <4>2, Names, NamesApart
      <4> QED BY <3>2, <4>1, <4>3
    <3>4. ASSUME NEW k \in Job, k # j, jpc[k] \in Holding
          PROVE  /\ dir'[Log(k[2])] = dir[Log(k[2])]
                 /\ dir'[Archive(k[2])] = dir[Archive(k[2])]
      <4>1. k[2] # j[2]
        BY <2>4, <3>4
      <4> QED BY <3>2, <4>1, Names, NamesApart
    <3>5. \A k \in Job : k # j /\ jpc[k] \in Holding => Saved(k)' = Saved(k)
      BY <2>2, <3>1, <3>4 DEF Saved
    <3> QED BY <1>1, <2>2, <3>1, <3>3, <3>4, <3>5 DEF Placed, Holding
  <2> QED BY <1>6, <2>5, <2>6 DEF Copy
<1>7. CASE RemoveSource(j)
  <2>1. /\ jpc[j] = "unlink" /\ dir' = [dir EXCEPT ![Log(j[2])] = None]
        /\ UNCHANGED <<data, file, path, jsrc, jdst, dropped>>
        /\ jpc'[j] = "release" /\ \A k \in Job : k # j => jpc'[k] = jpc[k]
    BY <1>7 DEF RemoveSource, LogInv, Shape
  <2>2. \A m \in Name : m # Log(j[2]) => dir'[m] = dir[m]
    BY <2>1 DEF LogInv, Shape
  <2>3. ASSUME NEW t \in Session, file[t] # None PROVE dir'[Log(path[t])] = file[t]
    <3>1. path[t] # j[2] /\ path[t] \in Index
      BY <1>1, <2>1, <2>3, OneUser DEF Holding, LogInv, InHand
    <3>2. Log(path[t]) # Log(j[2]) /\ Log(path[t]) \in Name
      BY <3>1, Names, NamesApart
    <3> QED BY <1>1, <2>2, <2>3, <3>2 DEF Placed
  <2>4. ASSUME NEW k \in Job, k # j, jpc[k] \in Holding
        PROVE  dir'[Log(k[2])] = dir[Log(k[2])]
    <3>1. k[2] # j[2]
      BY <1>1, <2>1, <2>4, OneUser DEF Holding
    <3> QED BY <2>2, <3>1, Names, NamesApart
  <2>5. ASSUME NEW k \in Job PROVE dir'[Archive(k[2])] = dir[Archive(k[2])]
    BY <2>2, Names, NamesApart
  <2>6. \A k \in Job : Saved(k)' = Saved(k)
    BY <2>1, <2>5 DEF Saved
  <2> QED BY <1>1, <2>1, <2>3, <2>4, <2>5, <2>6 DEF Placed, Holding
<1> QED BY <1>2, <1>3, <1>4, <1>5, <1>6, <1>7 DEF Compress

LEMMA PlaceInvariance == Spec => []PlaceInv
<1>1. ASSUME PlaceInv, [Next]_vars PROVE PlaceInv'
  <2>1. LogInv'
    BY <1>1, NextShape, NextInHand, NextClaims DEF PlaceInv, LogInv
  <2>2. Contents' /\ Named'
    BY <1>1, NextContents, NextNamed
  <2>3. CASE UNCHANGED vars
    <3>1. \A j \in Job : Saved(j)' = Saved(j)
      BY <2>3 DEF vars, Saved
    <3>2. Placed'
      BY <1>1, <2>3, <3>1 DEF vars, PlaceInv, Placed
    <3> QED BY <2>1, <2>2, <3>2 DEF PlaceInv
  <2>4. CASE Next
    <3>1. race' = {} => Placed'
      BY <1>1, <2>4, SessionPlaced, CompressPlaced DEF Next, SessionStep
    <3>2. Placed'
      BY <3>1 DEF Placed
    <3> QED BY <2>1, <2>2, <3>2 DEF PlaceInv
  <2> QED BY <1>1, <2>3, <2>4
<1> QED BY InitPlace, <1>1, PTL DEF Spec

\* A compression that removes its source removes the file it has read, and what that
\* held is in the archive or was pruned - whatever other sessions write, compress,
\* prune and leave behind, as long as none of the unguarded windows was hit.
THEOREM ArchivedFirst == Spec => ArchiveBeforeUnlink
<1>1. PlaceInv => [\A j \in Job :
        (jpc[j] = "unlink" /\ jpc'[j] = "release" /\ race = {}) =>
          /\ dir[Log(j[2])] = jsrc[j]
          /\ data[jsrc[j]] \subseteq dropped \cup
               (IF dir[Archive(j[2])] = None THEN {} ELSE data[dir[Archive(j[2])]])]_vars
  BY DEF PlaceInv, Placed, Saved
<1> QED BY <1>1, PlaceInvariance, PTL DEF ArchiveBeforeUnlink

-----------------------------------------------------------------------------
(* Entries *)

\* An archive beside its log file holds nothing the log file does not: it is a copy,
\* complete or not, that the next compression may overwrite.
Doubled ==
  race = {} =>
    \A i \in Index : dir[Log(i)] # None /\ dir[Archive(i)] # None =>
      data[dir[Archive(i)]] \subseteq data[dir[Log(i)]]

\* An entry can be found, or was pruned.
Kept(e) == e \in dropped \/ \E n \in Name : dir[n] # None /\ e \in data[dir[n]]

EntryInv == PlaceInv /\ Doubled /\ EntriesKept

LEMMA KeptIs ==
  EntriesKept <=> (race = {} => \A s \in Session : \A k \in 1..sent[s] : Kept(<<s, k>>))
  BY DEF EntriesKept, Kept, Present

\* A file that is linked has one name, and whoever uses it uses it by that name.
LEMMA OneName ==
  ASSUME PlaceInv, NEW m \in Name, dir[m] # None
  PROVE  /\ dir[m] \in Inode
         /\ \A n \in Name : dir[n] = dir[m] => n = m
         /\ \A s \in Session : file[s] = dir[m] => m = Log(path[s])
         /\ \A j \in Job : jdst[j] = dir[m] => m = Archive(j[2])
  BY DEF PlaceInv, Named, LogInv, Shape

\* A step that leaves the files alone.
LEMMA FilesKept ==
  ASSUME Doubled, race \subseteq race', UNCHANGED <<dir, data, dropped>>
  PROVE  Doubled' /\ \A e : Kept(e) => Kept(e)'
  BY DEF Doubled, Kept

\* No step of a session loses an entry.
LEMMA SessionKeeps ==
  ASSUME PlaceInv, Doubled, NEW s \in Session, SessionStep(s), race' = {}
  PROVE  race = {} /\ Doubled' /\ \A e : Kept(e) => Kept(e)'
<1>1. race = {}
  BY DEF SessionStep, Step, FindLastFile, Write, CloseFile, RotateFail, Crash, OpenLast,
     ClaimLast, FindNextIndex, RotateCreate, RotateClaim, PruneList, PruneCheck,
     PruneUnlock, PruneRemove
<1>2. CASE UNCHANGED <<dir, data, dropped>>
  BY <1>1, <1>2, FilesKept
<1>3. CASE Write(s)
  <2>1. /\ file[s] \in Inode
        /\ UNCHANGED <<dir, dropped>>
        /\ data' = [data EXCEPT ![file[s]] = @ \cup {<<s, sent[s] + 1>>}]
    BY <1>3, WriteCases DEF Write, PlaceInv
  <2>2. \A x \in Inode : data[x] \subseteq data'[x]
    BY <2>1 DEF PlaceInv, Contents
  <2>3. \A e : Kept(e) => Kept(e)'
    BY <2>1, <2>2, OneName DEF Kept
  <2>4. ASSUME NEW i \in Index, dir[Log(i)] # None, dir[Archive(i)] # None
        PROVE  data'[dir[Archive(i)]] \subseteq data'[dir[Log(i)]]
    <3>1. path[s] \in Index /\ Log(i) \in Name /\ Archive(i) \in Name
      BY <2>1, Names DEF PlaceInv, LogInv, InHand
    <3>2. dir[Archive(i)] \in Inode /\ dir[Log(i)] \in Inode /\ dir[Archive(i)] # file[s]
      BY <2>4, <3>1, OneName, NamesApart
    <3>3. data'[dir[Archive(i)]] = data[dir[Archive(i)]]
      BY <2>1, <3>2 DEF PlaceInv, Contents
    <3> QED BY <1>1, <2>2, <2>4, <3>2, <3>3 DEF Doubled
  <2> QED BY <1>1, <2>1, <2>3, <2>4 DEF Doubled
<1>4. CASE RotateCreate(s) /\ ~UNCHANGED <<dir, data, dropped>>
  <2> DEFINE n == Log(index[s])
             x == NewInode(n)
  <2>1. race \cup {"reused"} # {}
    OBVIOUS
  <2>2. /\ index[s] \in Index /\ n \in Name /\ Spare(n) # {} /\ dir[n] = None
        /\ dir' = [dir EXCEPT ![n] = x] /\ data' = [data EXCEPT ![x] = {}]
        /\ dir[Archive(index[s])] = None /\ dropped' = dropped
    <3>1. CASE CompressionOwns(s, n) \/ dir[n] # None
      BY <1>4, <3>1 DEF RotateCreate
    <3>2. CASE ~(CompressionOwns(s, n) \/ dir[n] # None)
      <4>1. /\ index[s] <= MaxIndex /\ dir[n] = None /\ Spare(n) # {} /\ dropped' = dropped
            /\ dir' = [dir EXCEPT ![n] = x] /\ data' = [data EXCEPT ![x] = {}]
            /\ race' = IF dir[Archive(index[s])] = None THEN race ELSE race \cup {"reused"}
        BY <1>4, <3>2 DEF RotateCreate
      <4>2. index[s] \in Index
        BY <4>1, LogAssumption DEF PlaceInv, LogInv, Shape, Index
      <4> QED BY <2>1, <4>1, <4>2, Names
    <3> QED BY <3>1, <3>2
  <2>3. x \in Inode /\ \A m \in Name : dir[m] # x
    BY <2>2, NewInodeFresh
  <2> HIDE DEF x
  <2>4. ASSUME NEW m \in Name, m # n
        PROVE  dir'[m] = dir[m] /\ (dir[m] # None => data'[dir[m]] = data[dir[m]])
    BY <2>2, <2>3, <2>4, OneName DEF PlaceInv, LogInv, Shape, Contents
  <2>5. \A e : Kept(e) => Kept(e)'
    BY <2>2, <2>4 DEF Kept
  <2>6. ASSUME NEW i \in Index, dir'[Log(i)] # None, dir'[Archive(i)] # None
        PROVE  data'[dir'[Archive(i)]] \subseteq data'[dir'[Log(i)]]
    <3>1. Archive(i) \in Name /\ Archive(i) # n /\ Log(i) \in Name
      BY <2>2, Names, NamesApart
    <3>2. i # index[s]
      BY <2>2, <2>4, <2>6, <3>1
    <3>3. Log(i) # n
      BY <2>2, <3>2, NamesApart
    <3> QED BY <1>1, <2>4, <2>6, <3>1, <3>3 DEF Doubled
  <2> QED BY <1>1, <2>5, <2>6 DEF Doubled
<1>5. CASE PruneRemove(s)
  <2>1. PICK n \in Name :
          /\ dir' = [dir EXCEPT ![n] = None]
          /\ dropped \subseteq dropped'
          /\ dir[n] # None => data[dir[n]] \subseteq dropped'
    BY <1>5 DEF PruneRemove, Oldest, PlaceInv, LogInv, Shape
  <2>2. data' = data
    BY <1>5 DEF PruneRemove
  <2>3. \A m \in Name : dir'[m] = IF m = n THEN None ELSE dir[m]
    BY <2>1 DEF PlaceInv, LogInv, Shape
  <2>4. \A e : Kept(e) => Kept(e)'
    BY <2>1, <2>2, <2>3 DEF Kept
  <2>5. Doubled'
    BY <1>1, <2>2, <2>3, Names DEF Doubled
  <2> QED BY <1>1, <2>4, <2>5
<1>6. ~Write(s) /\ ~RotateCreate(s) /\ ~PruneRemove(s) => UNCHANGED <<dir, data, dropped>>
  BY DEF SessionStep, Step, FindLastFile, CloseFile, RotateFail, Crash, OpenLast,
     ClaimLast, FindNextIndex, RotateClaim, PruneList, PruneCheck, PruneUnlock
<1> QED BY <1>1, <1>2, <1>3, <1>4, <1>5, <1>6

\* No step of a compression loses an entry.
LEMMA CompressKeeps ==
  ASSUME PlaceInv, Doubled, NEW j \in Job, Compress(j), race' = {}
  PROVE  race = {} /\ Doubled' /\ \A e : Kept(e) => Kept(e)'
<1>1. race = {}
  BY DEF Compress, OpenSource, ClaimSource, OpenArchive, ClaimArchive, Copy, RemoveSource,
     ReleaseSource
<1>2. CASE UNCHANGED <<dir, data, dropped>>
  BY <1>1, <1>2, FilesKept
<1> DEFINE n == Archive(j[2])
<1>3. j[2] \in Index /\ n \in Name /\ Log(j[2]) \in Name /\ Log(j[2]) # n
  BY Names, NamesApart
<1>4. CASE OpenArchive(j) /\ ~UNCHANGED <<dir, data, dropped>>
  <2> DEFINE x == NewInode(n)
  <2>1. /\ dir[n] = None /\ Spare(n) # {} /\ dropped' = dropped
        /\ dir' = [dir EXCEPT ![n] = x] /\ data' = [data EXCEPT ![x] = {}]
    BY <1>3, <1>4 DEF OpenArchive, LeaveSource, PlaceInv, LogInv, Shape
  <2>2. x \in Inode /\ \A m \in Name : dir[m] # x
    BY <1>3, <2>1, NewInodeFresh
  <2> HIDE DEF x
  <2>3. ASSUME NEW m \in Name, m # n
        PROVE  dir'[m] = dir[m] /\ (dir[m] # None => data'[dir[m]] = data[dir[m]])
    BY <1>3, <2>1, <2>2, <2>3, OneName DEF PlaceInv, LogInv, Shape, Contents
  <2>4. \A e : Kept(e) => Kept(e)'
    BY <2>1, <2>3 DEF Kept
  <2>5. ASSUME NEW i \in Index, dir'[Log(i)] # None, dir'[Archive(i)] # None
        PROVE  data'[dir'[Archive(i)]] \subseteq data'[dir'[Log(i)]]
    <3>1. Archive(i) \in Name /\ Log(i) # n /\ Log(i) \in Name
      BY <1>3, Names, NamesApart
    <3>2. CASE Archive(i) = n
      BY <1>3, <2>1, <2>2, <3>2 DEF PlaceInv, LogInv, Shape, Contents
    <3>3. CASE Archive(i) # n
      BY <1>1, <2>3, <2>5, <3>1, <3>3 DEF Doubled
    <3> QED BY <3>2, <3>3
  <2> QED BY <1>1, <2>4, <2>5 DEF Doubled
<1>5. CASE ClaimArchive(j) \/ Copy(j)
  <2>1. CASE UNCHANGED <<dir, data, dropped>>
    BY <1>2, <2>1
  <2>2. CASE Copy(j) /\ CopyFailed(j)
    <3>1. /\ dir' = [dir EXCEPT ![n] = None] /\ UNCHANGED <<data, dropped>>
          /\ dir[n] = jdst[j] /\ jdst[j] # None
          /\ dir[Log(j[2])] = jsrc[j] /\ jsrc[j] # None
      BY <1>1, <2>2 DEF Copy, CopyFailed, PlaceInv, Placed, LogInv, InHand
    <3>2. data[dir[n]] \subseteq data[dir[Log(j[2])]]
      BY <1>1, <1>3, <3>1 DEF Doubled
    <3>3. \A m \in Name : dir'[m] = IF m = n THEN None ELSE dir[m]
      BY <1>3, <3>1 DEF PlaceInv, LogInv, Shape
    <3>4. \A e : Kept(e) => Kept(e)'
      BY <1>3, <3>1, <3>2, <3>3 DEF Kept
    <3>5. Doubled'
      BY <1>1, <3>1, <3>3, Names DEF Doubled
    <3> QED BY <1>1, <3>4, <3>5
  <2>3. CASE (Copy(j) /\ CopyDone(j)) \/ (ClaimArchive(j) /\ ~UNCHANGED <<dir, data, dropped>>)
    <3>0. race \cup {"stale"} # {}
      OBVIOUS
    <3>1. /\ UNCHANGED <<dir, dropped>> /\ jdst[j] # None /\ jsrc[j] # None
          /\ dir[n] = jdst[j] /\ dir[Log(j[2])] = jsrc[j]
      BY <1>1, <2>3, <3>0 DEF Copy, CopyDone, ClaimArchive, LeaveSource, PlaceInv, Placed,
         LogInv, InHand
    <3>2. PICK new \in SUBSET data[jsrc[j]] : data' = [data EXCEPT ![jdst[j]] = new]
      <4>1. CASE Copy(j) /\ CopyDone(j)
        <5> WITNESS data[jsrc[j]] \in SUBSET data[jsrc[j]]
        <5> QED BY <4>1 DEF CopyDone
      <4>2. CASE ClaimArchive(j) /\ ~UNCHANGED <<dir, data, dropped>>
        <5>1. data' = [data EXCEPT ![jdst[j]] = {}]
          BY <1>1, <3>0, <4>2 DEF ClaimArchive, LeaveSource
        <5> WITNESS {} \in SUBSET data[jsrc[j]]
        <5> QED BY <5>1
      <4> QED BY <2>3, <4>1, <4>2
    <3>3. data[dir[n]] \subseteq data[dir[Log(j[2])]]
      BY <1>1, <1>3, <3>1 DEF Doubled
    <3>4. ASSUME NEW m \in Name, m # n, dir[m] # None PROVE data'[dir[m]] = data[dir[m]]
      BY <1>3, <3>1, <3>2, <3>4, OneName DEF PlaceInv, Contents
    <3>5. data'[dir[n]] = new
      BY <1>3, <3>1, <3>2, OneName DEF PlaceInv, Contents
    <3>6. \A e : Kept(e) => Kept(e)'
      BY <1>3, <3>1, <3>3, <3>4 DEF Kept
    <3>7. ASSUME NEW i \in Index, dir[Log(i)] # None, dir[Archive(i)] # None
          PROVE  data'[dir[Archive(i)]] \subseteq data'[dir[Log(i)]]
      <4>1. Archive(i) \in Name /\ Log(i) # n /\ Log(i) \in Name
        BY <1>3, Names, NamesApart
      <4>2. CASE Archive(i) = n
        <5>1. i = j[2]
          BY <1>3, <4>2, NamesApart
        <5> QED BY <1>3, <3>1, <3>2, <3>4, <3>5, <5>1
      <4>3. CASE Archive(i) # n
        BY <1>1, <3>4, <3>7, <4>1, <4>3 DEF Doubled
      <4> QED BY <4>2, <4>3
    <3> QED BY <1>1, <3>1, <3>6, <3>7 DEF Doubled
  <2> QED BY <1>5, <2>1, <2>2, <2>3 DEF Copy
<1>6. CASE RemoveSource(j)
  <2>1. /\ dir' = [dir EXCEPT ![Log(j[2])] = None] /\ UNCHANGED <<data, dropped>>
        /\ dir[Log(j[2])] = jsrc[j] /\ data[jsrc[j]] \subseteq Saved(j)
    BY <1>1, <1>6 DEF RemoveSource, PlaceInv, Placed
  <2>2. \A m \in Name : dir'[m] = IF m = Log(j[2]) THEN None ELSE dir[m]
    BY <1>3, <2>1 DEF PlaceInv, LogInv, Shape
  <2>3. \A e : Kept(e) => Kept(e)'
    BY <1>3, <2>1, <2>2 DEF Kept, Saved
  <2>4. Doubled'
    BY <1>1, <2>1, <2>2, Names DEF Doubled
  <2> QED BY <1>1, <2>3, <2>4
<1>7. ~OpenArchive(j) /\ ~ClaimArchive(j) /\ ~Copy(j) /\ ~RemoveSource(j) =>
        UNCHANGED <<dir, data, dropped>>
  BY DEF Compress, OpenSource, ClaimSource, ReleaseSource
<1> QED BY <1>1, <1>2, <1>4, <1>5, <1>6, <1>7

\* Only a Write accepts an entry, and it puts it in the file it has open.
LEMMA NewKept ==
  ASSUME PlaceInv, PlaceInv', Next, race = {}, race' = {},
         NEW t \in Session, NEW k \in 1..sent'[t], k \notin 1..sent[t]
  PROVE  Kept(<<t, k>>)'
<1>1. PICK s \in Session : Write(s)
  <2>1. sent' # sent
    OBVIOUS
  <2> QED BY <2>1 DEF Next, Step, Compress, FindLastFile, CloseFile, RotateFail, Crash,
     OpenLast, ClaimLast, FindNextIndex, RotateCreate, RotateClaim, PruneList, PruneCheck,
     PruneUnlock, PruneRemove, OpenSource, ClaimSource, OpenArchive, ClaimArchive, Copy,
     RemoveSource, ReleaseSource, logVars
<1>2. /\ file[s] \in Inode /\ dir' = dir
      /\ data' = [data EXCEPT ![file[s]] = @ \cup {<<s, sent[s] + 1>>}]
      /\ sent' = [sent EXCEPT ![s] = @ + 1]
  BY <1>1, WriteCases DEF Write, PlaceInv
<1>3. sent \in [Session -> Nat]
  BY DEF PlaceInv, Contents
<1>4. t = s /\ k = sent[s] + 1
  BY <1>2, <1>3
<1>5. dir[Log(path[s])] = file[s] /\ Log(path[s]) \in Name
  BY <1>2, Names DEF PlaceInv, Placed, LogInv, InHand
<1>6. <<t, k>> \in data'[file[s]]
  BY <1>2, <1>4 DEF PlaceInv, Contents
<1> QED BY <1>2, <1>5, <1>6, Names DEF Kept

\* An entry Write has accepted can be found, or was pruned, whatever fails, is killed or
\* interrupted, as long as none of the unguarded windows was hit.
THEOREM NoEntryLost == Spec => []EntriesKept
<1>1. Init => EntryInv
  <2>1. SUFFICES ASSUME Init PROVE EntryInv
    OBVIOUS
  <2>2. Doubled
    BY <2>1, Names DEF Init, Doubled
  <2>3. \A s \in Session : 1..sent[s] = {}
    BY <2>1 DEF Init
  <2>4. EntriesKept
    BY <2>3 DEF EntriesKept
  <2> QED BY <2>1, <2>2, <2>4, InitPlace DEF EntryInv
<1>2. ASSUME EntryInv, PlaceInv', [Next]_vars PROVE EntryInv'
  <2>1. CASE race' # {}
    BY <1>2, <2>1 DEF EntryInv, Doubled, EntriesKept
  <2>2. CASE UNCHANGED vars
    BY <1>2, <2>2 DEF vars, dirVars, logVars, histVars, EntryInv, Doubled, EntriesKept, Present
  <2>3. CASE Next /\ race' = {}
    <3>1. Doubled' /\ race = {} /\ \A e : Kept(e) => Kept(e)'
      BY <1>2, <2>3, SessionKeeps, CompressKeeps DEF Next, SessionStep, EntryInv
    <3>2. \A t \in Session : \A k \in 1..sent[t] : Kept(<<t, k>>)
      BY <1>2, <3>1, KeptIs DEF EntryInv
    <3>3. ASSUME NEW t \in Session, NEW k \in 1..sent'[t] PROVE Kept(<<t, k>>)'
      BY <1>2, <2>3, <3>1, <3>2, <3>3, NewKept DEF EntryInv
    <3>4. EntriesKept'
      BY <3>3 DEF EntriesKept, Kept, Present
    <3> QED BY <1>2, <3>1, <3>4 DEF EntryInv
  <2> QED BY <1>2, <2>1, <2>2, <2>3
<1>3. EntryInv => EntriesKept
  BY DEF EntryInv
<1> QED BY <1>1, <1>2, <1>3, PlaceInvariance, PTL DEF Spec
=============================================================================
