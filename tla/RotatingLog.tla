---------------------------- MODULE RotatingLog ----------------------------
(***************************************************************************)
(* RotatingFileWriter (internal/proxy/filewriter.go): the log writers of   *)
(* the sessions of one project, which share a directory.                   *)
(*                                                                         *)
(* Every session appends to a file of its own, held with an flock claim.   *)
(* At MaxSize it moves on to a new index and a goroutine compresses the    *)
(* old file; at every rotation, and at Close, the oldest names above       *)
(* MaxFiles are removed.  A file is an inode: a name can be unlinked, and  *)
(* made again, under a writer that has the old inode open.                 *)
(*                                                                         *)
(* One writer of a session is modelled (proxy or requests log: the two     *)
(* have different prefixes and never meet), on one day.                    *)
(***************************************************************************)
EXTENDS Naturals, FiniteSets

CONSTANTS
  Session,           \* sessions, each with a writer
  None,              \* no file
  MaxSize,           \* MaxSize, in entries
  MaxFiles,
  Mortal,            \* sessions that may be killed
  Starved,           \* sessions short of descriptors or of disk space
  MaxRotateAttempts, \* maxRotateAttempts, 100 in the source
  MaxIndex,          \* bound: indices 0..MaxIndex
  Copies,            \* bound: files made under one name and in use at once
  Quota              \* bound: entries each session writes

Index == 0..MaxIndex
Name == Index \X {"log", "gz"}

\* A file, told apart by the name it was created under and a number.
Inode == Name \X (1..Copies)
Entry == UNION {{s} \X (1..Quota[s]) : s \in Session}
Job == Session \X Index
Free == <<"free">>
Holder == Session \X {"writer", "probe", "source", "archive"} \X (Index \cup {None})
Writer(s) == <<s, "writer", None>>
Probe(s) == <<s, "probe", None>>
Source(j) == <<j[1], "source", j[2]>>
Destination(j) == <<j[1], "archive", j[2]>>

ASSUME LogAssumption ==
  /\ None \notin Inode \cup Index
  /\ Mortal \subseteq Session
  /\ Starved \subseteq Session
  /\ MaxSize \in Nat \ {0}
  /\ MaxFiles \in Nat \ {0}
  /\ MaxRotateAttempts \in Nat \ {0}
  /\ MaxIndex \in Nat
  /\ Copies \in Nat \ {0}
  /\ Quota \in [Session -> Nat]

VARIABLES
  dir,      \* what each name is linked to
  data,     \* the entries in each inode
  claim,    \* the flock on each inode
  pc,       \* where the session is, w.mu held except in "open" and "waiting"
  file,     \* w.file
  path,     \* the index in w.currentPath, None while it is empty
  written,  \* w.written
  fd,       \* an inode opened and not yet claimed, or probed
  index,    \* the index being tried
  attempt,
  matches,  \* what a prune has still to remove
  closing,  \* Close was called
  sent,     \* entries accepted by Write
  jpc,      \* where each compression is: w.compressing is its domain
  jsrc, jdst,
  dropped,  \* history: entries removed by pruning
  race      \* history: which of the unguarded windows was hit

dirVars == <<dir, data, claim>>
logVars == <<file, path, written, sent>>
tryVars == <<fd, index, attempt, matches, closing>>
jobVars == <<jpc, jsrc, jdst>>
histVars == <<dropped, race>>
vars == <<dirVars, pc, logVars, tryVars, jobVars, histVars>>

SessionPC == {"start", "open", "opOpen", "opClaim", "rotIndex", "rotCreate",
              "rotClaim", "prList", "prCheck", "prUnlock", "prRemove",
              "broken", "waiting", "closed", "dead"}
JobPC == {"none", "openSrc", "claimSrc", "openDst", "claimDst", "copy",
          "unlink", "release"}
MaybeInode == Inode \cup {None}

TypeOK ==
  /\ dir \in [Name -> MaybeInode]
  /\ data \in [Inode -> SUBSET Entry]
  /\ claim \in [Inode -> Holder \cup {Free}]
  /\ pc \in [Session -> SessionPC]
  /\ file \in [Session -> MaybeInode]
  /\ path \in [Session -> Index \cup {None}]
  /\ written \in [Session -> 0..(MaxSize - 1)]
  /\ fd \in [Session -> MaybeInode]
  /\ index \in [Session -> Nat]
  /\ attempt \in [Session -> 0..MaxRotateAttempts]
  /\ matches \in [Session -> SUBSET Name]
  /\ closing \in [Session -> BOOLEAN]
  /\ sent \in [Session -> Nat]
  /\ \A s \in Session : sent[s] <= Quota[s]
  /\ jpc \in [Job -> JobPC]
  /\ jsrc \in [Job -> MaybeInode]
  /\ jdst \in [Job -> MaybeInode]
  /\ dropped \subseteq Entry
  /\ race \subseteq {"pruned", "stale", "reused"}

Init ==
  /\ dir = [n \in Name |-> None]
  /\ data = [i \in Inode |-> {}]
  /\ claim = [i \in Inode |-> Free]
  /\ pc = [s \in Session |-> "start"]
  /\ file = [s \in Session |-> None]
  /\ path = [s \in Session |-> None]
  /\ written = [s \in Session |-> 0]
  /\ fd = [s \in Session |-> None]
  /\ index = [s \in Session |-> 0]
  /\ attempt = [s \in Session |-> 0]
  /\ matches = [s \in Session |-> {}]
  /\ closing = [s \in Session |-> FALSE]
  /\ sent = [s \in Session |-> 0]
  /\ jpc = [j \in Job |-> "none"]
  /\ jsrc = [j \in Job |-> None]
  /\ jdst = [j \in Job |-> None]
  /\ dropped = {}
  /\ race = {}

-----------------------------------------------------------------------------
(* Files *)

Log(i) == <<i, "log">>
Archive(i) == <<i, "gz">>

Present == {n \in Name : dir[n] # None}

\* Name order: date, zero-padded index, then ".log" before ".log.gz".
Before(m, n) == m[1] < n[1] \/ (m[1] = n[1] /\ m[2] = "log" /\ n[2] = "gz")
Oldest(S) == {n \in S : \A m \in S \ {n} : Before(n, m)}

\* The files that are linked or open; the others can be handed out again.
InUse ==
  {dir[n] : n \in Name} \cup {file[s] : s \in Session} \cup {fd[s] : s \in Session}
    \cup {jsrc[j] : j \in Job} \cup {jdst[j] : j \in Job}
Spare(n) == ({n} \X (1..Copies)) \ InUse
NewInode(n) == CHOOSE i \in Spare(n) : TRUE

\* claimFile: LOCK_EX|LOCK_NB on the inode.
Claimed_Unchecked(i) == FALSE
Claimed(i) == claim[i] # Free

Full_OffByOne(n) == n > MaxSize
Full(n) == n >= MaxSize

CompressionOwns(s, n) == n[1] \in Index /\ jpc[<<s, n[1]>>] # "none"

Goto(s, there) == pc' = [pc EXCEPT ![s] = there]
JobGoto(j, there) == jpc' = [jpc EXCEPT ![j] = there]

-----------------------------------------------------------------------------
(* NewRotatingFileWriter, openOrRotate *)

\* findLastFile: the newest uncompressed name, if it is under the size limit.
FindLastFile(s) ==
  /\ pc[s] = "start"
  /\ LET logs == {i \in Index : dir[Log(i)] # None}
         last == {i \in logs : \A k \in logs : k <= i}
         size(i) == Cardinality(data[dir[Log(i)]])
     IN  \/ \E i \in last :
              /\ ~Full(size(i))
              /\ index' = [index EXCEPT ![s] = i]
              /\ written' = [written EXCEPT ![s] = size(i)]
              /\ Goto(s, "opOpen")
         \/ /\ \A i \in last : Full(size(i))
            /\ Goto(s, "rotIndex")
            /\ UNCHANGED <<index, written>>
  /\ UNCHANGED <<dirVars, file, path, sent, fd, attempt, matches, closing,
                 jobVars, histVars>>

\* A file that cannot be opened sends the writer to a new one.
OpenLast(s) ==
  /\ pc[s] = "opOpen"
  /\ \/ /\ dir[Log(index[s])] # None
        /\ fd' = [fd EXCEPT ![s] = dir[Log(index[s])]]
        /\ Goto(s, "opClaim")
     \/ /\ dir[Log(index[s])] = None \/ s \in Starved
        /\ Goto(s, "rotIndex")
        /\ UNCHANGED fd
  /\ UNCHANGED <<dirVars, logVars, index, attempt, matches, closing, jobVars,
                 histVars>>

\* The claim is on the inode that was opened; nothing checks that it is still
\* linked, or that its size is still the one read above.
ClaimLast(s) ==
  /\ pc[s] = "opClaim"
  /\ IF Claimed(fd[s])
     THEN Goto(s, "rotIndex") /\ UNCHANGED <<claim, file, path, race>>
     ELSE /\ claim' = [claim EXCEPT ![fd[s]] = Writer(s)]
          /\ file' = [file EXCEPT ![s] = fd[s]]
          /\ path' = [path EXCEPT ![s] = index[s]]
          /\ race' = IF dir[Log(index[s])] = fd[s] THEN race
                     ELSE race \cup {"stale"}
          /\ Goto(s, "open")
  /\ fd' = [fd EXCEPT ![s] = None]
  /\ index' = [index EXCEPT ![s] = 0]
  /\ UNCHANGED <<dir, data, written, sent, attempt, matches, closing, jobVars,
                 dropped>>

-----------------------------------------------------------------------------
(* Write *)

\* Rotation closes the file it leaves and hands its claim to the compressor on
\* a duplicate descriptor; when that cannot be had, the claim is dropped and
\* the compressor reopens the path.
StartCompression(s, dup) ==
  LET j == <<s, path[s]>> IN
  /\ jpc' = [jpc EXCEPT ![j] = IF dup THEN "openDst" ELSE "openSrc"]
  /\ jsrc' = [jsrc EXCEPT ![j] = IF dup THEN file[s] ELSE None]
  /\ UNCHANGED jdst
  /\ claim' = [claim EXCEPT ![file[s]] =
                 IF dup THEN Source(j) ELSE Free]

Write(s) ==
  /\ pc[s] = "open"
  /\ sent[s] < Quota[s]
  /\ sent' = [sent EXCEPT ![s] = @ + 1]
  /\ data' = [data EXCEPT ![file[s]] = @ \cup {<<s, sent[s] + 1>>}]
  /\ IF Full(written[s] + 1)
     THEN /\ \E dup \in BOOLEAN :
               (dup \/ s \in Starved) /\ StartCompression(s, dup)
          /\ file' = [file EXCEPT ![s] = None]
          /\ written' = [written EXCEPT ![s] = 0]
          /\ Goto(s, "rotIndex")
     ELSE /\ written' = [written EXCEPT ![s] = @ + 1]
          /\ UNCHANGED <<pc, claim, file, jobVars>>
  /\ UNCHANGED <<dir, path, tryVars, histVars>>

-----------------------------------------------------------------------------
(* rotate, after the old file is closed *)

FindNextIndex(s) ==
  /\ pc[s] = "rotIndex"
  /\ \E next \in 0..(MaxIndex + 1) :
       /\ \A n \in Present : n[1] < next
       /\ next = 0 \/ \E n \in Present : n[1] + 1 = next
       /\ index' = [index EXCEPT ![s] = next]
  /\ attempt' = [attempt EXCEPT ![s] = 0]
  /\ Goto(s, "rotCreate")
  /\ UNCHANGED <<dirVars, logVars, fd, matches, closing, jobVars, histVars>>

\* This candidate is taken; try the next one.
NextIndex(s) ==
  /\ index' = [index EXCEPT ![s] = @ + 1]
  /\ attempt' = [attempt EXCEPT ![s] = @ + 1]
  /\ Goto(s, "rotCreate")

\* O_CREATE|O_EXCL on the log name, if no own compression is using the index.
RotateCreate(s) ==
  /\ pc[s] = "rotCreate"
  /\ attempt[s] < MaxRotateAttempts
  /\ index[s] <= MaxIndex
  /\ IF CompressionOwns(s, Log(index[s])) \/ dir[Log(index[s])] # None
     THEN NextIndex(s) /\ UNCHANGED <<dir, data, fd, race>>
     ELSE /\ Spare(Log(index[s])) # {}
          /\ dir' = [dir EXCEPT ![Log(index[s])] = NewInode(Log(index[s]))]
          /\ data' = [data EXCEPT ![NewInode(Log(index[s]))] = {}]
          /\ fd' = [fd EXCEPT ![s] = NewInode(Log(index[s]))]
          /\ race' = IF dir[Archive(index[s])] = None THEN race
                     ELSE race \cup {"reused"}
          /\ Goto(s, "rotClaim")
          /\ UNCHANGED <<index, attempt>>
  /\ UNCHANGED <<claim, logVars, matches, closing, jobVars, dropped>>

\* No free index, or the file cannot be created: the session has no writer, or,
\* if it had one, the writer has no file and every Write from now on fails.
RotateFail(s) ==
  /\ pc[s] = "rotCreate"
  /\ s \in Starved \/ attempt[s] >= MaxRotateAttempts
  /\ Goto(s, IF path[s] = None THEN "closed" ELSE "broken")
  /\ index' = [index EXCEPT ![s] = 0]
  /\ attempt' = [attempt EXCEPT ![s] = 0]
  /\ UNCHANGED <<dirVars, logVars, fd, matches, closing, jobVars, histVars>>

RotateClaim(s) ==
  /\ pc[s] = "rotClaim"
  /\ IF Claimed(fd[s])
     THEN NextIndex(s) /\ UNCHANGED <<claim, file, path, written, race>>
     ELSE /\ claim' = [claim EXCEPT ![fd[s]] = Writer(s)]
          /\ file' = [file EXCEPT ![s] = fd[s]]
          /\ path' = [path EXCEPT ![s] = index[s]]
          /\ written' = [written EXCEPT ![s] = 0]
          /\ race' = IF dir[Log(index[s])] = fd[s] THEN race
                     ELSE race \cup {"stale"}
          /\ Goto(s, "prList")
          /\ index' = [index EXCEPT ![s] = 0]
          /\ attempt' = [attempt EXCEPT ![s] = 0]
  /\ fd' = [fd EXCEPT ![s] = None]
  /\ UNCHANGED <<dir, data, sent, matches, closing, jobVars, dropped>>

-----------------------------------------------------------------------------
(* pruneOldFiles, from rotate or from Close *)

Pruned(s) == Goto(s, IF closing[s] THEN "closed" ELSE "open")

\* Glob and sort: the oldest names above the cap.  From Close, after
\* compressWG.Wait.
PruneList(s) ==
  /\ \/ pc[s] = "prList"
     \/ pc[s] = "waiting" /\ \A i \in Index : jpc[<<s, i>>] = "none"
  /\ LET old == {n \in Present : Cardinality({m \in Present : Before(m, n)})
                                   + MaxFiles < Cardinality(Present)}
     IN  /\ matches' = [matches EXCEPT ![s] = old]
         /\ IF old = {} THEN Pruned(s) ELSE Goto(s, "prCheck")
  /\ UNCHANGED <<dirVars, logVars, fd, index, attempt, closing, jobVars,
                 histVars>>

\* compressionOwns, then claimedByAnotherWriter: lock it and let it go.  A name
\* that cannot be opened, as when it is gone, counts as free.
PruneCheck(s) ==
  /\ pc[s] = "prCheck"
  /\ \E n \in Oldest(matches[s]) :
       LET own == CompressionOwns(s, n)
           held == dir[n] # None /\ Claimed(dir[n])
       IN
       \/ /\ own \/ held
          /\ matches' = [matches EXCEPT ![s] = {}]
          /\ Pruned(s)
          /\ UNCHANGED <<claim, fd>>
       \/ /\ ~own /\ (dir[n] = None \/ s \in Starved)
          /\ Goto(s, "prRemove")
          /\ UNCHANGED <<claim, fd, matches>>
       \/ /\ ~own /\ ~held /\ dir[n] # None
          /\ fd' = [fd EXCEPT ![s] = dir[n]]
          /\ claim' = [claim EXCEPT ![dir[n]] = Probe(s)]
          /\ Goto(s, "prUnlock")
          /\ UNCHANGED matches
  /\ UNCHANGED <<dir, data, logVars, index, attempt, closing, jobVars,
                 histVars>>

PruneUnlock(s) ==
  /\ pc[s] = "prUnlock"
  /\ claim' = [claim EXCEPT ![fd[s]] = Free]
  /\ fd' = [fd EXCEPT ![s] = None]
  /\ Goto(s, "prRemove")
  /\ UNCHANGED <<dir, data, logVars, index, attempt, matches, closing, jobVars,
                 histVars>>

\* os.Remove, of whatever has the name now.
PruneRemove(s) ==
  /\ pc[s] = "prRemove"
  /\ \E n \in Oldest(matches[s]) :
       /\ dir' = [dir EXCEPT ![n] = None]
       /\ IF dir[n] = None
          THEN UNCHANGED histVars
          ELSE /\ dropped' = dropped \cup data[dir[n]]
               /\ race' = IF Claimed(dir[n]) THEN race \cup {"pruned"} ELSE race
       /\ matches' = [matches EXCEPT ![s] = @ \ {n}]
       /\ IF matches[s] = {n} THEN Pruned(s) ELSE Goto(s, "prCheck")
  /\ UNCHANGED <<data, claim, logVars, fd, index, attempt, closing, jobVars>>

-----------------------------------------------------------------------------
(* Close *)

CloseFile(s) ==
  /\ pc[s] \in {"open", "broken"}
  /\ claim' = IF file[s] = None THEN claim
              ELSE [claim EXCEPT ![file[s]] = Free]
  /\ file' = [file EXCEPT ![s] = None]
  /\ closing' = [closing EXCEPT ![s] = TRUE]
  /\ Goto(s, "waiting")
  /\ UNCHANGED <<dir, data, path, written, sent, fd, index, attempt, matches,
                 jobVars, histVars>>

-----------------------------------------------------------------------------
(* compressFile, in a goroutine of its own *)

\* The goroutine ends: src.Close, then the entry of w.compressing is deleted.
EndJob(j) ==
  /\ jpc' = [jpc EXCEPT ![j] = "none"]
  /\ jsrc' = [jsrc EXCEPT ![j] = None]
  /\ jdst' = [jdst EXCEPT ![j] = None]

OpenSource(j) ==
  /\ jpc[j] = "openSrc"
  /\ \/ (dir[Log(j[2])] = None \/ j[1] \in Starved) /\ EndJob(j)
     \/ /\ dir[Log(j[2])] # None
        /\ jsrc' = [jsrc EXCEPT ![j] = dir[Log(j[2])]]
        /\ JobGoto(j, "claimSrc")
        /\ UNCHANGED jdst
  /\ UNCHANGED <<dirVars, pc, logVars, tryVars, histVars>>

ClaimSource(j) ==
  /\ jpc[j] = "claimSrc"
  /\ IF Claimed(jsrc[j])
     THEN EndJob(j) /\ UNCHANGED <<claim, race>>
     ELSE /\ claim' = [claim EXCEPT ![jsrc[j]] = Source(j)]
          /\ race' = IF dir[Log(j[2])] = jsrc[j] THEN race
                     ELSE race \cup {"stale"}
          /\ JobGoto(j, "openDst")
          /\ UNCHANGED <<jsrc, jdst>>
  /\ UNCHANGED <<dir, data, pc, logVars, tryVars, dropped>>

\* The compression is given up and the source stays.
LeaveSource(j) ==
  /\ claim' = [claim EXCEPT ![jsrc[j]] = Free]
  /\ EndJob(j)

\* Opened without O_TRUNC.
OpenArchive(j) ==
  /\ jpc[j] = "openDst"
  /\ LET n == Archive(j[2])
         dst == IF dir[n] = None THEN NewInode(n) ELSE dir[n]
     IN  \/ /\ dir[n] # None \/ Spare(n) # {}
            /\ dir' = [dir EXCEPT ![n] = dst]
            /\ data' = IF dir[n] = None THEN [data EXCEPT ![dst] = {}] ELSE data
            /\ jdst' = [jdst EXCEPT ![j] = dst]
            /\ JobGoto(j, "claimDst")
            /\ UNCHANGED <<claim, jsrc>>
         \/ j[1] \in Starved /\ LeaveSource(j) /\ UNCHANGED <<dir, data>>
  /\ UNCHANGED <<pc, logVars, tryVars, histVars>>

ClaimArchive(j) ==
  /\ jpc[j] = "claimDst"
  /\ IF Claimed(jdst[j])
     THEN LeaveSource(j) /\ UNCHANGED <<data, race>>
     ELSE /\ claim' = [claim EXCEPT ![jdst[j]] = Destination(j)]
          /\ data' = [data EXCEPT ![jdst[j]] = {}]
          /\ race' = IF dir[Archive(j[2])] = jdst[j] THEN race
                     ELSE race \cup {"stale"}
          /\ JobGoto(j, "copy")
          /\ UNCHANGED <<jsrc, jdst>>
  /\ UNCHANGED <<dir, pc, logVars, tryVars, dropped>>

\* io.Copy and the two Closes.
CopyDone(j) ==
  /\ data' = [data EXCEPT ![jdst[j]] = data[jsrc[j]]]
  /\ claim' = [claim EXCEPT ![jdst[j]] = Free]
  /\ JobGoto(j, "unlink")
  /\ jdst' = [jdst EXCEPT ![j] = None]
  /\ UNCHANGED <<dir, jsrc>>

\* An error in any of them: the archive is removed, the source stays.
CopyFailed_BothRemoved(j) ==
  /\ dir' = [dir EXCEPT ![Archive(j[2])] = None, ![Log(j[2])] = None]
  /\ claim' = [claim EXCEPT ![jdst[j]] = Free, ![jsrc[j]] = Free]
  /\ EndJob(j)
  /\ UNCHANGED data
CopyFailed_Ignored(j) ==
  /\ claim' = [claim EXCEPT ![jdst[j]] = Free]
  /\ JobGoto(j, "unlink")
  /\ jdst' = [jdst EXCEPT ![j] = None]
  /\ UNCHANGED <<dir, data, jsrc>>
CopyFailed(j) ==
  /\ dir' = [dir EXCEPT ![Archive(j[2])] = None]
  /\ claim' = [claim EXCEPT ![jdst[j]] = Free, ![jsrc[j]] = Free]
  /\ EndJob(j)
  /\ UNCHANGED data

Copy(j) ==
  /\ jpc[j] = "copy"
  /\ CopyDone(j) \/ CopyFailed(j)
  /\ UNCHANGED <<pc, logVars, tryVars, histVars>>

\* os.Remove(srcPath)
RemoveSource(j) ==
  /\ jpc[j] = "unlink"
  /\ dir' = [dir EXCEPT ![Log(j[2])] = None]
  /\ JobGoto(j, "release")
  /\ UNCHANGED <<data, claim, pc, logVars, tryVars, jsrc, jdst, histVars>>

ReleaseSource(j) ==
  /\ jpc[j] = "release"
  /\ claim' = [claim EXCEPT ![jsrc[j]] = Free]
  /\ EndJob(j)
  /\ UNCHANGED <<dir, data, pc, logVars, tryVars, histVars>>

-----------------------------------------------------------------------------
(* A session is killed: its claims go, its files and half-made archives stay *)

Crash(s) ==
  /\ s \in Mortal
  /\ pc[s] \notin {"start", "closed", "dead"}
  /\ Goto(s, "dead")
  /\ claim' = [i \in Inode |->
                 IF claim[i] # Free /\ claim[i][1] = s THEN Free ELSE claim[i]]
  /\ file' = [file EXCEPT ![s] = None]
  /\ fd' = [fd EXCEPT ![s] = None]
  /\ index' = [index EXCEPT ![s] = 0]
  /\ attempt' = [attempt EXCEPT ![s] = 0]
  /\ matches' = [matches EXCEPT ![s] = {}]
  /\ written' = [written EXCEPT ![s] = 0]
  /\ jpc' = [j \in Job |-> IF j[1] = s THEN "none" ELSE jpc[j]]
  /\ jsrc' = [j \in Job |-> IF j[1] = s THEN None ELSE jsrc[j]]
  /\ jdst' = [j \in Job |-> IF j[1] = s THEN None ELSE jdst[j]]
  /\ UNCHANGED <<dir, data, path, sent, closing, histVars>>

-----------------------------------------------------------------------------

\* What a session does by itself.
Step(s) ==
  \/ OpenLast(s) \/ ClaimLast(s)
  \/ FindNextIndex(s) \/ RotateCreate(s) \/ RotateClaim(s)
  \/ PruneList(s) \/ PruneCheck(s) \/ PruneUnlock(s) \/ PruneRemove(s)

Compress(j) ==
  \/ OpenSource(j) \/ ClaimSource(j) \/ OpenArchive(j) \/ ClaimArchive(j)
  \/ Copy(j) \/ RemoveSource(j) \/ ReleaseSource(j)

Next ==
  \/ \E s \in Session :
       \/ FindLastFile(s) \/ Write(s) \/ CloseFile(s) \/ Step(s)
       \/ RotateFail(s) \/ Crash(s)
  \/ \E j \in Job : Compress(j)

Spec == Init /\ [][Next]_vars

-----------------------------------------------------------------------------
(* Properties *)

\* "Concurrent sessions for the same project each write their own file rather
\* than sharing one" (docs/proxy.md), however they start, rotate and crash: and
\* no compression reads a file that is still being appended to.
WritersApart ==
  \A s \in Session : file[s] # None =>
    /\ \A t \in Session \ {s} : file[t] # file[s]
    /\ \A j \in Job : jpc[j] \notin {"none", "claimSrc"} => jsrc[j] # file[s]

\* Every accepted entry is in a file or an archive that still has a name, or
\* was pruned - unless one of the unguarded windows between looking at a name
\* and claiming or removing it was hit.
EntriesKept ==
  race = {} =>
    \A s \in Session : \A k \in 1..sent[s] :
      \/ <<s, k>> \in dropped
      \/ \E n \in Present : <<s, k>> \in data[dir[n]]

\* A source goes only when what it holds is in the archive at its name, or was
\* in it and has been pruned: a compression that is interrupted, or loses a
\* claim, leaves the source.
ArchiveBeforeUnlink ==
  [][\A j \in Job :
       (jpc[j] = "unlink" /\ jpc'[j] = "release" /\ race = {}) =>
         /\ dir[Log(j[2])] = jsrc[j]
         /\ data[jsrc[j]] \subseteq dropped \cup
              (IF dir[Archive(j[2])] = None THEN {}
               ELSE data[dir[Archive(j[2])]])]_vars

\* "A pruned name is not reused", "the index keeps counting up for the rest of
\* the day" (docs/proxy.md): a new log file has an index no archive has.
IndexNotReused ==
  [][\A i \in Index : (dir[Log(i)] = None /\ dir'[Log(i)] # None)
       => dir[Archive(i)] = None]_vars
=============================================================================
