-------------------------------- MODULE LogView --------------------------------
(***************************************************************************)
(* `devsandbox logs' (cmd/devsandbox/logs.go): a reader of the files that  *)
(* RotatingLog writes, compresses and prunes, with no lock in common with  *)
(* them.  A viewer lists the names, once, and reads each later; a follower *)
(* looks every 100ms for the newest file and remembers how far it has read *)
(* it, in half lines: a line may be in the file in part.                   *)
(***************************************************************************)
EXTENDS RotatingLog, SequenceFilters, Sequences, Functions

CONSTANTS
  Matching,        \* the entries the filter lets through
  Limit,           \* --last
  ViewQuota        \* bound: entries each session writes while there is a reader

ASSUME ViewAssumption == Limit \in Nat

VARIABLES
  wrote,           \* the entries, in the order in which they were written
  behind,          \* history: a session has written to a file older than another
  does,            \* what the reader does: proxy, internal or follow
  at,              \* its step
  toRead,          \* names listed, not read yet
  shown,           \* entries gathered, then those printed
  listed,          \* history: the names a viewer has listed
  there,           \* history: the entries in some file when it began to list
  warned,          \* it has told that a file could not be read
  followed,        \* lastFile, as an index
  offset,          \* lastOffset
  from,            \* history: the offset from which it follows this file
  news             \* history: what it has printed of this file from there

viewVars == <<at, toRead, shown, listed, there, warned>>
followVars == <<followed, offset, from, news>>
readerVars == <<wrote, behind, does, viewVars, followVars>>

\* The lines of a file, which its writers append in turn.
Lines(i) == Sifted(wrote, data[i])
Newest(S) == {n \in S : \A m \in S \ {n} : Before(m, n)}
Actives == {n \in Present : n[2] = "log"}
Linked == UNION {data[dir[n]] : n \in Present}

ReaderTypeOK ==
  /\ Range(wrote) = UNION {{s} \X (1..sent[s]) : s \in Session}
  /\ behind \in BOOLEAN /\ does \in {"proxy", "internal", "follow"}
  /\ at \in {"idle", "actives", "archives", "read", "stat", "done", "look", "tail"}
  /\ toRead \subseteq listed /\ listed \subseteq Name
  /\ Range(shown) \subseteq Range(wrote)
  /\ followed \in Index \cup {None} /\ offset \in Nat /\ from <= offset

ReaderInit ==
  /\ wrote = <<>> /\ behind = FALSE /\ does \in {"proxy", "internal", "follow"} /\ at = "idle"
  /\ toRead = {} /\ shown = <<>> /\ listed = {} /\ there = {} /\ warned = FALSE
  /\ followed = None /\ offset = 0 /\ from = 0 /\ news = <<>>

-----------------------------------------------------------------------------
(* The writers *)

\* Bound: one session at a time; the next may start when it has closed its file.
Alone(s) == \A t \in Session \ {s} : pc[t] \in {"start", "closed", "dead"}

\* The file of a session is not the newest there is: the session before could not open
\* it, made a newer one, and that has been compressed.
Older(s) == file[s] # None /\ \E n \in Present : path[s] < n[1]

\* RotatingLog's steps; of no interest any more once the viewer has printed.
WriterSteps ==
  /\ Next /\ at # "done"
  /\ IF sent' = sent THEN UNCHANGED wrote
     ELSE \E s \in Session : sent'[s] # sent[s] /\ wrote' = Append(wrote, <<s, sent'[s]>>)
  /\ \A s \in Session : (pc'[s] # pc[s] => Alone(s)) /\ sent'[s] <= ViewQuota[s]
  /\ behind' = (behind \/ \E s \in Session : Older(s)')
  /\ UNCHANGED <<does, viewVars, followVars>>

\* A session is writing its next line to the file: some of it may be there.
MayBeTorn(i) == \E s \in Session : file[s] = i /\ pc[s] = "open" /\ sent[s] < ViewQuota[s]
Sizes(i) == {2 * Len(Lines(i))} \cup (IF MayBeTorn(i) THEN {2 * Len(Lines(i)) + 1} ELSE {})

\* An archive that is being written, or was left so by a session that was killed.
HalfMade(n) == n[2] = "gz" /\ data[dir[n]] = {}
Begun(n) ==
  LET all == IF dir[Log(n[1])] = None THEN <<>> ELSE Lines(dir[Log(n[1])])
  IN {SubSeq(all, 1, k) : k \in 0..Len(all)}

-----------------------------------------------------------------------------
(* viewProxyLogs, viewInternalLogs *)

LastOf(n, s) == SubSeq(s, Len(s) - (IF Len(s) > n THEN n ELSE Len(s)) + 1, Len(s))
Match(s) == Sifted(s, Matching)

\* Two globs: the names that are being written, then the archives.
ListActives ==
  /\ does # "follow" /\ at = "idle" /\ at' = "archives"
  /\ toRead' = Actives /\ listed' = Actives /\ there' = Linked
  /\ UNCHANGED <<shown, warned>>

ListArchives ==
  /\ at = "archives" /\ at' = "read"
  /\ toRead' = toRead \cup (Present \ Actives)
  /\ listed' = toRead'
  /\ UNCHANGED <<shown, there, warned>>

\* The next file to read: the newest for the proxy's log, the oldest for the internal.
NextFile == IF does = "proxy" THEN Newest(toRead) ELSE Oldest(toRead)

\* viewProxyLogs: the newest file first, until there is enough.  An archive that stops
\* short yields the lines up to there (isBenignArchiveEnd).
ReadProxyFile(n) ==
  \E got \in IF HalfMade(n) THEN Begun(n) ELSE {Lines(dir[n])} :
    shown' = LastOf(Limit, got \o shown) /\ UNCHANGED warned

\* readProxyInternalLogs: all of them, filtered line by line.  Of an archive that stops
\* short nothing is taken, and there is a warning, unless it is empty yet.
ReadInternalFile(n) ==
  IF HalfMade(n) THEN warned' \in {TRUE, warned} /\ UNCHANGED shown
  ELSE shown' = shown \o Match(Lines(dir[n])) /\ UNCHANGED warned

Enough == does = "proxy" /\ Len(shown) >= Limit

ReadNext ==
  /\ at = "read" /\ ~Enough
  /\ \E n \in NextFile :
       /\ toRead' = toRead \ {n}
       /\ \/ dir[n] = None /\ warned' = TRUE /\ UNCHANGED shown
          \/ dir[n] # None /\ does = "proxy" /\ ReadProxyFile(n)
          \/ dir[n] # None /\ does = "internal" /\ ReadInternalFile(n)
  /\ UNCHANGED <<at, listed, there>>

\* The proxy's log is filtered only now; the internal one is cut to --last.
PrintEntries ==
  /\ at = "read" /\ (toRead = {} \/ Enough)
  /\ at' = "done" /\ toRead' = {}
  /\ shown' = IF does = "proxy" THEN Match(shown) ELSE LastOf(Limit, shown)
  /\ UNCHANGED <<listed, there, warned>>

-----------------------------------------------------------------------------
(* followProxyLogs *)

\* findCurrentFile
Current == IF Actives = {} THEN None ELSE (CHOOSE n \in Newest(Actives) : TRUE)[1]

\* The last entries of the newest file.
ShowRecent ==
  /\ does = "follow" /\ at = "idle" /\ at' = "stat"
  /\ followed' = Current
  /\ shown' = IF Current = None THEN <<>> ELSE Match(LastOf(Limit, Lines(dir[Log(Current)])))
  /\ UNCHANGED <<toRead, listed, there, warned, offset, from, news>>

\* Following starts where the file ends by then; a file that is gone is not followed.
StatRecent ==
  /\ at = "stat" /\ at' = "look"
  /\ IF followed = None \/ dir[Log(followed)] = None
     THEN followed' = None /\ UNCHANGED <<offset, from>>
     ELSE /\ \E size \in Sizes(dir[Log(followed)]) : offset' = size /\ from' = size
          /\ UNCHANGED followed
  /\ UNCHANGED <<toRead, shown, listed, there, warned, news>>

\* A tick: another file is read from its start.
LookForFile ==
  /\ at = "look" /\ Current # None /\ at' = "tail"
  /\ followed' = Current
  /\ IF Current = followed THEN UNCHANGED <<offset, from, news>>
     ELSE offset' = 0 /\ from' = 0 /\ news' = <<>>
  /\ UNCHANGED <<toRead, shown, listed, there, warned>>

\* Mutant: all that is there counts as read, as in tailFile.
Consumed_All(i, size) == size
\* Only whole lines are taken; the rest is read again.
Consumed(i, size) == 2 * Len(Lines(i))

\* tailProxyLogFile.  What begins within a line is no entry, and is skipped.
TailFile ==
  /\ at = "tail" /\ at' = "look"
  /\ IF dir[Log(followed)] = None THEN UNCHANGED <<offset, news>>
     ELSE LET i == dir[Log(followed)]
          IN \E size \in Sizes(i) :
               IF size <= offset THEN UNCHANGED <<offset, news>>
               ELSE /\ offset' = IF Consumed(i, size) > offset THEN Consumed(i, size) ELSE offset
                    /\ news' = news \o SubSeq(Lines(i), (offset + 1) \div 2 + 1, Len(Lines(i)))
  /\ UNCHANGED <<toRead, shown, listed, there, warned, followed, from>>

ReaderSteps ==
  /\ \/ (ListActives \/ ListArchives \/ ReadNext \/ PrintEntries) /\ UNCHANGED followVars
     \/ ShowRecent \/ StatRecent \/ LookForFile \/ TailFile
  /\ UNCHANGED <<vars, wrote, behind, does>>

ReaderNext == WriterSteps \/ ReaderSteps
ReaderSpec == Init /\ ReaderInit /\ [][ReaderNext]_<<vars, readerVars>>

-----------------------------------------------------------------------------
(* Properties *)

Precedes(d, e) == \E m, n \in 1..Len(wrote) : m < n /\ wrote[m] = d /\ wrote[n] = e

\* Both names of an index were there: it was being compressed, or a session was killed
\* while it did so.
ListedTwice == \E i \in Index : {Log(i), Archive(i)} \subseteq listed

\* A viewer that has not warned of a file prints the entries in the order in which they
\* were written, none twice, and leaves out none, from the first it prints on, that was
\* in a file when it began and has not been pruned - but for files it found in the
\* middle of their compression, and unless a session went on with an older file.  A
\* follower has printed, of the file it follows, exactly the lines that were completed
\* since it began to, whatever halves of lines it has met.
LogsAsWritten ==
  /\ (at = "done" /\ ~warned /\ ~ListedTwice /\ ~behind) =>
       /\ \A m, n \in 1..Len(shown) : m < n => Precedes(shown[m], shown[n])
       /\ \A e \in (there \cap Matching) \ (dropped \cup Range(shown)) :
            shown = <<>> \/ Precedes(e, shown[1])
  /\ (does = "follow" /\ followed # None) =>
       dir[Log(followed)] = None \/
         news = SubSeq(Lines(dir[Log(followed)]), (from + 1) \div 2 + 1, offset \div 2)

\* "Sort files by name (chronological order)" (cmd/devsandbox/logs.go): what is under an
\* index was written before what is under a later one.  It does not hold: a session that
\* could not open the newest file leaves a newer one, and when that has been compressed
\* the next session appends to the older.
NamesInOrder ==
  \A m, n \in Present : m[1] < n[1] =>
    \A d \in data[dir[m]], e \in data[dir[n]] : Precedes(d, e)
=============================================================================
