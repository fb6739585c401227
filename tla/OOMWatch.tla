------------------------------- MODULE OOMWatch -------------------------------
(***************************************************************************)
(* The watch for OOM kills beside a sandbox (internal/isolator/oom.go,     *)
(* internal/cgroups/oom.go, oom_linux.go) and the record it leaves in the  *)
(* sandbox's metadata (internal/sandbox/metadata.go), which every session  *)
(* of the sandbox loads, changes and saves without a lock.  Per session:   *)
(* the launch itself, the goroutine that attaches the watch, and the one   *)
(* that reads memory.events when inotify says it changed.                  *)
(***************************************************************************)
EXTENDS Integers

CONSTANTS
  Watched,       \* sessions of one sandbox
  KillLimit,     \* KillLimit[s]: how many kills s may suffer: a bound; a session
                 \* that may suffer none is there to write the metadata
  NoRecord       \* what stands for no OOM record

VARIABLES
  limited,       \* the session has limits, or is a container: it can be watched
  reused,        \* its cgroup served an earlier session: CgroupReused
  oomAt,         \* the launch: where it is
  tally,         \* oom_kill in memory.events of the session's cgroup
  tallyBefore,   \* what tally was when the session began
  cgroup,        \* the cgroup is there
  ending,        \* how the workload ended
  attach,        \* the attach goroutine: where it is
  initial,       \* the count WatchOOM read first
  watcherAt,     \* the watching goroutine: where it is
  unread,        \* inotify has something to read
  closed,        \* Stop has closed the handle
  current,       \* the count the watcher read last
  seen,          \* the watcher's stats
  record,           \* the record each of the two goroutines has loaded
  lastOOM,       \* the record in the metadata
  verdict,       \* what finish reported
  disturbed      \* another session has written the metadata meanwhile

oomVars == <<limited, reused, oomAt, tally, tallyBefore, cgroup, ending, attach, initial,
             watcherAt, unread, closed, current, seen, record, lastOOM, verdict,
             disturbed>>
launchVars == <<limited, reused, tallyBefore>>
kernelVars == <<tally, cgroup, ending>>
watcherVars == <<watcherAt, current, seen>>

Kill(kills, fatal) == [kills |-> kills, fatal |-> fatal]
KillRecords == [kills : UNION {1..KillLimit[s] : s \in Watched}, fatal : BOOLEAN]

OOMTypeOK ==
  /\ oomAt \in [Watched -> {"reset", "resetSave", "start", "running", "cancelled",
                            "stopping", "report", "record", "over"}]
  /\ attach \in [Watched -> {"none", "resolve", "read", "watch", "attached", "failed"}]
  /\ watcherAt \in [Watched -> {"none", "report", "load", "save", "wait", "done"}]
  /\ ending \in [Watched -> {"alive", "clean", "propagated", "direct"}]
  /\ lastOOM \in KillRecords \cup {NoRecord}
  /\ verdict \in [Watched -> {"none", "nothing", "survived", "fatal", "unattributable"}]
  /\ \A s \in Watched : {tally[s] - tallyBefore[s], seen[s]} \subseteq 0..KillLimit[s]

OOMInit ==
  /\ limited \in [Watched -> BOOLEAN]
  /\ reused \in [Watched -> BOOLEAN]
  /\ \A s \in Watched : (reused[s] => limited[s]) /\ (limited[s] => KillLimit[s] > 0)
  /\ tallyBefore \in [Watched -> 0..1]
  /\ \A s \in Watched : tallyBefore[s] > 0 => reused[s]
  /\ tally = tallyBefore
  /\ oomAt = [s \in Watched |-> "reset"]
  /\ cgroup = [s \in Watched |-> TRUE]
  /\ ending = [s \in Watched |-> "alive"]
  /\ attach = [s \in Watched |-> "none"]
  /\ initial = [s \in Watched |-> 0]
  /\ watcherAt = [s \in Watched |-> "none"]
  /\ unread = [s \in Watched |-> FALSE] /\ closed = [s \in Watched |-> FALSE]
  /\ current = [s \in Watched |-> 0] /\ seen = [s \in Watched |-> 0]
  /\ record = [s \in Watched |-> [finish |-> NoRecord, watch |-> NoRecord]]
  /\ lastOOM = NoRecord
  /\ verdict = [s \in Watched |-> "none"]
  /\ disturbed = [s \in Watched |-> FALSE]

Goes(f, s, value) == f' = [f EXCEPT ![s] = value]

\* SaveMetadata, by session s.
SaveRecord(s, r) ==
  /\ lastOOM' = r
  /\ disturbed' = [t \in Watched |-> disturbed[t] \/ t # s]

\* RecordOOM: a fatal record stays fatal.
Recorded(loaded, kills, fatal) ==
  Kill(kills, fatal \/ (loaded # NoRecord /\ loaded.fatal))

-----------------------------------------------------------------------------
(* The launch *)

\* EnsureSandboxDirs loads the metadata and saves it without the record.
ResetLoad(s) ==
  /\ oomAt[s] = "reset" /\ Goes(oomAt, s, "resetSave")
  /\ Goes(disturbed, s, FALSE)
  /\ UNCHANGED <<launchVars, kernelVars, watcherVars, attach, initial, unread, closed,
                 record, lastOOM, verdict>>

ResetSave(s) ==
  /\ oomAt[s] = "resetSave" /\ Goes(oomAt, s, "start")
  /\ SaveRecord(s, NoRecord)
  /\ UNCHANGED <<launchVars, kernelVars, watcherVars, attach, initial, unread, closed,
                 record, verdict>>

\* startOOMMonitor: without limits there is nothing to attach to.
StartMonitor(s) ==
  /\ oomAt[s] = "start" /\ Goes(oomAt, s, "running")
  /\ Goes(attach, s, IF limited[s] THEN "resolve" ELSE "failed")
  /\ UNCHANGED <<launchVars, kernelVars, watcherVars, initial, unread, closed, record,
                 lastOOM, verdict, disturbed>>

\* Wait has returned; finish cancels the attach.
WaitOver(s) ==
  /\ oomAt[s] = "running" /\ ending[s] # "alive"
  /\ Goes(oomAt, s, "cancelled")
  /\ UNCHANGED <<launchVars, kernelVars, watcherVars, attach, initial, unread, closed,
                 record, lastOOM, verdict, disturbed>>

\* It joins the attach and stops the watcher.
StopWatcher(s) ==
  /\ oomAt[s] = "cancelled" /\ attach[s] \in {"attached", "failed"}
  /\ Goes(closed, s, TRUE) /\ Goes(oomAt, s, "stopping")
  /\ UNCHANGED <<launchVars, kernelVars, watcherVars, attach, initial, unread, record,
                 lastOOM, verdict, disturbed>>

\* Mutant: Stop does not wait for the goroutine.
WatcherJoined_NoWait(s) == TRUE
WatcherJoined(s) == attach[s] = "attached" => watcherAt[s] = "done"

\* classifyOutcome
Outcome(kills, killed, monitored) ==
  CASE kills > 0 /\ killed -> "fatal"
    [] kills > 0 /\ ~killed -> "survived"
    [] kills = 0 /\ killed /\ ~monitored -> "unattributable"
    [] OTHER -> "nothing"

Classify(s) ==
  /\ oomAt[s] = "stopping" /\ WatcherJoined(s)
  /\ LET v == Outcome(seen[s], ending[s] # "clean", attach[s] = "attached")
     IN Goes(verdict, s, v) /\ Goes(oomAt, s, IF v = "fatal" THEN "report" ELSE "over")
  /\ UNCHANGED <<launchVars, kernelVars, watcherVars, attach, initial, unread, closed,
                 record, lastOOM, disturbed>>

FatalLoad(s) ==
  /\ oomAt[s] = "report" /\ Goes(oomAt, s, "record")
  /\ record' = [record EXCEPT ![s].finish = lastOOM]
  /\ UNCHANGED <<launchVars, kernelVars, watcherVars, attach, initial, unread, closed,
                 lastOOM, verdict, disturbed>>

FatalSave(s) ==
  /\ oomAt[s] = "record" /\ Goes(oomAt, s, "over")
  /\ SaveRecord(s, Recorded(record[s].finish, seen[s], TRUE))
  /\ UNCHANGED <<launchVars, kernelVars, watcherVars, attach, initial, unread, closed,
                 record, verdict>>

-----------------------------------------------------------------------------
(* The workload and the kernel *)

\* A process is killed, the largest, or the one the launch waits for.
OOMKill(s) ==
  /\ oomAt[s] = "running" /\ ending[s] = "alive" /\ tally[s] < tallyBefore[s] + KillLimit[s]
  /\ Goes(tally, s, tally[s] + 1)
  /\ \E how \in {"alive", "propagated", "direct"} : Goes(ending, s, how)
  /\ Goes(unread, s, attach[s] = "attached" /\ ~closed[s])
  /\ UNCHANGED <<launchVars, cgroup, oomAt, attach, initial, closed, watcherVars, record,
                 lastOOM, verdict, disturbed>>

\* It ends by itself, with any status, 137 among them, or by a `kill -9'.
WorkloadOver(s) ==
  /\ oomAt[s] = "running" /\ ending[s] = "alive"
  /\ \E how \in {"clean", "propagated", "direct"} : Goes(ending, s, how)
  /\ UNCHANGED <<launchVars, tally, cgroup, oomAt, attach, initial, unread, closed,
                 watcherVars, record, lastOOM, verdict, disturbed>>

\* A cgroup of its own goes with the last process in it.
CgroupRemoved(s) ==
  /\ ending[s] # "alive" /\ cgroup[s] /\ ~reused[s]
  /\ Goes(cgroup, s, FALSE)
  /\ UNCHANGED <<launchVars, tally, ending, oomAt, attach, initial, unread, closed,
                 watcherVars, record, lastOOM, verdict, disturbed>>

-----------------------------------------------------------------------------
(* The attach goroutine *)

\* ScopeCgroupDir, ContainerCgroupDir: found, or given up on.
Resolve(s) ==
  /\ attach[s] = "resolve"
  /\ \E found \in {"read", "failed"} :
       (found = "read" => cgroup[s]) /\ Goes(attach, s, found)
  /\ UNCHANGED <<launchVars, kernelVars, oomAt, initial, unread, closed, watcherVars,
                 record, lastOOM, verdict, disturbed>>

ReadInitial(s) ==
  /\ attach[s] = "read"
  /\ IF cgroup[s] THEN Goes(initial, s, tally[s]) /\ Goes(attach, s, "watch")
     ELSE Goes(attach, s, "failed") /\ UNCHANGED initial
  /\ UNCHANGED <<launchVars, kernelVars, oomAt, unread, closed, watcherVars, record,
                 lastOOM, verdict, disturbed>>

\* watchModify, then the goroutine that reports what was found first.
AddWatch(s) ==
  /\ attach[s] = "watch"
  /\ IF cgroup[s]
     THEN /\ Goes(attach, s, "attached")
          /\ Goes(watcherAt, s, "report") /\ Goes(current, s, initial[s])
     ELSE Goes(attach, s, "failed") /\ UNCHANGED <<watcherAt, current>>
  /\ UNCHANGED <<launchVars, kernelVars, oomAt, initial, unread, closed, seen, record,
                 lastOOM, verdict, disturbed>>

-----------------------------------------------------------------------------
(* The watching goroutine *)

\* Ownership.baseline
Baseline(s) == IF reused[s] THEN initial[s] ELSE 0

\* report, and observed for what is new.
Report(s) ==
  /\ watcherAt[s] = "report"
  /\ LET observed == current[s] - Baseline(s)
     IN IF observed <= 0 \/ observed = seen[s]
        THEN Goes(watcherAt, s, "wait") /\ UNCHANGED seen
        ELSE Goes(watcherAt, s, "load") /\ Goes(seen, s, observed)
  /\ UNCHANGED <<launchVars, kernelVars, oomAt, attach, initial, unread, closed,
                 current, record, lastOOM, verdict, disturbed>>

ObservedLoad(s) ==
  /\ watcherAt[s] = "load" /\ Goes(watcherAt, s, "save")
  /\ record' = [record EXCEPT ![s].watch = lastOOM]
  /\ UNCHANGED <<launchVars, kernelVars, oomAt, attach, initial, unread, closed,
                 current, seen, lastOOM, verdict, disturbed>>

ObservedSave(s) ==
  /\ watcherAt[s] = "save" /\ Goes(watcherAt, s, "wait")
  /\ SaveRecord(s, Recorded(record[s].watch, seen[s], FALSE))
  /\ UNCHANGED <<launchVars, kernelVars, oomAt, attach, initial, unread, closed,
                 current, seen, record, verdict>>

\* The read of an event, and of memory.events after it.
EventRead(s) ==
  /\ watcherAt[s] = "wait" /\ unread[s]
  /\ Goes(unread, s, FALSE)
  /\ IF cgroup[s] THEN Goes(watcherAt, s, "report") /\ Goes(current, s, tally[s])
     ELSE Goes(watcherAt, s, "done") /\ UNCHANGED current
  /\ UNCHANGED <<launchVars, kernelVars, oomAt, attach, initial, closed, seen, record,
                 lastOOM, verdict, disturbed>>

\* The handle is closed: what it still held is lost.
WatcherEnds(s) ==
  /\ watcherAt[s] = "wait" /\ closed[s]
  /\ Goes(watcherAt, s, "done")
  /\ UNCHANGED <<launchVars, kernelVars, oomAt, attach, initial, unread, closed,
                 current, seen, record, lastOOM, verdict, disturbed>>

MonitorSteps(s) ==
  \/ ResetLoad(s) \/ ResetSave(s) \/ StartMonitor(s) \/ WaitOver(s) \/ StopWatcher(s)
  \/ Classify(s) \/ FatalLoad(s) \/ FatalSave(s)
WatchSteps(s) ==
  \/ Resolve(s) \/ ReadInitial(s) \/ AddWatch(s)
  \/ Report(s) \/ ObservedLoad(s) \/ ObservedSave(s) \/ EventRead(s) \/ WatcherEnds(s)

OOMNext ==
  \E s \in Watched :
    MonitorSteps(s) \/ WatchSteps(s) \/ OOMKill(s) \/ WorkloadOver(s)
      \/ CgroupRemoved(s)

OOMSpec == OOMInit /\ [][OOMNext]_oomVars

-----------------------------------------------------------------------------
(* Properties *)

\* No session is charged with the kills of an earlier one in its cgroup; only a
\* session that was killed with OOM kills of its own is called OOM-killed; and when
\* a session is over, and no other session wrote in between, the record says what
\* the user was told, however the kills, the reports and the end interleaved.
OOMAccounted ==
  \A s \in Watched :
    /\ seen[s] <= tally[s] - tallyBefore[s]
    /\ verdict[s] = "fatal" => tally[s] > tallyBefore[s] /\ ending[s] # "clean"
    /\ verdict[s] = "unattributable" => attach[s] = "failed"
    /\ oomAt[s] = "over" /\ ~disturbed[s] =>
         lastOOM = IF seen[s] = 0 THEN NoRecord ELSE Kill(seen[s], verdict[s] = "fatal")
=============================================================================
