------------------------------ MODULE LogExport ------------------------------
(***************************************************************************)
(* Remote logging: the dispatcher fans entries out to its writers; the     *)
(* OTLP writer collects them into batches and sends each batch from a      *)
(* goroutine of its own, when it is full, when the ticker fires, and when  *)
(* it is closed (internal/logging/writer.go and otlp.go).  The process     *)
(* ends some time after it has closed the dispatcher.                      *)
(*                                                                         *)
(* A send has a timeout; the collector takes the batch, or the writer      *)
(* reports that it did not.                                                *)
(***************************************************************************)
EXTENDS Naturals, FiniteSets

CONSTANTS
  Entries,       \* log entries
  BatchSize      \* cfg.BatchSize

ASSUME LogAssumption == BatchSize \in Nat \ {0}

VARIABLES
  buffer,        \* w.buffer
  sending,       \* batches a send goroutine has
  exported,      \* entries the collector has
  reported,      \* entries of batches reported as not sent
  refused,       \* entries Write did not take
  writerAt,      \* where the writer is in Close
  flusher,       \* whether flushLoop runs
  ended          \* whether the process has ended

logVars == <<buffer, sending, exported, reported, refused, writerAt, flusher,
             ended>>

LogTypeOK ==
  /\ buffer \subseteq Entries
  /\ sending \subseteq SUBSET Entries
  /\ exported \subseteq Entries
  /\ reported \subseteq Entries
  /\ refused \subseteq Entries
  /\ writerAt \in {"open", "closing", "joined", "closed"}
  /\ flusher \in BOOLEAN
  /\ ended \in BOOLEAN

LogInit ==
  /\ buffer = {}
  /\ sending = {}
  /\ exported = {}
  /\ reported = {}
  /\ refused = {}
  /\ writerAt = "open"
  /\ flusher = TRUE
  /\ ended = FALSE

InFlight == UNION sending
Taken == buffer \cup InFlight \cup exported \cup reported
Unwritten == Entries \ (Taken \cup refused)

\* flushLocked, on what the buffer holds then: `go w.send(entries)'.
Flush(pending) ==
  /\ buffer' = {}
  /\ sending' = IF pending = {} THEN sending ELSE sending \cup {pending}

-----------------------------------------------------------------------------

WriteEntry(e) ==
  /\ ~ended
  /\ e \in Unwritten
  /\ IF writerAt = "open"
     THEN /\ IF Cardinality(buffer) + 1 >= BatchSize
             THEN Flush(buffer \cup {e})
             ELSE buffer' = buffer \cup {e} /\ UNCHANGED sending
          /\ UNCHANGED refused
     ELSE refused' = refused \cup {e} /\ UNCHANGED <<buffer, sending>>
  /\ UNCHANGED <<exported, reported, writerAt, flusher, ended>>

Tick ==
  /\ ~ended /\ flusher
  /\ Flush(buffer)
  /\ UNCHANGED <<exported, reported, refused, writerAt, flusher, ended>>

SendDone(batch) ==
  /\ ~ended
  /\ batch \in sending
  /\ sending' = sending \ {batch}
  /\ \/ exported' = exported \cup batch /\ UNCHANGED reported
     \/ reported' = reported \cup batch /\ UNCHANGED exported
  /\ UNCHANGED <<buffer, refused, writerAt, flusher, ended>>

-----------------------------------------------------------------------------
(* Close *)

CloseBegins ==
  /\ ~ended /\ writerAt = "open"
  /\ writerAt' = "closing"
  /\ UNCHANGED <<buffer, sending, exported, reported, refused, flusher, ended>>

\* The flusher sees w.done, perhaps after one more tick, and is joined.
FlusherEnds ==
  /\ ~ended /\ writerAt = "closing"
  /\ flusher' = FALSE
  /\ writerAt' = "joined"
  /\ UNCHANGED <<buffer, sending, exported, reported, refused, ended>>

\* Mutant: Close leaves the buffer.
FinalFlush_Dropped ==
  /\ ~ended /\ writerAt = "joined"
  /\ writerAt' = "closed"
  /\ UNCHANGED <<buffer, sending, exported, reported, refused, flusher, ended>>

FinalFlush ==
  /\ ~ended /\ writerAt = "joined"
  /\ writerAt' = "closed"
  /\ Flush(buffer)
  /\ UNCHANGED <<exported, reported, refused, flusher, ended>>

\* The process ends after Close, or is killed: its goroutines end with it.
ProcessEnds ==
  /\ ~ended
  /\ ended' = TRUE
  /\ UNCHANGED <<buffer, sending, exported, reported, refused, writerAt, flusher>>

-----------------------------------------------------------------------------

LogNext ==
  \/ \E e \in Entries : WriteEntry(e)
  \/ Tick \/ CloseBegins \/ FlusherEnds \/ FinalFlush \/ ProcessEnds
  \/ \E batch \in sending : SendDone(batch)

\* The ticker ticks, and a send ends by its timeout.
LogFairness ==
  /\ WF_logVars(Tick)
  /\ WF_logVars(FlusherEnds \/ FinalFlush)
  /\ WF_logVars(\E batch \in sending : SendDone(batch))

LogSpec == LogInit /\ [][LogNext]_logVars /\ LogFairness

-----------------------------------------------------------------------------
(* Properties *)

\* While the process runs, every entry the writer has taken reaches the collector
\* or is reported as lost, whether the writer is closed meanwhile or not.
EntriesSettled ==
  \A e \in Entries : e \in Taken ~> e \in exported \cup reported \/ ended
=============================================================================
