---------------------------- MODULE EventExporter ----------------------------
(***************************************************************************)
(* The optional exporter of diagnostics events: internal/diagnostics,      *)
(* exporter.go, exporter_status.go, store.go, opened and closed by         *)
(* internal/cli/app.go.                                                    *)
(*                                                                         *)
(* Enqueue puts an event at the end of the outbox, a file, and makes room  *)
(* for it at the front.  A goroutine of the same process sends the first   *)
(* lines of the outbox to a server and, once the server has said yes,      *)
(* removes as many lines from the front as it sent.  The mutex outboxMu is *)
(* held while the file is read or rewritten, not while a batch is on its   *)
(* way, and it is a mutex of one process: another process shares the file  *)
(* and the status and nothing else.                                        *)
(*                                                                         *)
(* Event n is the n-th that is enqueued.                                   *)
(***************************************************************************)
EXTENDS Integers, Sequences, FiniteSets, Loops

CONSTANTS
  Procs,           \* szr processes
  MaxEvents,       \* bound: events enqueued
  MaxStarts,       \* bound: processes started
  SizeOf,          \* the length of each event's line
  Limits,          \* what cfg.MaxOutboxBytes may be
  BatchSize,       \* cfg.BatchSize
  Faults           \* whether file-system calls may fail

Events == 1 .. MaxEvents

ASSUME ExporterAssumption ==
  /\ MaxEvents \in Nat /\ MaxStarts \in Nat
  /\ SizeOf \in [Events -> Nat \ {0}]
  /\ Limits \subseteq Nat \ {0} /\ BatchSize \in Nat \ {0}
  /\ Faults \in BOOLEAN

VARIABLES
  limit,     \* cfg.MaxOutboxBytes
  outbox,    \* the lines of the outbox
  status,    \* the count of dropped events in the status file
  received,  \* what the server has accepted
  next,      \* the next event
  starts,    \* how many processes were started
  up,        \* whether each process is down, up or closing
  main,      \* what the goroutine that enqueues is about to write
  sender,    \* where the goroutine that sends is
  dropped,   \* Exporter.dropped of each process
  stored,    \* history: the events that were in the outbox
  drops      \* history: how often a process counted a dropped event

vars == <<limit, outbox, status, received, next, starts, up, main, sender, dropped, stored, drops>>

(* The goroutine that enqueues, from reading the outbox to writing it. *)
Nothing == [writes |-> FALSE, data |-> <<>>]
Writing(data) == [writes |-> TRUE, data |-> data]

(* The goroutine that sends: the batch on its way, what it is about to     *)
(* leave in the outbox, the count it is about to write, and whether the    *)
(* exporter was stopped before this flush.                                 *)
Sender(at, batch, data, seen, last) ==
  [at |-> at, batch |-> batch, data |-> data, seen |-> seen, last |-> last]
Asleep == Sender("idle", <<>>, <<>>, 0, FALSE)

EventsIn(lines) == {lines[i] : i \in DOMAIN lines}

(* The bytes of the last n lines. *)
BytesOfLast(lines, n) == SumOfLast([i \in DOMAIN lines |-> SizeOf[lines[i]]], n)

Init ==
  /\ limit \in Limits
  /\ outbox = <<>> /\ status = 0 /\ received = {}
  /\ next = 1 /\ starts = 0
  /\ up = [p \in Procs |-> "down"]
  /\ main = [p \in Procs |-> Nothing]
  /\ sender = [p \in Procs |-> Asleep]
  /\ dropped = [p \in Procs |-> 0]
  /\ stored = {} /\ drops = 0

(* outboxMu: held by an append from its read to its write, and likewise by *)
(* a removal.                                                              *)
OutboxFree(p) == ~main[p].writes /\ sender[p].at # "removing"

-----------------------------------------------------------------------------
(* NewExporter takes the count over from the status a process left.        *)
Open(p) ==
  /\ up[p] = "down" /\ starts < MaxStarts
  /\ starts' = starts + 1
  /\ up' = [up EXCEPT ![p] = "up"]
  /\ dropped' = [dropped EXCEPT ![p] = status]
  /\ UNCHANGED <<limit, outbox, status, received, next, main, sender, stored, drops>>

(* Exporter.Close: the process waits for the sender's last flush.          *)
Close(p) ==
  /\ up[p] = "up" /\ ~main[p].writes
  /\ up' = [up EXCEPT ![p] = "closing"]
  /\ UNCHANGED <<limit, outbox, status, received, next, starts, main, sender, dropped, stored, drops>>

(* The process dies; what it had written stays.                            *)
Crash(p) ==
  /\ up[p] # "down"
  /\ up' = [up EXCEPT ![p] = "down"]
  /\ main' = [main EXCEPT ![p] = Nothing]
  /\ sender' = [sender EXCEPT ![p] = Asleep]
  /\ UNCHANGED <<limit, outbox, status, received, next, starts, dropped, stored, drops>>

-----------------------------------------------------------------------------
(* Enqueue.                                                                *)

(* Events counted as dropped, and the status file brought up to date.      *)
Count(p, n) ==
  /\ drops' = drops + n
  /\ dropped' = [dropped EXCEPT ![p] = @ + n]
  /\ status' = IF n > 0 THEN dropped'[p] ELSE status

(* How many lines give way: the fewest that leave room for event e.        *)
Room(e, n) == BytesOfLast(outbox, Len(outbox) - n) + SizeOf[e] <= limit
Pruned(e) ==
  CHOOSE n \in 0 .. Len(outbox) :
    /\ n = Len(outbox) \/ Room(e, n)
    /\ \A k \in 0 .. n - 1 : ~Room(e, k)

(* What append is about to write: event e after the lines that stay. *)
WithRoomFor(e) == Append(SubSeq(outbox, Pruned(e) + 1, Len(outbox)), e)

(* A fault for mutation: what gives way for an event is not counted.       *)
AppendReadUncounted(p) ==
  /\ up[p] = "up" /\ next \in Events /\ OutboxFree(p)
  /\ next' = next + 1
  /\ IF SizeOf[next] > limit
     THEN Count(p, 1) /\ UNCHANGED main
     ELSE /\ Count(p, 0)
          /\ main' = [main EXCEPT ![p] = Writing(WithRoomFor(next))]
  /\ UNCHANGED <<limit, outbox, received, starts, up, sender, stored>>

(* append reads the outbox and makes room.  An event that is longer than   *)
(* the outbox may be is counted, and what gave way for it stays on disk.   *)
AppendRead(p) ==
  /\ up[p] = "up" /\ next \in Events /\ OutboxFree(p)
  /\ next' = next + 1
  /\ IF SizeOf[next] > limit
     THEN Count(p, Pruned(next) + 1) /\ UNCHANGED main
     ELSE /\ Count(p, Pruned(next))
          /\ main' = [main EXCEPT ![p] = Writing(WithRoomFor(next))]
  /\ UNCHANGED <<limit, outbox, received, starts, up, sender, stored>>

(* The outbox cannot be read: the event is counted.                        *)
AppendReadFails(p) ==
  /\ Faults
  /\ up[p] = "up" /\ next \in Events /\ OutboxFree(p)
  /\ next' = next + 1
  /\ Count(p, 1)
  /\ UNCHANGED <<limit, outbox, received, starts, up, main, sender, stored>>

(* writeOutbox replaces the file in one rename.                            *)
AppendWrite(p) ==
  /\ main[p].writes
  /\ outbox' = main[p].data
  /\ stored' = stored \cup {main[p].data[Len(main[p].data)]}
  /\ main' = [main EXCEPT ![p] = Nothing]
  /\ UNCHANGED <<limit, status, received, next, starts, up, sender, dropped, drops>>

(* The outbox cannot be rewritten: it is as before, and the event counted. *)
AppendFails(p) ==
  /\ Faults /\ main[p].writes
  /\ Count(p, 1)
  /\ main' = [main EXCEPT ![p] = Nothing]
  /\ UNCHANGED <<limit, outbox, received, next, starts, up, sender, stored>>

-----------------------------------------------------------------------------
(* flushContext.  The ticker allows a flush at any time; the one after the *)
(* exporter was stopped is the last.                                       *)

Move(p, s) == sender' = [sender EXCEPT ![p] = s]

(* The end of a flush. *)
Finish(p) ==
  /\ Move(p, Asleep)
  /\ up' = [up EXCEPT ![p] = IF sender[p].last THEN "down" ELSE @]

(* recordSuccess, recordFailure: the count is read under the lock and      *)
(* written to the status file after it.                                    *)
Record(p) ==
  Move(p, Sender("persist", <<>>, <<>>, dropped[p], sender[p].last))

Batch == SubSeq(outbox, 1, IF BatchSize < Len(outbox) THEN BatchSize ELSE Len(outbox))

Flush(p) ==
  /\ up[p] # "down" /\ sender[p].at = "idle" /\ OutboxFree(p)
  /\ \E last \in {up[p] = "closing", FALSE} :
       IF outbox = <<>>
       THEN /\ last
            /\ up' = [up EXCEPT ![p] = "down"]
            /\ UNCHANGED sender
       ELSE /\ Move(p, Sender("sending", Batch, <<>>, 0, last))
            /\ UNCHANGED up
  /\ UNCHANGED <<limit, outbox, status, received, next, starts, main, dropped, stored, drops>>

(* The outbox cannot be read.                                              *)
FlushFails(p) ==
  /\ Faults
  /\ up[p] # "down" /\ sender[p].at = "idle" /\ OutboxFree(p)
  /\ \E last \in {up[p] = "closing", FALSE} :
       Move(p, Sender("persist", <<>>, <<>>, dropped[p], last))
  /\ UNCHANGED <<limit, outbox, status, received, next, starts, up, main, dropped, stored, drops>>

Sending(p) ==
  /\ sender[p].at = "sending"
  /\ UNCHANGED <<limit, outbox, status, next, starts, up, main, dropped, stored, drops>>

(* The server takes the batch, and says so.                                *)
Accepted(p) ==
  /\ Sending(p)
  /\ received' = received \cup EventsIn(sender[p].batch)
  /\ Move(p, Sender("accepted", sender[p].batch, <<>>, 0, sender[p].last))

(* The server takes the batch, and its answer is lost or late.             *)
AnswerLost(p) ==
  /\ Sending(p)
  /\ received' = received \cup EventsIn(sender[p].batch)
  /\ Record(p)

(* The server is not reached, or answers with an error.                    *)
Rejected(p) ==
  /\ Sending(p)
  /\ Record(p)
  /\ UNCHANGED received

(* Faults for mutation: a whole batch's worth of lines is removed, or none.*)
RemainingAfterBatchSize(p) == SubSeq(outbox, BatchSize + 1, Len(outbox))
RemainingUntrimmed(p) == outbox

(* removeOutboxPrefix: as many lines from the front as were sent.          *)
Remaining(p) == SubSeq(outbox, Len(sender[p].batch) + 1, Len(outbox))

RemoveRead(p) ==
  /\ sender[p].at = "accepted" /\ OutboxFree(p)
  /\ Move(p, Sender("removing", sender[p].batch, Remaining(p), 0, sender[p].last))
  /\ UNCHANGED <<limit, outbox, status, received, next, starts, up, main, dropped, stored, drops>>

RemoveWrite(p) ==
  /\ sender[p].at = "removing"
  /\ outbox' = sender[p].data
  /\ Record(p)
  /\ UNCHANGED <<limit, status, received, next, starts, up, main, dropped, stored, drops>>

RemoveFails(p) ==
  /\ Faults /\ sender[p].at = "removing"
  /\ Record(p)
  /\ UNCHANGED <<limit, outbox, status, received, next, starts, up, main, dropped, stored, drops>>

(* persistStatus writes the count its goroutine saw.                       *)
PersistStatus(p) ==
  /\ sender[p].at = "persist"
  /\ status' = sender[p].seen
  /\ Finish(p)
  /\ UNCHANGED <<limit, outbox, received, next, starts, main, dropped, stored, drops>>

-----------------------------------------------------------------------------
Step(p) ==
  \/ Open(p) \/ Close(p) \/ Crash(p)
  \/ AppendRead(p) \/ AppendReadFails(p) \/ AppendWrite(p) \/ AppendFails(p)
  \/ Flush(p) \/ FlushFails(p)
  \/ Accepted(p) \/ AnswerLost(p) \/ Rejected(p)
  \/ RemoveRead(p) \/ RemoveWrite(p) \/ RemoveFails(p)
  \/ PersistStatus(p)

Next == \E p \in Procs : Step(p)

(* The goroutines run, the ticker ticks, and a server and a disk that are  *)
(* asked again and again answer in the end.                                *)
Fairness ==
  \A p \in Procs :
    /\ WF_vars(AppendWrite(p)) /\ WF_vars(PersistStatus(p))
    /\ SF_vars(Flush(p)) /\ SF_vars(Accepted(p)) /\ SF_vars(RemoveRead(p)) /\ SF_vars(RemoveWrite(p))

Spec == Init /\ [][Next]_vars /\ Fairness
-----------------------------------------------------------------------------
(* What may be lost is counted: for every event that left the outbox and   *)
(* did not reach the server a process counted one dropped, though not      *)
(* always that one.  append may drop lines of a batch that is on its way;  *)
(* removeOutboxPrefix then removes as many lines that were never sent.     *)
LossIsCounted == Cardinality(stored \ (received \cup EventsIn(outbox))) <= drops

(* A line leaves the outbox unsent only when append needs its room.        *)
UnsentStays ==
  [][EventsIn(outbox) \ EventsIn(outbox') \subseteq received
       \/ \E p \in Procs : AppendWrite(p)]_vars

(* Under the fairness above an exporter that stays open empties its outbox,*)
(* whatever was refused, lost or left behind by processes that died.       *)
Drains == \A p \in Procs : <>[](up[p] = "up") => <>[](outbox = <<>>)

(* The outbox may hold every event there is. *)
Roomy == \A e \in Events : MaxEvents * SizeOf[e] <= limit

(* An exporter whose outbox is large enough implements the ledger: it      *)
(* loses no event that it has accepted, whatever fails and wherever the    *)
(* process dies.                                                           *)
Ledger == INSTANCE EventLedger WITH
  pending <- IF Roomy THEN EventsIn(outbox) ELSE {},
  delivered <- IF Roomy THEN received ELSE {},
  refused <- IF Roomy THEN drops ELSE 0
ImplementsLedger == Ledger!Spec
=============================================================================
