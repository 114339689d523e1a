------------------------------ MODULE QueryLog ------------------------------
(***************************************************************************)
(* The query log of api/middlewares/query_log_middleware.py: in every      *)
(* worker a bounded queue that requests put entries into, and a thread     *)
(* that moves them to magic.query_log in batches.                          *)
(*                                                                         *)
(* An entry is a record with the id of its request.  The two seconds after *)
(* which a batch is due may have passed at any step.  PostgreSQL may       *)
(* refuse a statement, which leaves the connection in an aborted           *)
(* transaction; the connection may break before or after a commit took     *)
(* effect; a new one may not be had, or the environment may not say where. *)
(***************************************************************************)
EXTENDS Integers, Sequences, SequencesExt

CONSTANTS Workers,
          QueueSize,   \* Queue(maxsize=...)
          FlushEvery,  \* _FLUSH_EVERY_N
          Ids          \* requests

ASSUME QueryLogAssumption == QueueSize \in Nat \ {0} /\ FlushEvery \in Nat \ {0}

VARIABLES faults,   \* which of "refuse", "break", "unacknowledged", "connect", "credentials" can happen
          queue,    \* each worker's queue
          writer,   \* each worker's writer: conn, pending, and whether it runs
          stopping, \* workers whose stop event is set
          rows,     \* how many rows magic.query_log has for a request: none, 1, or Several
          lost,     \* requests whose entry was given up
          unacked   \* requests whose rows were committed unacknowledged

logVars == <<queue, writer, stopping, rows, lost, unacked>>

Several == 2  \* bound: two rows and more are not told apart
More(n) == IF n = Several THEN n ELSE n + 1

IdsOf(entries) == {entries[i].id : i \in DOMAIN entries}
Fresh == [conn |-> "none", pending |-> <<>>, runs |-> TRUE]

LogInit ==
  /\ queue = [w \in Workers |-> <<>>]
  /\ writer = [w \in Workers |-> Fresh]
  /\ stopping = {}
  /\ rows = [i \in Ids |-> 0]
  /\ lost = {} /\ unacked = {}

(* Mutant of Put: the queue is not bounded.                                *)
PutUnbounded(w, entry) ==
  /\ queue' = [queue EXCEPT ![w] = Append(@, entry)]
  /\ UNCHANGED <<writer, stopping, rows, lost, unacked>>

(* process_response: an entry that finds the queue full is dropped.        *)
Put(w, entry) ==
  /\ \/ Len(queue[w]) < QueueSize /\ queue' = [queue EXCEPT ![w] = Append(@, entry)] /\ UNCHANGED lost
     \/ Len(queue[w]) = QueueSize /\ lost' = lost \cup {entry.id} /\ UNCHANGED queue
  /\ UNCHANGED <<writer, stopping, rows, unacked>>

-----------------------------------------------------------------------------
(* _flush: how a batch can end.  raises: an exception reaches the caller;  *)
(* written: the rows are in the table.                                     *)
Flushed(conn, pending, raises, written) ==
  [conn |-> conn, pending |-> pending, raises |-> raises, written |-> written]

(* Mutant of Flush: the batch is kept after a commit.                      *)
FlushKeeping(conn, pending) ==
  IF pending = <<>> THEN {Flushed(conn, pending, FALSE, FALSE)} ELSE {Flushed("open", pending, FALSE, TRUE)}

Flush(conn, pending) ==
  IF pending = <<>> THEN {Flushed(conn, pending, FALSE, FALSE)}
  ELSE IF conn = "aborted" THEN {Flushed(conn, pending, TRUE, FALSE)}
  ELSE {Flushed("open", <<>>, FALSE, TRUE)}
       \cup (IF "refuse" \in faults THEN {Flushed("aborted", pending, TRUE, FALSE)} ELSE {})
       \cup (IF "break" \in faults THEN {Flushed("none", pending, TRUE, FALSE)} ELSE {})
       \cup (IF "unacknowledged" \in faults THEN {Flushed("none", pending, TRUE, TRUE)} ELSE {})
       \cup (IF "credentials" \in faults /\ conn = "none" THEN {Flushed("none", <<>>, FALSE, FALSE)} ELSE {})
       \cup (IF "connect" \in faults /\ conn = "none" THEN {Flushed("none", pending, TRUE, FALSE)} ELSE {})

(* givesUp: the caller gives up the batch when the flush raises.           *)
Settle(f, pending, givesUp) ==
  /\ lost' = IF (f.raises /\ givesUp) \/ ~ (f.raises \/ f.written) THEN lost \cup IdsOf(pending) ELSE lost
  /\ rows' = IF f.written THEN [i \in Ids |-> IF i \in IdsOf(pending) THEN More(rows[i]) ELSE rows[i]] ELSE rows
  /\ unacked' = IF f.written /\ f.raises THEN unacked \cup IdsOf(pending) ELSE unacked

(* Mutant of Write: a failed batch is kept.                                *)
WriteKeeping(w) ==
  /\ writer[w].runs /\ queue[w] # <<>>
  /\ queue' = [queue EXCEPT ![w] = Tail(@)]
  /\ \E due \in BOOLEAN :
       LET pending == Append(writer[w].pending, Head(queue[w]))
       IN \/ /\ ~ due /\ Len(pending) < FlushEvery
             /\ writer' = [writer EXCEPT ![w].pending = pending]
             /\ UNCHANGED <<rows, lost, unacked>>
          \/ /\ due \/ Len(pending) >= FlushEvery
             /\ \E f \in Flush(writer[w].conn, pending) :
                  /\ writer' = [writer EXCEPT ![w].conn = f.conn, ![w].pending = f.pending]
                  /\ Settle(f, pending, FALSE)
  /\ UNCHANGED stopping

(* Mutant of Write: an entry that finds the batch due is left out of it.   *)
WriteForgetting(w) ==
  /\ writer[w].runs /\ queue[w] # <<>>
  /\ queue' = [queue EXCEPT ![w] = Tail(@)]
  /\ \E due \in BOOLEAN :
       LET pending == writer[w].pending
       IN \/ /\ ~ due /\ Len(pending) < FlushEvery - 1
             /\ writer' = [writer EXCEPT ![w].pending = Append(pending, Head(queue[w]))]
             /\ UNCHANGED <<rows, lost, unacked>>
          \/ /\ due \/ Len(pending) >= FlushEvery - 1
             /\ \E f \in Flush(writer[w].conn, pending) :
                  /\ writer' = [writer EXCEPT ![w] = IF f.raises THEN Fresh
                                                     ELSE [@ EXCEPT !.conn = f.conn, !.pending = f.pending]]
                  /\ Settle(f, pending, TRUE)
  /\ UNCHANGED stopping

(* _write, and _reset after an exception: the connection and the whole     *)
(* batch are given up.                                                     *)
Write(w) ==
  /\ writer[w].runs /\ queue[w] # <<>>
  /\ queue' = [queue EXCEPT ![w] = Tail(@)]
  /\ \E due \in BOOLEAN :
       LET pending == Append(writer[w].pending, Head(queue[w]))
       IN \/ /\ ~ due /\ Len(pending) < FlushEvery
             /\ writer' = [writer EXCEPT ![w].pending = pending]
             /\ UNCHANGED <<rows, lost, unacked>>
          \/ /\ due \/ Len(pending) >= FlushEvery
             /\ \E f \in Flush(writer[w].conn, pending) :
                  /\ writer' = [writer EXCEPT ![w] = IF f.raises THEN Fresh
                                                     ELSE [@ EXCEPT !.conn = f.conn, !.pending = f.pending]]
                  /\ Settle(f, pending, TRUE)
  /\ UNCHANGED stopping

(* The queue stayed empty for 50 ms: the batch is flushed, and an          *)
(* exception suppressed, with the connection and the batch left as they    *)
(* are.                                                                    *)
Idle(w) ==
  /\ writer[w].runs /\ queue[w] = <<>> /\ w \notin stopping
  /\ \E f \in Flush(writer[w].conn, writer[w].pending) :
       /\ writer' = [writer EXCEPT ![w].conn = f.conn, ![w].pending = f.pending]
       /\ Settle(f, writer[w].pending, FALSE)
  /\ UNCHANGED <<queue, stopping>>

Stop(w) ==
  /\ w \notin stopping /\ stopping' = stopping \cup {w}
  /\ UNCHANGED <<queue, writer, rows, lost, unacked>>

(* Mutants of Exit: the loop ends with entries in the queue; it ends only  *)
(* when the last batch was written.                                        *)
ExitEarly(w) ==
  /\ writer[w].runs /\ w \in stopping
  /\ \E f \in Flush(writer[w].conn, writer[w].pending) :
       /\ writer' = [writer EXCEPT ![w] = [conn |-> "none", pending |-> <<>>, runs |-> FALSE]]
       /\ Settle(f, writer[w].pending, TRUE)
  /\ UNCHANGED <<queue, stopping>>

ExitWritten(w) ==
  /\ writer[w].runs /\ w \in stopping /\ queue[w] = <<>>
  /\ \E f \in Flush(writer[w].conn, writer[w].pending) :
       /\ ~ f.raises
       /\ writer' = [writer EXCEPT ![w] = [conn |-> "none", pending |-> <<>>, runs |-> FALSE]]
       /\ Settle(f, writer[w].pending, TRUE)
  /\ UNCHANGED <<queue, stopping>>

(* run(): the loop ends when the event is set and the queue is empty; what *)
(* the last flush does not write is gone with the thread.                  *)
Exit(w) ==
  /\ writer[w].runs /\ w \in stopping /\ queue[w] = <<>>
  /\ \E f \in Flush(writer[w].conn, writer[w].pending) :
       /\ writer' = [writer EXCEPT ![w] = [conn |-> "none", pending |-> <<>>, runs |-> FALSE]]
       /\ Settle(f, writer[w].pending, TRUE)
  /\ UNCHANGED <<queue, stopping>>

WriterStep(w) == Write(w) \/ Idle(w) \/ Exit(w)

(* Processes are killed: the thread is a daemon, and nothing is flushed.   *)
Kill(killed) ==
  /\ lost' = lost \cup UNION {IdsOf(queue[w]) \cup IdsOf(writer[w].pending) : w \in killed}
  /\ queue' = [w \in Workers |-> IF w \in killed THEN <<>> ELSE queue[w]]
  /\ writer' = [w \in Workers |-> IF w \in killed THEN Fresh ELSE writer[w]]
  /\ stopping' = stopping \ killed
  /\ UNCHANGED <<rows, unacked>>

LogFairness == \A w \in Workers : WF_logVars(WriterStep(w))

-----------------------------------------------------------------------------
(* A failure costs at most one batch: the writer never holds as many as    *)
(* _FLUSH_EVERY_N entries between two steps, however often the database    *)
(* refuses them, so that _reset() cannot give up more.                     *)
BatchBounded == \A w \in Workers : Len(writer[w].pending) < FlushEvery

(* A request has a second row only when the commit of the first took       *)
(* effect but the connection broke before it was acknowledged.             *)
DuplicateOnlyUnacknowledged == \A i \in Ids : rows[i] > 1 => i \in unacked

(* After stop() the writer drains the queue and ends, even if the database *)
(* refuses every batch.                                                    *)
StopEnds == \A w \in Workers : w \in stopping ~> (w \notin stopping \/ ~ writer[w].runs)

(* What a request queued is taken up by the writer.                        *)
QueueDrains == \A w \in Workers : queue[w] # <<>> ~> queue[w] = <<>>
=============================================================================
