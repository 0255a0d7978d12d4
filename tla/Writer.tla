------------------------------- MODULE Writer -------------------------------
(***************************************************************************)
(* The batched SQLite writer, src/src/store/writer.rs.                     *)
(*                                                                         *)
(* Threads that hold a clone of the WriterHandle send Row, Flush and       *)
(* Shutdown messages over one bounded channel; the writer thread batches   *)
(* the rows and commits each batch in one transaction of INSERT OR IGNORE. *)
(* The table is the set of its rows, the primary key (ts, pid, remote_ip,  *)
(* dport, proto) a row's "key", its other columns its "data".  "id" numbers*)
(* the rows in the order in which submit() was called: it is what the      *)
(* properties use to speak of order, the code has no such column.          *)
(***************************************************************************)
EXTENDS Integers, Sequences, Functions

CONSTANTS
  Clients,          \* threads that hold a clone of the WriterHandle
  Keys,             \* values of the primary key of table flows
  Data,             \* values of the other columns
  BatchSize,        \* WriterConfig::batch_size
  ChannelCapacity,  \* CHANNEL_CAPACITY
  MaxRows,          \* bound of the model: rows submitted in a behaviour
  Faults            \* the SQLite calls that may fail

ASSUME WriterAssumption ==
  /\ BatchSize \in Nat
  /\ ChannelCapacity \in Nat \ {0}
  /\ MaxRows \in Nat
  /\ Faults \subseteq {"prepare", "begin", "statement"}

VARIABLES
  channel,  \* messages sent and not yet received
  batch,    \* the writer thread's Vec<Row>
  due,      \* Instant::now() has reached the writer thread's deadline
  writer,   \* the writer thread: "starting", "running", "closed", "done"
  table,    \* the rows of table flows
  handle,   \* what each client did with its WriterHandle
  sent,     \* history: number of calls of submit()
  mark,     \* history: "sent" when the client's Shutdown entered the channel
  ignored,  \* history: rows an INSERT OR IGNORE skipped
  failed,   \* history: rows lost with an error logged
  dropped   \* history: rows lost without a word

handleVars == <<handle, mark>>
fateVars == <<table, ignored, failed>>
vars == <<channel, batch, due, writer, table, handle, sent, mark,
          ignored, failed, dropped>>

Rows == [id : Nat \ {0}, key : Keys, data : Data]

Messages == [type : {"Row"}, row : Rows] \cup [type : {"Flush"}]
              \cup [type : {"Shutdown"}, from : Clients]

RowsIn(msgs) == {msgs[i].row : i \in {j \in DOMAIN msgs : msgs[j].type = "Row"}}

-----------------------------------------------------------------------------
\* The handle: submit, flush, shutdown.

\* The receiver exists until writer_loop returns; send() fails after that.
Open == writer \in {"starting", "running"}

\* Clones of the Sender that are still alive: shutdown(self) keeps its own
\* until it returns.
Senders == {c \in Clients : handle[c] \in {"held", "waiting"}}

\* Variant: an unbounded channel.
SendUnbounded(msg) ==
  /\ Open
  /\ channel' = Append(channel, msg)

Send(msg) ==
  /\ Open
  /\ Len(channel) < ChannelCapacity
  /\ channel' = Append(channel, msg)

Submit(c, k, d) ==
  LET row == [id |-> sent + 1, key |-> k, data |-> d] IN
  /\ handle[c] = "held"
  /\ sent < MaxRows
  /\ sent' = sent + 1
  /\ \/ Send([type |-> "Row", row |-> row]) /\ UNCHANGED failed
     \/ ~Open /\ failed' = failed \cup {row} /\ UNCHANGED channel
  /\ UNCHANGED <<batch, due, writer, table, handleVars, ignored, dropped>>

Flush(c) ==
  /\ handle[c] = "held"
  /\ \/ Send([type |-> "Flush"])
     \/ ~Open /\ UNCHANGED channel
  /\ UNCHANGED <<batch, due, writer, fateVars, handleVars, sent, dropped>>

Shutdown(c) ==
  /\ handle[c] = "held"
  /\ \/ /\ Send([type |-> "Shutdown", from |-> c])
        /\ handle' = [handle EXCEPT ![c] = "waiting"]
        /\ mark' = [mark EXCEPT ![c] = sent]
     \/ /\ ~Open
        /\ handle' = [handle EXCEPT ![c] = "refused"]
        /\ UNCHANGED <<channel, mark>>
  /\ UNCHANGED <<batch, due, writer, fateVars, sent, dropped>>

\* Variant: a done_tx that outlives the thread, so that the signal is all that
\* answers a recv().
AwaitSignal(c) ==
  /\ handle[c] = "waiting"
  /\ writer = "done"
  /\ \A o \in Clients : handle[o] # "returned"
  /\ handle' = [handle EXCEPT ![c] = "returned"]
  /\ UNCHANGED <<channel, batch, due, writer, fateVars, sent, mark, dropped>>

\* done_rx.recv() answers the first caller with the signal and the later ones
\* with an error, which shutdown() does not look at.
Await(c) ==
  /\ handle[c] = "waiting"
  /\ writer = "done"
  /\ handle' = [handle EXCEPT ![c] = "returned"]
  /\ UNCHANGED <<channel, batch, due, writer, fateVars, sent, mark, dropped>>

DropHandle(c) ==
  /\ handle[c] = "held"
  /\ handle' = [handle EXCEPT ![c] = "dropped"]
  /\ UNCHANGED <<channel, batch, due, writer, fateVars, sent, mark, dropped>>

-----------------------------------------------------------------------------
\* The writer thread.

\* Variants: duplicates inside a transaction unseen; the newest of them wins;
\* only those inside a transaction seen.
InsertedUnchecked(rows) ==
  {r \in Range(rows) : \A t \in table : t.key # r.key}

InsertedNewest(rows) ==
  {rows[i] : i \in {j \in DOMAIN rows :
     /\ \A r \in table : r.key # rows[j].key
     /\ \A h \in (j + 1) .. Len(rows) : rows[h].key # rows[j].key}}

InsertedDistinct(rows) ==
  {rows[i] : i \in {j \in DOMAIN rows :
     \A h \in 1 .. (j - 1) : rows[h].key # rows[j].key}}

\* The rows of a batch that INSERT OR IGNORE adds to the table.
Inserted(rows) ==
  {rows[i] : i \in {j \in DOMAIN rows :
     /\ \A r \in table : r.key # rows[j].key
     /\ \A h \in 1 .. (j - 1) : rows[h].key # rows[j].key}}

CommitRows(rows) ==
  /\ table' = table \cup Inserted(rows)
  /\ ignored' = ignored \cup (Range(rows) \ Inserted(rows))
  /\ UNCHANGED failed

LoseRows(rows) ==
  /\ failed' = failed \cup Range(rows)
  /\ UNCHANGED <<table, ignored>>

\* Variants: batch.drain(1..); inserts outside a transaction.
FlushBatchButHead(rows) ==
  /\ batch' = <<Head(rows)>>
  /\ CommitRows(Tail(rows))

FlushBatchOneByOne(rows) ==
  \E n \in 0 .. Len(rows) :
    /\ batch' = <<>>
    /\ table' = table \cup Inserted(SubSeq(rows, 1, n))
    /\ ignored' = ignored \cup (Range(SubSeq(rows, 1, n)) \ table')
    /\ failed' = failed \cup Range(SubSeq(rows, n + 1, Len(rows)))

\* BEGIN may fail with the batch untouched; batch.drain(..) has emptied it
\* when an INSERT or the COMMIT fails and the transaction rolls back.
FlushBatch(rows) ==
  \/ batch' = <<>> /\ CommitRows(rows)
  \/ "statement" \in Faults /\ batch' = <<>> /\ LoseRows(rows)
  \/ "begin" \in Faults /\ batch' = rows /\ UNCHANGED fateVars

\* Variant: the exit forgets the batch.
ExitUnflushed(rest) ==
  /\ batch' = <<>>
  /\ channel' = <<>>
  /\ dropped' = dropped \cup RowsIn(rest)
  /\ writer' = "closed"
  /\ UNCHANGED <<due, fateVars, sent, handleVars>>

\* writer_loop returns: its last flush, then the batch and the receiver go.
Exit(rest) ==
  /\ \/ CommitRows(batch)
     \/ batch # <<>> /\ Faults \cap {"begin", "statement"} # {} /\ LoseRows(batch)
  /\ batch' = <<>>
  /\ channel' = <<>>
  /\ dropped' = dropped \cup RowsIn(rest)
  /\ writer' = "closed"
  /\ UNCHANGED <<due, sent, handleVars>>

Prepare ==
  /\ writer = "starting"
  /\ \/ writer' = "running" /\ UNCHANGED <<channel, failed>>
     \/ /\ "prepare" \in Faults
        /\ writer' = "closed"
        /\ channel' = <<>>
        /\ failed' = failed \cup RowsIn(channel)
  /\ UNCHANGED <<batch, due, table, handleVars, sent, ignored, dropped>>

Receive(type) ==
  /\ writer = "running"
  /\ channel # <<>>
  /\ Head(channel).type = type

Full(rows) == Len(rows) >= BatchSize

RecvRow ==
  LET rows == Append(batch, Head(channel).row) IN
  /\ Receive("Row")
  /\ channel' = Tail(channel)
  /\ \/ Full(rows) /\ FlushBatch(rows) /\ due' = FALSE
     \/ ~Full(rows) /\ batch' = rows /\ UNCHANGED <<fateVars, due>>
  /\ UNCHANGED <<writer, handleVars, sent, dropped>>

RecvFlush ==
  /\ Receive("Flush")
  /\ channel' = Tail(channel)
  /\ \/ batch # <<>> /\ FlushBatch(batch)
     \/ batch = <<>> /\ UNCHANGED <<batch, fateVars>>
  /\ due' = FALSE
  /\ UNCHANGED <<writer, handleVars, sent, dropped>>

RecvShutdown ==
  /\ Receive("Shutdown")
  /\ Exit(Tail(channel))

\* Variant: recv() also with a batch in hand.
TimeoutNever == FALSE

\* recv_timeout looks for a message before it looks at the clock, and is only
\* called with a batch in hand: an idle writer blocks in recv().
Timeout ==
  /\ writer = "running"
  /\ channel = <<>>
  /\ Senders # {}
  /\ batch # <<>>
  /\ due
  /\ FlushBatch(batch)
  /\ due' = FALSE
  /\ UNCHANGED <<channel, writer, handleVars, sent, dropped>>

\* Variant: the messages left behind by the last handle are not received.
DisconnectedEarly ==
  /\ writer = "running"
  /\ Senders = {}
  /\ Exit(channel)

Disconnected ==
  /\ writer = "running"
  /\ channel = <<>>
  /\ Senders = {}
  /\ Exit(<<>>)

SignalDone ==
  /\ writer = "closed"
  /\ writer' = "done"
  /\ UNCHANGED <<channel, batch, due, fateVars, handleVars, sent, dropped>>

\* The deadline is batch_interval after the last flush, also while the writer
\* idles: the first row after a pause finds it already past.
DeadlinePasses ==
  /\ writer = "running"
  /\ ~due
  /\ due' = TRUE
  /\ UNCHANGED <<channel, batch, writer, fateVars, handleVars, sent, dropped>>

WriterThread ==
  \/ Prepare \/ RecvRow \/ RecvFlush \/ RecvShutdown
  \/ Timeout \/ Disconnected \/ SignalDone

-----------------------------------------------------------------------------
Init ==
  /\ channel = <<>>
  /\ batch = <<>>
  /\ due = FALSE
  /\ writer = "starting"
  /\ table = {}
  /\ handle = [c \in Clients |-> "held"]
  /\ sent = 0
  /\ mark = [c \in Clients |-> 0]
  /\ ignored = {}
  /\ failed = {}
  /\ dropped = {}

Finished ==
  /\ writer = "done"
  /\ Senders = {}
  /\ UNCHANGED vars

Next ==
  \/ \E c \in Clients :
       \/ \E k \in Keys, d \in Data : Submit(c, k, d)
       \/ Flush(c)
       \/ Shutdown(c)
       \/ Await(c)
       \/ DropHandle(c)
  \/ WriterThread
  \/ DeadlinePasses
  \/ Finished

Spec == Init /\ [][Next]_vars

\* The writer is an OS thread that never waits for anything but its channel
\* and its deadline; clients owe nothing, except to return from recv().  BEGIN
\* may be refused as often as it likes, as long as it is not refused for ever.
Fairness ==
  /\ WF_vars(WriterThread)
  /\ SF_vars(WriterThread /\ batch # <<>> /\ batch' = <<>>)
  /\ WF_vars(DeadlinePasses)
  /\ \A c \in Clients : WF_vars(Await(c))

FairSpec == Spec /\ Fairness
-----------------------------------------------------------------------------
\* Properties.

InChannel == RowsIn(channel)
InBatch == Range(batch)
InMemory == InChannel \cup InBatch
Settled == table \cup ignored \cup failed \cup dropped

TypeOK ==
  /\ channel \in Seq(Messages) /\ Len(channel) <= ChannelCapacity
  /\ batch \in Seq(Rows)
  /\ due \in BOOLEAN
  /\ writer \in {"starting", "running", "closed", "done"}
  /\ handle \in [Clients -> {"held", "waiting", "returned", "refused", "dropped"}]
  /\ sent \in Nat
  /\ mark \in [Clients -> Nat]
  /\ Settled \subseteq Rows

\* Every row submitted is in exactly one place: the channel, the batch, the
\* table, or one of the three ways to be lost. No flush, retry or exit of the
\* writer thread duplicates a row or lets one vanish unrecorded.
OneFate ==
  /\ \A n \in 1 .. sent : \E r \in InMemory \cup Settled : r.id = n
  /\ \A r, s \in InMemory \cup Settled : r.id = s.id => r = s
  /\ InChannel \cap InBatch = {}
  /\ InMemory \cap Settled = {}
  /\ table \cap (ignored \cup failed \cup dropped) = {}
  /\ ignored \cap (failed \cup dropped) = {}
  /\ failed \cap dropped = {}

\* Rows keep the order of their submit() calls through channel and batch, and
\* the fate of no row is settled while an older one is still in memory.
InOrder ==
  /\ \A i, j \in DOMAIN batch : i < j => batch[i].id < batch[j].id
  /\ \A i, j \in DOMAIN channel :
       i < j /\ channel[i].type = "Row" /\ channel[j].type = "Row"
         => channel[i].row.id < channel[j].row.id
  /\ \A r \in InBatch, s \in InChannel : r.id < s.id
  /\ \A r \in Settled, s \in InMemory : r.id < s.id

\* INSERT OR IGNORE keeps the primary key unique and keeps the row submitted
\* first: a row is ignored only for an older row of its key in the table.
FirstRowWins ==
  /\ \A r, s \in table : r.key = s.key => r = s
  /\ \A s \in ignored : \E r \in table : r.key = s.key /\ r.id < s.id

\* A row is lost without an error in the log only if it was submitted behind
\* another handle's Shutdown message, in the channel the exit throws away.
SilentLossBehindShutdown ==
  \A r \in dropped : \E c \in Clients :
    handle[c] \in {"waiting", "returned"} /\ mark[c] < r.id

\* A transaction is all or nothing: when rows enter the table the batch has
\* been emptied, no row that leaves memory in that step has failed, and none
\* ever leaves the table.
AtomicCommit ==
  [][table' # table => /\ table \subseteq table'
                       /\ InMemory \ InMemory' \subseteq table' \cup ignored' \cup dropped'
                       /\ batch' = <<>>]_vars

\* No accepted row stays in memory for ever, whatever the clients do next.
RowsSettle == (InMemory # {}) ~> (InMemory = {})

\* shutdown() always comes back, also when several handles call it.
ShutdownReturns ==
  \A c \in Clients : (handle[c] = "waiting") ~> (handle[c] = "returned")

\* The writer implements the abstract sink; it is never restarted.
Sink == INSTANCE RowSink WITH pending <- InMemory, open <- Open, restarts <- 0
SinkSpec == Sink!Spec

\* writer.rs:67 of shutdown(): "flushing any pending batch", "Returns an error
\* if the writer was already shut down". So a call that returned Ok left none
\* of the rows accepted before it unwritten, failed flushes (logged) apart.
ShutdownFlushesPending ==
  \A c \in Clients : handle[c] = "returned" => \A r \in dropped : r.id > mark[c]
=============================================================================
