------------------------------ MODULE DemoProofs ------------------------------
(***************************************************************************)
(* Proofs about Demo, for any generated rows, any capture that commits     *)
(* into the same file, any channel and batch size and any faults: the demo *)
(* reads its own writes, and panics only for the rows of other programs.   *)
(*                                                                         *)
(* The invariants of Writer do not hold here: the demo is killed and       *)
(* numbers its rows afresh, and its table has rows of others.  Those of    *)
(* the opens do, and are taken from SchemaProofs.                          *)
(***************************************************************************)
EXTENDS Demo, SchemaProofs, FiniteSetTheorems

WP == INSTANCE WriterProofs WITH Clients <- {"demo"}, Keys <- [ts : Int, ip : Ips],
        Data <- {r.data : r \in OtherRows \cup Range(FakeRows) \cup {AggregatorRow}},
        Faults <- WriterFaults, MaxRows <- Len(FakeRows) + 1
QP == INSTANCE QueriesProofs

-----------------------------------------------------------------------------
\* The inductive invariant.

WriterTyped ==
  /\ channel \in Seq(WP!Messages) /\ Len(channel) <= ChannelCapacity
  /\ batch \in Seq(WP!Rows)
  /\ due \in BOOLEAN
  /\ writer \in {"starting", "running", "closed", "done"}
  /\ handle \in [{"demo"} -> {"held", "waiting", "returned", "refused"}]
  /\ sent \in 0 .. Len(FakeRows) + 1

DemoTyped ==
  /\ now \in Last .. MaxTime /\ start \in Last .. now /\ bucket \in 0 .. now
  /\ demo \in {"opening", "submitting", "drained", "flushing", "stopping", "waiting",
               "reopening", "asserting", "verified", "panicked", "error"}
  /\ others \in 0 .. MaxOthers

\* A closed writer holds nothing, nothing is in the batch before it runs, and
\* behind a Shutdown message there is nothing: its sender waits.
Lifecycle ==
  /\ writer \in {"closed", "done"} => channel = <<>> /\ batch = <<>>
  /\ writer = "starting" => batch = <<>>
  /\ \A i \in DOMAIN channel : channel[i].type = "Shutdown" =>
       i = Len(channel) /\ handle["demo"] = "waiting"
  /\ handle["demo"] = "returned" => writer = "done"

\* The handle, the rows sent and the window drained, by the place of the demo's
\* main thread.
Phases ==
  /\ demo = "opening" => sent = 0 /\ writer = "starting" /\ channel = <<>>
  /\ demo \in {"opening", "submitting", "drained", "flushing", "stopping"} =>
       handle["demo"] = "held"
  /\ demo = "waiting" => handle["demo"] = "waiting"
  /\ demo \in {"reopening", "asserting", "verified", "panicked"} => handle["demo"] = "returned"
  /\ demo = "submitting" => sent <= Len(FakeRows)
  /\ demo \notin {"opening", "submitting", "error"} => bucket >= start - Last
  /\ demo \notin {"opening", "submitting", "drained", "error"} => sent = Len(FakeRows) + 1

Sources == OtherRows \cup Range(FakeRows) \cup {AggregatorRow}

AllRows == WP!InMemory \cup table

\* Every row is one of the demo's or of the capture's.
Origin ==
  \A r \in AllRows :
    /\ r.key.ts \in Int
    /\ \E s \in Sources : r.key.ip = s.ip /\ r.data = s.data

\* r is row n of the demo, or has its place in the table.
StandsFor(n, r) == r.key = DemoKey(n)

\* Until SQLite refuses a batch, each row submitted is in memory or in the
\* table, or an older one of its key is.
Accounted ==
  failed = {} => \A n \in 1 .. sent : \E r \in AllRows : StandsFor(n, r)

DemoInv == DemoTyped /\ WriterTyped /\ Lifecycle /\ Phases /\ Origin /\ Accounted

DInv == JInv /\ DemoInv

-----------------------------------------------------------------------------
\* The writer as Demo and as the proofs instantiate it is the same.

LEMMA SameRows ==
  /\ W!Messages = WP!Messages /\ W!Rows = WP!Rows
  /\ W!Open <=> WP!Open
  /\ \A rows : W!Inserted(rows) = WP!Inserted(rows)
  BY DEF W!Messages, WP!Messages, W!Rows, WP!Rows, W!Open, WP!Open, W!Inserted, WP!Inserted

LEMMA SameHandle ==
  /\ \A k, d : W!Submit("demo", k, d) => WP!Submit("demo", k, d)
  /\ W!Flush("demo") => WP!Flush("demo")
  /\ W!Shutdown("demo") => WP!Shutdown("demo")
  /\ W!Await("demo") => WP!Await("demo")
  BY DEF W!Submit, WP!Submit, W!Flush, WP!Flush, W!Shutdown, WP!Shutdown, W!Await, WP!Await,
         W!Send, WP!Send, W!Open, WP!Open, W!fateVars, WP!fateVars, W!handleVars, WP!handleVars

LEMMA SameThread ==
  /\ W!WriterThread => WP!WriterThread
  /\ W!DeadlinePasses => WP!DeadlinePasses
  BY DEF W!WriterThread, W!Prepare, W!RecvRow, W!RecvFlush, W!RecvShutdown, W!Timeout,
         W!Disconnected, W!SignalDone, W!Receive, W!FlushBatch, W!Exit, W!CommitRows, W!LoseRows,
         W!Inserted, W!Full, W!Senders, W!RowsIn, W!fateVars, W!handleVars, W!Range,
         W!DeadlinePasses, WP!DeadlinePasses,
         WP!WriterThread, WP!Prepare, WP!RecvRow, WP!RecvFlush, WP!RecvShutdown, WP!Timeout,
         WP!Disconnected, WP!SignalDone, WP!Receive, WP!FlushBatch, WP!Exit, WP!CommitRows,
         WP!LoseRows, WP!Inserted, WP!Full, WP!Senders, WP!RowsIn, WP!fateVars, WP!handleVars,
         WP!Range

LEMMA WriterConstants ==
  /\ BatchSize \in Nat
  /\ ChannelCapacity \in Nat \ {0}
  /\ Len(FakeRows) + 1 \in Nat
  /\ WriterFaults \subseteq {"prepare", "begin", "statement"}
  BY ComponentAssumption DEF W!WriterAssumption

LEMMA Constants ==
  /\ Len(FakeRows) \in Nat /\ DOMAIN FakeRows = 1 .. Len(FakeRows)
  /\ \A i \in DOMAIN FakeRows : FakeRows[i] \in Range(FakeRows) /\ FakeRows[i].age \in 0 .. Last
  /\ FlushInterval \in Nat \ {0} /\ Last \in Nat /\ Last >= FlushInterval
  /\ MaxOthers \in Nat /\ MaxTime \in Nat /\ MaxTime >= Last
  <1>2. Len(FakeRows) \in Nat /\ DOMAIN FakeRows = 1 .. Len(FakeRows)
    BY DemoAssumption
  <1>3. \A i \in DOMAIN FakeRows : FakeRows[i] \in Range(FakeRows)
    BY DEF Range
  <1> QED BY <1>2, <1>3, DemoAssumption

-----------------------------------------------------------------------------
\* What the writer thread does to the rows of the demo.

\* No key is lost by a step that does not fail.
KeysStay == failed' = {} => \A r \in AllRows : \E s \in AllRows' : s.key = r.key

LEMMA CommitKeepsKeys ==
  ASSUME NEW rows \in Seq(WP!Rows), WP!CommitRows(rows)
  PROVE  /\ table \subseteq table' /\ table' \subseteq table \cup Range(rows)
         /\ failed' = failed
         /\ \A r \in Range(rows) : \E s \in table' : s.key = r.key
  <1>1. table' = table \cup WP!Inserted(rows) /\ failed' = failed
    BY DEF WP!CommitRows
  <1>2. WP!Inserted(rows) \subseteq Range(rows)
    BY DEF WP!Inserted, Range
  <1>3. ASSUME NEW r \in Range(rows), \A s \in table : s.key # r.key
        PROVE  \E s \in WP!Inserted(rows) : s.key = r.key
    <2> DEFINE T == {h \in DOMAIN rows : rows[h].key = r.key}
    <2>1. T \in SUBSET Nat /\ T # {}
      BY DEF Range
    <2>2. PICK h \in T : \A g \in T : h <= g
      BY <2>1, WP!LeastNat, WriterConstants
    <2>3. \A g \in 1 .. (h - 1) : rows[g].key # rows[h].key
      BY <2>2
    <2>4. rows[h] \in WP!Inserted(rows)
      BY <1>3, <2>2, <2>3 DEF WP!Inserted
    <2> QED BY <2>2, <2>4
  <1> QED BY <1>1, <1>2, <1>3

\* FlushBatch of rows that are all in memory.
LEMMA FlushKeepsKeys ==
  ASSUME NEW rows \in Seq(WP!Rows), WP!FlushBatch(rows),
         WP!InMemory = WP!InChannel' \cup Range(rows)
  PROVE  /\ table \subseteq table' /\ failed \subseteq failed'
         /\ AllRows' \subseteq AllRows
         /\ KeysStay
         /\ batch' \in Seq(WP!Rows)
  <1>0. Range(<<>>) = {} /\ <<>> \in Seq(WP!Rows)
    BY DEF Range
  <1>1. WP!InMemory' = WP!InChannel' \cup Range(batch')
    BY DEF WP!InMemory, WP!InBatch, WP!Range, Range
  <1>2. CASE batch' = <<>> /\ WP!CommitRows(rows)
    BY <1>0, <1>1, <1>2, CommitKeepsKeys DEF AllRows, KeysStay
  <1>3. CASE batch' = <<>> /\ WP!LoseRows(rows)
    <2>1. failed' = failed \cup Range(rows) /\ table' = table
      BY <1>3 DEF WP!LoseRows, WP!Range, Range
    <2>2. KeysStay
      BY <1>0, <1>1, <1>3, <2>1 DEF AllRows, KeysStay
    <2> QED BY <1>0, <1>1, <1>3, <2>1, <2>2 DEF AllRows
  <1>4. CASE batch' = rows /\ UNCHANGED WP!fateVars
    BY <1>1, <1>4 DEF AllRows, KeysStay, WP!fateVars
  <1> QED BY <1>2, <1>3, <1>4 DEF WP!FlushBatch

\* The exit of a writer whose channel holds no row.
LEMMA ExitKeepsKeys ==
  ASSUME WriterTyped, NEW rest, WP!Exit(rest), WP!InChannel = {}
  PROVE  /\ table \subseteq table' /\ failed \subseteq failed'
         /\ AllRows' \subseteq AllRows
         /\ KeysStay
  <1>1. batch \in Seq(WP!Rows) /\ batch' = <<>> /\ channel' = <<>>
    BY DEF WP!Exit, WriterTyped
  <1>2. WP!InMemory = Range(batch) /\ WP!InMemory' = {}
    BY <1>1, WP!EmptySets, WriterConstants DEF WP!InMemory, WP!InChannel, WP!InBatch, WP!Range, Range
  <1>3. CASE WP!CommitRows(batch)
    BY <1>1, <1>2, <1>3, CommitKeepsKeys DEF AllRows, KeysStay
  <1>4. CASE WP!LoseRows(batch)
    <2>1. failed' = failed \cup Range(batch) /\ table' = table
      BY <1>4 DEF WP!LoseRows, WP!Range, Range
    <2> QED BY <1>2, <2>1 DEF AllRows, KeysStay
  <1> QED BY <1>3, <1>4 DEF WP!Exit

ShutdownsLast ==
  \A i \in DOMAIN channel : channel[i].type = "Shutdown" =>
    i = Len(channel) /\ handle["demo"] = "waiting"

LEMMA TailOfChannel ==
  ASSUME WriterTyped, ShutdownsLast, channel # <<>>, channel' = Tail(channel), handle' = handle
  PROVE  /\ channel' \in Seq(WP!Messages) /\ Len(channel') <= ChannelCapacity
         /\ ShutdownsLast'
         /\ WP!InChannel = WP!InChannel' \cup (IF Head(channel).type = "Row"
                                               THEN {Head(channel).row} ELSE {})
  <1>1. channel \in Seq(WP!Messages) /\ Len(channel) <= ChannelCapacity
    BY DEF WriterTyped
  <1>2. /\ channel' \in Seq(WP!Messages) /\ Len(channel') = Len(channel) - 1
        /\ \A i \in DOMAIN channel' : i + 1 \in DOMAIN channel /\ channel'[i] = channel[i + 1]
        /\ DOMAIN channel' \subseteq Nat
    BY <1>1
  <1>3. ShutdownsLast'
    <2> SUFFICES ASSUME NEW i \in DOMAIN channel', channel'[i].type = "Shutdown"
                 PROVE  i = Len(channel') /\ handle'["demo"] = "waiting"
      BY DEF ShutdownsLast
    <2>1. i + 1 = Len(channel) /\ handle["demo"] = "waiting"
      BY <1>2 DEF ShutdownsLast
    <2> QED BY <1>2, <2>1
  <1>4. WP!InChannel = WP!InChannel' \cup (IF Head(channel).type = "Row"
                                           THEN {Head(channel).row} ELSE {})
    BY <1>1, WP!RowsInTail, WriterConstants DEF WP!InChannel
  <1>5. Len(channel') <= ChannelCapacity
    BY <1>1, <1>2, WriterConstants
  <1> QED BY <1>2, <1>3, <1>4, <1>5

LEMMA OnlyOne ==
  ASSUME NEW D, NEW n, D = 1 .. n, 1 = n
  PROVE  \A i \in D : i = 1
  OBVIOUS

LEMMA AppendToRange ==
  ASSUME NEW S, NEW s \in Seq(S), NEW x \in S
  PROVE  Append(s, x) \in Seq(S) /\ Range(Append(s, x)) = Range(s) \cup {x}
  <1> DEFINE t == Append(s, x)
  <1>1. /\ t \in Seq(S)
        /\ DOMAIN t = DOMAIN s \cup {Len(s) + 1}
        /\ \A i \in DOMAIN s : t[i] = s[i]
        /\ t[Len(s) + 1] = x
    OBVIOUS
  <1> HIDE DEF t
  <1> QED BY <1>1 DEF Range, t

ThreadEffect ==
  /\ UNCHANGED <<handle, sent>>
  /\ table \subseteq table' /\ failed \subseteq failed'
  /\ AllRows' \subseteq AllRows
  /\ KeysStay
  /\ WriterTyped' /\ Lifecycle'

LEMMA ThreadStep ==
  ASSUME WriterTyped, Lifecycle, WP!WriterThread \/ WP!DeadlinePasses
  PROVE  ThreadEffect
  <1>0. /\ ShutdownsLast
        /\ batch \in Seq(WP!Rows) /\ channel \in Seq(WP!Messages)
        /\ Len(channel) <= ChannelCapacity /\ due \in BOOLEAN
        /\ handle \in [{"demo"} -> {"held", "waiting", "returned", "refused"}]
        /\ sent \in 0 .. Len(FakeRows) + 1
        /\ <<>> \in Seq(WP!Rows) /\ <<>> \in Seq(WP!Messages) /\ Len(<<>>) = 0
    BY DEF WriterTyped, Lifecycle, ShutdownsLast
  <1>00. ASSUME UNCHANGED <<handle, sent>>, channel' \in Seq(WP!Messages),
                Len(channel') <= ChannelCapacity, batch' \in Seq(WP!Rows), due' \in BOOLEAN,
                writer' \in {"starting", "running", "closed", "done"}
         PROVE  WriterTyped'
    BY <1>0, <1>00 DEF WriterTyped
  <1>1. CASE WP!Prepare
    <2>1. writer = "starting" /\ batch = <<>> /\ UNCHANGED <<batch, due, table, handle, sent>>
      BY <1>1 DEF WP!Prepare, WP!handleVars, Lifecycle
    <2>2. CASE writer' = "running" /\ UNCHANGED <<channel, failed>>
      <3>1. AllRows' = AllRows
        BY <2>1, <2>2 DEF AllRows, WP!InMemory, WP!InChannel, WP!InBatch
      <3>2. Lifecycle'
        BY <1>0, <2>1, <2>2 DEF Lifecycle, ShutdownsLast
      <3>3. WriterTyped'
        BY <1>0, <1>00, <2>1, <2>2
      <3> QED BY <2>1, <2>2, <3>1, <3>2, <3>3 DEF ThreadEffect, KeysStay
    <2>3. CASE writer' = "closed" /\ channel' = <<>> /\ failed' = failed \cup WP!RowsIn(channel)
      <3>1. WP!InMemory = WP!RowsIn(channel) /\ WP!InMemory' = {}
        BY <2>1, <2>3, WP!EmptySets, WriterConstants DEF WP!InMemory, WP!InChannel, WP!InBatch
      <3>2. Lifecycle'
        BY <1>0, <2>1, <2>3 DEF Lifecycle
      <3>3. WriterTyped'
        BY <1>0, <1>00, <2>1, <2>3, WriterConstants
      <3> QED BY <2>1, <2>3, <3>1, <3>2, <3>3 DEF ThreadEffect, KeysStay, AllRows
    <2> QED BY <1>1, <2>2, <2>3 DEF WP!Prepare
  <1>2. ASSUME writer = "running", writer' = "running", channel # <<>>, channel' = Tail(channel),
               UNCHANGED <<handle, sent>>
        PROVE  /\ channel' \in Seq(WP!Messages) /\ Len(channel') <= ChannelCapacity
               /\ WP!InChannel = WP!InChannel' \cup (IF Head(channel).type = "Row"
                                                     THEN {Head(channel).row} ELSE {})
               /\ Lifecycle'
    <2>1. /\ ShutdownsLast' /\ channel' \in Seq(WP!Messages) /\ Len(channel') <= ChannelCapacity
          /\ WP!InChannel = WP!InChannel' \cup (IF Head(channel).type = "Row"
                                                THEN {Head(channel).row} ELSE {})
      BY <1>0, <1>2, TailOfChannel
    <2>2. Lifecycle'
      BY <1>2, <2>1 DEF Lifecycle, ShutdownsLast
    <2> QED BY <2>1, <2>2
  <1>3. CASE WP!RecvRow
    <2> DEFINE rows == Append(batch, Head(channel).row)
    <2>1. /\ writer = "running" /\ channel # <<>> /\ Head(channel).type = "Row"
          /\ channel' = Tail(channel) /\ writer' = "running" /\ UNCHANGED <<handle, sent>>
      BY <1>3 DEF WP!RecvRow, WP!Receive, WP!handleVars
    <2>2. Head(channel) \in WP!Messages
      BY <1>0, <2>1
    <2>3. Head(channel).row \in WP!Rows
      BY <2>1, <2>2, WP!RowMessage, WriterConstants
    <2>4. rows \in Seq(WP!Rows) /\ Range(rows) = Range(batch) \cup {Head(channel).row}
      BY <1>0, <2>3, AppendToRange
    <2> HIDE DEF rows
    <2>5. WP!InMemory = WP!InChannel' \cup Range(rows)
      BY <1>2, <2>1, <2>4 DEF WP!InMemory, WP!InBatch, WP!Range, Range
    <2>6. CASE WP!FlushBatch(rows) /\ due' = FALSE
      BY <1>0, <1>00, <1>2, <2>1, <2>4, <2>5, <2>6, FlushKeepsKeys DEF ThreadEffect
    <2>7. CASE batch' = rows /\ UNCHANGED <<WP!fateVars, due>>
      <3>1. WP!InMemory' = WP!InMemory
        BY <2>5, <2>7 DEF WP!InMemory, WP!InBatch, WP!Range, Range
      <3>2. table' = table /\ failed' = failed
        BY <2>7 DEF WP!fateVars
      <3>3. WriterTyped'
        BY <1>0, <1>00, <1>2, <2>1, <2>4, <2>7
      <3> QED BY <1>2, <2>1, <3>1, <3>2, <3>3 DEF ThreadEffect, AllRows, KeysStay
    <2> QED BY <1>3, <2>6, <2>7 DEF WP!RecvRow, rows
  <1>4. CASE WP!RecvFlush
    <2>1. /\ writer = "running" /\ channel # <<>> /\ Head(channel).type = "Flush" /\ due' = FALSE
          /\ channel' = Tail(channel) /\ writer' = "running" /\ UNCHANGED <<handle, sent>>
      BY <1>4 DEF WP!RecvFlush, WP!Receive, WP!handleVars
    <2>2. WP!InMemory = WP!InChannel' \cup Range(batch)
      BY <1>2, <2>1 DEF WP!InMemory, WP!InBatch, WP!Range, Range
    <2>3. CASE WP!FlushBatch(batch)
      BY <1>0, <1>00, <1>2, <2>1, <2>2, <2>3, FlushKeepsKeys DEF ThreadEffect
    <2>4. CASE UNCHANGED <<batch, WP!fateVars>>
      <3>1. WP!InMemory' = WP!InMemory /\ table' = table /\ failed' = failed
        BY <2>2, <2>4 DEF WP!InMemory, WP!InBatch, WP!Range, Range, WP!fateVars
      <3>2. WriterTyped'
        BY <1>0, <1>00, <1>2, <2>1, <2>4
      <3> QED BY <1>2, <2>1, <3>1, <3>2 DEF ThreadEffect, AllRows, KeysStay
    <2> QED BY <1>4, <2>3, <2>4 DEF WP!RecvFlush
  <1>5. ASSUME writer = "running", NEW rest, WP!Exit(rest), WP!InChannel = {}
        PROVE  ThreadEffect
    <2>1. /\ UNCHANGED <<handle, sent, due>> /\ writer' = "closed"
          /\ channel' = <<>> /\ batch' = <<>>
      BY <1>5 DEF WP!Exit, WP!handleVars
    <2>2. WriterTyped'
      BY <1>0, <1>00, <2>1, WriterConstants
    <2>3. Lifecycle'
      BY <1>5, <2>1 DEF Lifecycle
    <2> QED BY <1>5, <2>1, <2>2, <2>3, ExitKeepsKeys DEF ThreadEffect
  <1>6. CASE WP!RecvShutdown
    <2>1. writer = "running" /\ channel # <<>> /\ Head(channel).type = "Shutdown"
            /\ WP!Exit(Tail(channel))
      BY <1>6 DEF WP!RecvShutdown, WP!Receive
    <2>2. 1 \in DOMAIN channel /\ channel[1].type = "Shutdown" /\ DOMAIN channel = 1 .. Len(channel)
      BY <1>0, <2>1
    <2>3. 1 = Len(channel)
      BY <1>0, <2>2, Zenon DEF ShutdownsLast
    <2>4. \A i \in DOMAIN channel : i = 1
      BY <2>2, <2>3, OnlyOne, Zenon
    <2>5. WP!InChannel = {}
      BY <2>2, <2>4 DEF WP!InChannel, WP!RowsIn
    <2> QED BY <1>5, <2>1, <2>5
  <1>7. CASE WP!Timeout
    <2>1. /\ writer = "running" /\ writer' = "running" /\ due' = FALSE /\ WP!FlushBatch(batch)
          /\ UNCHANGED <<channel, handle, sent>>
      BY <1>7 DEF WP!Timeout, WP!handleVars
    <2>2. WP!InMemory = WP!InChannel' \cup Range(batch)
      BY <2>1 DEF WP!InMemory, WP!InBatch, WP!InChannel, WP!Range, Range
    <2>3. Lifecycle'
      BY <2>1 DEF Lifecycle
    <2> QED BY <1>0, <1>00, <2>1, <2>2, <2>3, FlushKeepsKeys DEF ThreadEffect
  <1>8. CASE WP!Disconnected
    <2>1. writer = "running" /\ channel = <<>> /\ WP!Exit(<<>>)
      BY <1>8 DEF WP!Disconnected
    <2>2. WP!InChannel = {}
      BY <2>1, WP!EmptySets, WriterConstants DEF WP!InChannel
    <2> QED BY <1>5, <2>1, <2>2
  <1>9. CASE WP!SignalDone \/ WP!DeadlinePasses
    <2>1. /\ UNCHANGED <<channel, batch, table, failed, handle, sent>> /\ due' \in BOOLEAN
          /\ \/ writer = "closed" /\ writer' = "done"
             \/ writer = "running" /\ writer' = "running"
      BY <1>0, <1>9 DEF WP!SignalDone, WP!DeadlinePasses, WP!fateVars, WP!handleVars
    <2>2. AllRows' = AllRows
      BY <2>1 DEF AllRows, WP!InMemory, WP!InChannel, WP!InBatch
    <2>3. Lifecycle'
      BY <2>1 DEF Lifecycle
    <2>4. WriterTyped'
      BY <1>0, <1>00, <2>1
    <2> QED BY <2>1, <2>2, <2>3, <2>4 DEF ThreadEffect, KeysStay
  <1> QED BY <1>1, <1>3, <1>4, <1>6, <1>7, <1>8, <1>9 DEF WP!WriterThread

-----------------------------------------------------------------------------
\* The opens.  A step of a process is one of its open or leaves the file as it
\* is; only the kill of the demo ends two connections at once.

LEMMA SchemaSteps ==
  ASSUME [Next]_vars
  PROVE  [SchemaNext]_schemaVars \/ DemoKilled
  <1> {"demo", "demoQuery", "capture", "query"} \subseteq Openers
    BY DemoAssumption
  <1>1. CASE DemoMain
    BY <1>1 DEF DemoMain, DemoOpens, DemoSubmits, DemoDrains, DemoFlushes, DemoShutsDown,
       DemoVerifies, SchemaNext
  <1>2. CASE DemoWriter \/ Tick \/ Finished \/ UNCHANGED vars \/ CaptureCommits
    BY <1>2 DEF DemoWriter, Tick, Finished, vars, CaptureCommits
  <1>3. CASE CaptureOpens \/ QueryRuns
    BY <1>3 DEF CaptureOpens, QueryRuns, SchemaNext
  <1> QED BY <1>1, <1>2, <1>3 DEF Next

LEMMA KillKeepsOpens ==
  ASSUME JInv, DemoKilled
  PROVE  JInv'
  <1> DEFINE killed == {"demo", "demoQuery"}
  <1>1. UNCHANGED <<file, objects, version, opens>>
    BY DEF DemoKilled, dbVars
  <1>2. opener \in [Openers -> States] /\ Closed \in States /\ Closed.pc = "closed"
    BY PlacesAreStates DEF JInv, IInv, SchemaTypeOK, States
  <1>3. opener' \in [Openers -> States]
    BY <1>2 DEF DemoKilled
  <1>4. \A o \in Openers : opener'[o] = IF o \in killed THEN Closed ELSE opener[o]
    BY <1>2 DEF DemoKilled
  <1>5. /\ excused' \in [Openers -> BOOLEAN]
        /\ \A o \in Openers \ killed : excused'[o] = (excused[o] \/ Busy(o))
    BY DEF DemoKilled, JInv, IInv, SchemaTypeOK, Busy
  <1> HIDE DEF killed
  <1>6. IInv'
    <2>1. SchemaTypeOK'
      BY <1>1, <1>3, <1>5 DEF JInv, IInv, SchemaTypeOK, States
    <2>2. AppliedAreThere' /\ PastAllMeansAll' /\ OpenMeansVersion'
      BY <1>1, <1>2, <1>4 DEF JInv, IInv, AppliedAreThere, PastAllMeansAll, OpenMeansVersion
    <2> QED BY <2>1, <2>2 DEF IInv
  <1>7. ClearPath'
    BY <1>2, <1>4, <1>5 DEF ClearPath, Busy
  <1>8. NoFileNoVersion' /\ BusyHasFile'
    BY <1>1, <1>2, <1>4 DEF JInv, NoFileNoVersion, BusyHasFile, Busy
  <1>9. UndisturbedOpenSucceeds'
    BY <1>2, <1>4, <1>5 DEF JInv, UndisturbedOpenSucceeds
  <1> QED BY <1>6, <1>7, <1>8, <1>9 DEF JInv

LEMMA OpensKept ==
  ASSUME JInv, [Next]_vars
  PROVE  JInv'
  BY SchemaSteps, KillKeepsOpens, ClearNext

-----------------------------------------------------------------------------
\* The steps of the demo and of the capture keep the rest of the invariant.

LEMMA DInit ==
  ASSUME Init
  PROVE  DInv
  <1>1. JInv
    BY ClearInit DEF Init
  <1>2. /\ channel = <<>> /\ batch = <<>> /\ due = FALSE /\ writer = "starting" /\ table = {}
        /\ handle = [c \in {"demo"} |-> "held"] /\ sent = 0
        /\ now = Last /\ start = now /\ bucket = 0 /\ demo = "opening" /\ others = 0
    BY DEF Init, W!Init
  <1>3. DemoTyped /\ WriterTyped
    <2>1. DemoTyped
      BY <1>2, Constants DEF DemoTyped
    <2>2. channel \in Seq(WP!Messages) /\ Len(channel) <= ChannelCapacity /\ batch \in Seq(WP!Rows)
      BY <1>2, WriterConstants
    <2>3. handle \in [{"demo"} -> {"held", "waiting", "returned", "refused"}]
      BY <1>2
    <2>4. sent \in 0 .. Len(FakeRows) + 1
      BY <1>2, Constants
    <2> QED BY <1>2, <2>1, <2>2, <2>3, <2>4 DEF WriterTyped
  <1>4. Lifecycle /\ Phases /\ Accounted
    BY <1>2 DEF Lifecycle, Phases, Accounted
  <1>5. AllRows = {}
    BY <1>2, WP!EmptySets, WriterConstants DEF AllRows, WP!InMemory, WP!InChannel, WP!InBatch
  <1> QED BY <1>1, <1>3, <1>4, <1>5 DEF DInv, DemoInv, Origin

LEMMA SameKeys ==
  ASSUME start' = start, bucket' = bucket
  PROVE  \A n : DemoKey(n)' = DemoKey(n)
  BY DEF DemoKey, DemoRow

\* Steps that leave the rows alone.
LEMMA RowsAlone ==
  ASSUME DemoInv, UNCHANGED writerVars
  PROVE  /\ WriterTyped' /\ Lifecycle' /\ Origin' /\ UNCHANGED <<handle, sent, writer, channel, table, failed>>
         /\ (start' = start /\ bucket' = bucket) \/ sent = 0 => Accounted'
  <1>1. UNCHANGED <<channel, batch, due, writer, table, handle, sent, failed>>
    BY DEF writerVars, queueVars
  <1>2. AllRows' = AllRows
    BY <1>1 DEF AllRows, WP!InMemory, WP!InChannel, WP!InBatch
  <1>3. WriterTyped' /\ Lifecycle'
    BY <1>1 DEF DemoInv, WriterTyped, Lifecycle
  <1>4. Origin'
    BY <1>2 DEF DemoInv, Origin
  <1>5. ASSUME start' = start, bucket' = bucket PROVE Accounted'
    BY <1>1, <1>2, <1>5, SameKeys DEF DemoInv, Accounted, StandsFor
  <1>6. ASSUME sent = 0 PROVE Accounted'
    BY <1>1, <1>6 DEF Accounted
  <1> QED BY <1>1, <1>3, <1>4, <1>5, <1>6

LEMMA OpensKeepDemoInv ==
  ASSUME DemoInv, \/ DemoOpens("demo", "opening", "submitting")
                  \/ DemoOpens("demoQuery", "reopening", "asserting")
  PROVE  DemoInv'
  <1>1. UNCHANGED <<now, bucket, others, writerVars>>
    BY DEF DemoOpens
  <1>2. \/ UNCHANGED <<demo, start>>
        \/ demo = "opening" /\ demo' = "submitting" /\ start' = now
        \/ demo = "opening" /\ demo' = "error" /\ start' = start
        \/ demo = "reopening" /\ demo' \in {"asserting", "error"} /\ start' = start
    BY DEF DemoOpens
  <1>3. DemoTyped'
    BY <1>1, <1>2 DEF DemoInv, DemoTyped
  <1>4. Phases'
    BY <1>1, <1>2, RowsAlone DEF DemoInv, Phases
  <1>5. (start' = start /\ bucket' = bucket) \/ sent = 0
    BY <1>1, <1>2 DEF DemoInv, Phases
  <1> QED BY <1>1, <1>3, <1>4, <1>5, RowsAlone DEF DemoInv

LEMMA ReadersKeepDemoInv ==
  ASSUME DemoInv, DemoVerifies \/ CaptureOpens \/ QueryRuns \/ Tick \/ UNCHANGED vars
  PROVE  DemoInv'
  <1>1. UNCHANGED writerVars /\ start' = start /\ bucket' = bucket
    BY DEF DemoVerifies, CaptureOpens, QueryRuns, Tick, vars, programVars
  <1>2. DemoTyped' /\ Phases'
    <2>1. CASE DemoVerifies
      BY <1>1, <2>1, RowsAlone DEF DemoVerifies, DemoInv, DemoTyped, Phases
    <2>2. CASE CaptureOpens \/ QueryRuns \/ UNCHANGED vars
      BY <1>1, <2>2, RowsAlone DEF CaptureOpens, QueryRuns, vars, programVars, DemoInv, DemoTyped, Phases
    <2>3. CASE Tick
      BY <1>1, <2>3, RowsAlone, Constants DEF Tick, DemoInv, DemoTyped, Phases
    <2> QED BY <2>1, <2>2, <2>3
  <1> QED BY <1>1, <1>2, RowsAlone DEF DemoInv

LEMMA DivisionBounds ==
  ASSUME NEW t \in Nat, NEW i \in Nat \ {0}
  PROVE  /\ t \div i \in Nat
         /\ (t \div i) * i <= t
         /\ t < (t \div i) * i + i
  OBVIOUS

LEMMA WindowTyped ==
  ASSUME DemoTyped
  PROVE  Window \in Nat /\ Window > now - FlushInterval /\ Window <= now
  <1> DEFINE q == now \div FlushInterval
             w == q * FlushInterval
  <1>1. now \in Nat /\ FlushInterval \in Nat \ {0}
    BY Constants DEF DemoTyped
  <1>2. q \in Nat /\ w <= now /\ now < w + FlushInterval
    BY <1>1, DivisionBounds, Zenon
  <1> HIDE DEF q
  <1>3. w \in Nat /\ Window = w
    BY <1>1, <1>2 DEF Window, q
  <1> HIDE DEF w
  <1> QED BY <1>1, <1>2, <1>3

\* A call on the handle puts a message behind the others, or finds the writer
\* thread gone.
LEMMA SentBehind ==
  ASSUME WriterTyped, NEW m \in WP!Messages, WP!Send(m)
  PROVE  /\ channel' \in Seq(WP!Messages) /\ Len(channel') <= ChannelCapacity
         /\ WP!InChannel' = WP!InChannel \cup (IF m.type = "Row" THEN {m.row} ELSE {})
         /\ \A i \in DOMAIN channel' : \/ i = Len(channel') /\ channel'[i] = m
                                       \/ i \in DOMAIN channel /\ channel'[i] = channel[i]
         /\ writer \in {"starting", "running"}
  <1>1. channel \in Seq(WP!Messages) /\ channel' = Append(channel, m)
    BY DEF WriterTyped, WP!Send
  <1>2. Len(channel) < ChannelCapacity /\ writer \in {"starting", "running"}
    BY DEF WP!Send, WP!Open
  <1>3. WP!InChannel' = WP!InChannel \cup (IF m.type = "Row" THEN {m.row} ELSE {})
    BY <1>1, WP!RowsInAppend, WriterConstants DEF WP!InChannel
  <1>4. /\ channel' \in Seq(WP!Messages) /\ Len(channel') = Len(channel) + 1
        /\ DOMAIN channel' = DOMAIN channel \cup {Len(channel) + 1}
        /\ \A i \in DOMAIN channel : channel'[i] = channel[i]
        /\ channel'[Len(channel) + 1] = m
    BY <1>1
  <1>5. Len(channel') <= ChannelCapacity
    BY <1>1, <1>2, <1>4, WriterConstants
  <1>6. \A i \in DOMAIN channel' : \/ i = Len(channel') /\ channel'[i] = m
                                   \/ i \in DOMAIN channel /\ channel'[i] = channel[i]
    BY <1>4, Zenon
  <1> QED BY <1>2, <1>3, <1>4, <1>5, <1>6

\* A held handle: nothing in the channel is a Shutdown.
LEMMA HeldMeansOpen ==
  ASSUME Lifecycle, handle["demo"] = "held"
  PROVE  \A i \in DOMAIN channel : channel[i].type # "Shutdown"
  BY DEF Lifecycle

LEMMA FlushKeepsDemoInv ==
  ASSUME DemoInv, DemoFlushes
  PROVE  DemoInv'
  <1>1. /\ WP!Flush("demo") /\ sent = Len(FakeRows) + 1
        /\ \/ demo = "drained" /\ demo' = "flushing"
           \/ demo = "flushing" /\ demo' = "stopping"
        /\ UNCHANGED <<now, start, bucket, others>>
    BY SameHandle DEF DemoFlushes
  <1>2. /\ handle["demo"] = "held"
        /\ UNCHANGED <<batch, due, writer, table, failed, handle, sent>>
        /\ WP!Send([type |-> "Flush"]) \/ UNCHANGED channel
    BY <1>1 DEF WP!Flush, WP!fateVars, WP!handleVars
  <1>3. DemoTyped'
    BY <1>1 DEF DemoInv, DemoTyped
  <1>4. Phases'
    BY <1>1, <1>2 DEF DemoInv, Phases
  <1> DEFINE m == [type |-> "Flush"]
  <1>5. m \in WP!Messages /\ m.type = "Flush"
    BY DEF WP!Messages
  <1>t. WriterTyped /\ Lifecycle /\ \A i \in DOMAIN channel : channel[i].type # "Shutdown"
    BY <1>2, HeldMeansOpen DEF DemoInv
  <1> HIDE DEF m
  <1>6. /\ channel' \in Seq(WP!Messages) /\ Len(channel') <= ChannelCapacity
        /\ WP!InChannel' = WP!InChannel
        /\ Lifecycle'
    <2>1. CASE WP!Send(m)
      <3>1. /\ channel' \in Seq(WP!Messages) /\ Len(channel') <= ChannelCapacity
            /\ WP!InChannel' = WP!InChannel \cup (IF m.type = "Row" THEN {m.row} ELSE {})
            /\ \A i \in DOMAIN channel' : \/ i = Len(channel') /\ channel'[i] = m
                                          \/ i \in DOMAIN channel /\ channel'[i] = channel[i]
            /\ writer \in {"starting", "running"}
        BY <1>5, <1>t, <2>1, SentBehind, Zenon
      <3>2. \A i \in DOMAIN channel' : channel'[i].type # "Shutdown"
        BY <1>5, <1>t, <3>1
      <3>3. Lifecycle'
        BY <1>2, <1>t, <3>1, <3>2 DEF Lifecycle
      <3>4. WP!InChannel' = WP!InChannel
        BY <1>5, <3>1
      <3> QED BY <3>1, <3>3, <3>4
    <2>2. CASE UNCHANGED channel
      <3>1. Lifecycle'
        BY <1>2, <2>2 DEF DemoInv, Lifecycle
      <3> QED BY <2>2, <3>1 DEF DemoInv, WriterTyped, WP!InChannel
    <2> QED BY <1>2, <2>1, <2>2 DEF m
  <1>7. WriterTyped'
    BY <1>2, <1>6 DEF DemoInv, WriterTyped
  <1>8. AllRows' = AllRows
    BY <1>2, <1>6 DEF AllRows, WP!InMemory, WP!InBatch
  <1>9. Origin' /\ Accounted'
    BY <1>1, <1>2, <1>8, SameKeys DEF DemoInv, Origin, Accounted, StandsFor
  <1> QED BY <1>3, <1>4, <1>6, <1>7, <1>9 DEF DemoInv

LEMMA ShutdownKeepsDemoInv ==
  ASSUME DemoInv, DemoShutsDown
  PROVE  DemoInv'
  <1>0. /\ UNCHANGED <<now, start, bucket, others>>
        /\ \/ /\ demo = "stopping" /\ WP!Shutdown("demo")
              /\ demo' = IF handle'["demo"] = "waiting" THEN "waiting" ELSE "error"
           \/ demo = "waiting" /\ WP!Await("demo") /\ demo' = "reopening"
    BY SameHandle DEF DemoShutsDown
  <1>1. /\ UNCHANGED <<batch, due, writer, table, failed, sent>>
    BY <1>0 DEF WP!Shutdown, WP!Await, WP!fateVars
  <1>2. handle \in [{"demo"} -> {"held", "waiting", "returned", "refused"}]
    BY DEF DemoInv, WriterTyped
  <1>3. DemoTyped'
    BY <1>0 DEF DemoInv, DemoTyped
  <1>4. ASSUME channel' \in Seq(WP!Messages), Len(channel') <= ChannelCapacity,
               WP!InChannel' = WP!InChannel,
               Lifecycle', Phases', handle' \in [{"demo"} -> {"held", "waiting", "returned", "refused"}]
        PROVE  DemoInv'
    <2>1. WriterTyped'
      BY <1>1, <1>4 DEF DemoInv, WriterTyped
    <2>2. AllRows' = AllRows
      BY <1>1, <1>4 DEF AllRows, WP!InMemory, WP!InBatch
    <2>3. Origin' /\ Accounted'
      BY <1>0, <1>1, <2>2, SameKeys DEF DemoInv, Origin, Accounted, StandsFor
    <2> QED BY <1>3, <1>4, <2>1, <2>3 DEF DemoInv
  <1>5. CASE demo = "waiting"
    <2>1. /\ handle["demo"] = "waiting" /\ writer = "done" /\ demo' = "reopening"
          /\ handle' = [handle EXCEPT !["demo"] = "returned"] /\ UNCHANGED channel
      BY <1>0, <1>5 DEF WP!Await
    <2>2. handle'["demo"] = "returned" /\ channel = <<>>
            /\ handle' \in [{"demo"} -> {"held", "waiting", "returned", "refused"}]
      BY <1>2, <2>1 DEF DemoInv, Lifecycle
    <2>3. Lifecycle'
      BY <1>1, <2>1, <2>2 DEF DemoInv, Lifecycle
    <2>4. Phases'
      BY <1>0, <1>1, <1>5, <2>1, <2>2 DEF DemoInv, Phases
    <2> QED BY <1>4, <2>1, <2>2, <2>3, <2>4 DEF DemoInv, WriterTyped, WP!InChannel
  <1>6. CASE demo = "stopping"
    <2> DEFINE m == [type |-> "Shutdown", from |-> "demo"]
    <2>1. /\ handle["demo"] = "held" /\ demo' = IF handle'["demo"] = "waiting" THEN "waiting" ELSE "error"
          /\ \/ WP!Send(m) /\ handle' = [handle EXCEPT !["demo"] = "waiting"]
             \/ ~WP!Open /\ handle' = [handle EXCEPT !["demo"] = "refused"] /\ UNCHANGED channel
      BY <1>0, <1>6 DEF WP!Shutdown
    <2>2. m \in WP!Messages /\ m.type = "Shutdown"
      BY DEF WP!Messages
    <2>t. WriterTyped /\ Lifecycle /\ \A i \in DOMAIN channel : channel[i].type # "Shutdown"
      BY <2>1, HeldMeansOpen DEF DemoInv
    <2> HIDE DEF m
    <2>3. CASE WP!Send(m) /\ handle' = [handle EXCEPT !["demo"] = "waiting"]
      <3>1. /\ channel' \in Seq(WP!Messages) /\ Len(channel') <= ChannelCapacity
            /\ WP!InChannel' = WP!InChannel \cup (IF m.type = "Row" THEN {m.row} ELSE {})
            /\ \A i \in DOMAIN channel' : \/ i = Len(channel') /\ channel'[i] = m
                                          \/ i \in DOMAIN channel /\ channel'[i] = channel[i]
            /\ writer \in {"starting", "running"}
        BY <2>2, <2>t, <2>3, SentBehind, Zenon
      <3>2. /\ handle'["demo"] = "waiting" /\ demo' = "waiting"
            /\ handle' \in [{"demo"} -> {"held", "waiting", "returned", "refused"}]
        BY <1>2, <2>1, <2>3
      <3>3. \A i \in DOMAIN channel' : channel'[i].type = "Shutdown" => i = Len(channel')
        BY <2>t, <3>1, Zenon
      <3>4. Lifecycle'
        BY <1>1, <2>t, <3>1, <3>2, <3>3 DEF Lifecycle
      <3>6. WP!InChannel' = WP!InChannel
        BY <2>2, <3>1
      <3>5. Phases'
        BY <1>0, <1>1, <1>6, <3>2 DEF DemoInv, Phases
      <3> QED BY <1>4, <3>1, <3>2, <3>4, <3>5, <3>6
    <2>4. CASE handle' = [handle EXCEPT !["demo"] = "refused"] /\ UNCHANGED channel
      <3>1. /\ handle'["demo"] = "refused" /\ demo' = "error"
            /\ handle' \in [{"demo"} -> {"held", "waiting", "returned", "refused"}]
        BY <1>2, <2>1, <2>4
      <3>2. \A i \in DOMAIN channel' : channel'[i].type # "Shutdown"
        BY <2>1, <2>4, HeldMeansOpen DEF DemoInv
      <3>3. Lifecycle'
        BY <1>1, <2>4, <3>1, <3>2 DEF DemoInv, Lifecycle
      <3>4. Phases'
        BY <3>1 DEF Phases
      <3> QED BY <1>4, <2>4, <3>1, <3>3, <3>4 DEF DemoInv, WriterTyped, WP!InChannel
    <2> QED BY <2>1, <2>3, <2>4
  <1> QED BY <1>0, <1>5, <1>6

\* The drain changes the window of the last row only, which is not sent yet.
LEMMA DrainKeepsDemoInv ==
  ASSUME DemoInv, DemoDrains
  PROVE  DemoInv'
  <1>1. /\ demo = "submitting" /\ sent = Len(FakeRows)
        /\ demo' = "drained" /\ bucket' = Window
        /\ UNCHANGED <<now, start, others, writerVars>>
    BY DEF DemoDrains
  <1>2. Window \in Nat /\ Window > now - FlushInterval /\ Window <= now
    BY WindowTyped DEF DemoInv
  <1>3. now \in Int /\ start \in Int /\ start <= now
    BY Constants DEF DemoInv, DemoTyped
  <1>4. DemoTyped'
    BY <1>1, <1>2, <1>3 DEF DemoInv, DemoTyped
  <1>5. bucket' >= start' - Last
    BY <1>1, <1>2, <1>3, Constants
  <1>6. Phases'
    BY <1>1, <1>5, RowsAlone DEF DemoInv, Phases
  <1>7. ASSUME NEW n \in 1 .. sent PROVE DemoKey(n)' = DemoKey(n)
    <2>1. n <= Len(FakeRows)
      BY <1>1, <1>7, Constants
    <2> QED BY <1>1, <2>1 DEF DemoKey, DemoRow
  <1>8. AllRows' = AllRows /\ sent' = sent /\ failed' = failed
    BY <1>1 DEF writerVars, queueVars, AllRows, WP!InMemory, WP!InChannel, WP!InBatch
  <1>9. Accounted'
    BY <1>7, <1>8 DEF DemoInv, Accounted, StandsFor
  <1> QED BY <1>1, <1>4, <1>6, <1>9, RowsAlone DEF DemoInv

\* What the demo submits next is well-formed.
LEMMA NextRow ==
  ASSUME DemoTyped, sent \in 0 .. Len(FakeRows), NEW row,
         row.key = DemoKey(sent + 1), row.data = DemoRow(sent + 1).row.data
  PROVE  /\ row.key \in [ts : Int, ip : Ips]
         /\ \E s \in Sources : row.key.ip = s.ip /\ row.data = s.data
  <1>t. start \in Int /\ bucket \in Int
    BY Constants DEF DemoTyped
  <1>1. CASE sent + 1 <= Len(FakeRows)
    <2> DEFINE f == FakeRows[sent + 1]
    <2>1. f \in Range(FakeRows) /\ f.age \in Int /\ f.ip \in Ips
      BY <1>1, Constants DEF Ips
    <2>2. row.key = [ts |-> start - f.age, ip |-> f.ip] /\ row.data = f.data
      BY <1>1 DEF DemoKey, DemoRow
    <2> HIDE DEF f
    <2>3. row.key.ip = f.ip /\ row.key \in [ts : Int, ip : Ips]
      BY <1>t, <2>1, <2>2
    <2> QED BY <2>1, <2>2, <2>3 DEF Sources
  <1>2. CASE ~(sent + 1 <= Len(FakeRows))
    <2>1. row.key = [ts |-> bucket, ip |-> AggregatorRow.ip] /\ row.data = AggregatorRow.data
      BY <1>2 DEF DemoKey, DemoRow
    <2>2. AggregatorRow.ip \in Ips /\ AggregatorRow \in Sources
      BY DEF Ips, Sources
    <2>3. row.key.ip = AggregatorRow.ip /\ row.key \in [ts : Int, ip : Ips]
      BY <1>t, <2>1, <2>2
    <2> QED BY <2>1, <2>2, <2>3
  <1> QED BY <1>1, <1>2

LEMMA SubmitKeepsDemoInv ==
  ASSUME DemoInv, DemoSubmits
  PROVE  DemoInv'
  <1> DEFINE k == DemoKey(sent + 1)
             d == DemoRow(sent + 1).row.data
             row == [id |-> sent + 1, key |-> k, data |-> d]
             m == [type |-> "Row", row |-> row]
  <1>0. sent \in Nat
    BY DEF DemoInv, WriterTyped
  <1>1. /\ \/ demo = "submitting" /\ sent < Len(FakeRows)
           \/ demo = "drained" /\ sent = Len(FakeRows)
        /\ UNCHANGED <<now, demo, start, bucket, others>>
        /\ WP!Submit("demo", k, d)
    BY SameHandle DEF DemoSubmits, programVars
  <1>2. /\ handle["demo"] = "held" /\ sent' = sent + 1
        /\ UNCHANGED <<batch, due, writer, table, handle>>
        /\ \/ WP!Send(m) /\ UNCHANGED failed
           \/ ~WP!Open /\ failed' = failed \cup {row} /\ UNCHANGED channel
    BY <1>1 DEF WP!Submit, WP!handleVars
  <1>3. sent \in 0 .. Len(FakeRows) /\ sent + 1 \in Nat \ {0} /\ sent' \in 0 .. Len(FakeRows) + 1
    BY <1>0, <1>1, <1>2, Constants
  <1>4. row.id = sent + 1 /\ row.key = k /\ row.data = d
    OBVIOUS
  <1>5. /\ StandsFor(sent + 1, row)
        /\ row.key \in [ts : Int, ip : Ips]
        /\ \E s \in Sources : row.key.ip = s.ip /\ row.data = s.data
    BY <1>3, <1>4, NextRow DEF DemoInv, StandsFor
  <1>6. row \in WP!Rows
    <2>1. row.data \in {s.data : s \in OtherRows \cup Range(FakeRows) \cup {AggregatorRow}}
      BY <1>5 DEF Sources
    <2> QED BY <1>3, <1>5, <2>1 DEF WP!Rows
  <1>7. m \in WP!Messages /\ m.type = "Row" /\ m.row = row
    BY <1>6 DEF WP!Messages
  <1>t. WriterTyped /\ Lifecycle /\ \A i \in DOMAIN channel : channel[i].type # "Shutdown"
    BY <1>2, HeldMeansOpen DEF DemoInv
  <1> HIDE DEF k, d, row, m
  <1>8. DemoTyped' /\ Phases'
    <2>1. DemoTyped'
      BY <1>1 DEF DemoInv, DemoTyped
    <2>2. demo = "submitting" => sent' <= Len(FakeRows)
      BY <1>0, <1>1, <1>2, Constants
    <2> QED BY <1>1, <1>2, <2>1, <2>2 DEF DemoInv, Phases
  <1>9. CASE WP!Send(m) /\ UNCHANGED failed
    <2>1. /\ channel' \in Seq(WP!Messages) /\ Len(channel') <= ChannelCapacity
          /\ WP!InChannel' = WP!InChannel \cup (IF m.type = "Row" THEN {m.row} ELSE {})
          /\ \A i \in DOMAIN channel' : \/ i = Len(channel') /\ channel'[i] = m
                                        \/ i \in DOMAIN channel /\ channel'[i] = channel[i]
          /\ writer \in {"starting", "running"}
      BY <1>7, <1>t, <1>9, SentBehind, Zenon
    <2>2. \A i \in DOMAIN channel' : channel'[i].type # "Shutdown"
      BY <1>7, <1>t, <2>1
    <2>3. Lifecycle'
      BY <1>2, <1>t, <2>1, <2>2 DEF Lifecycle
    <2>4. AllRows' = AllRows \cup {row}
      BY <1>2, <1>7, <2>1 DEF AllRows, WP!InMemory, WP!InBatch
    <2>5. WriterTyped'
      BY <1>2, <1>3, <1>t, <2>1 DEF WriterTyped
    <2>6. Origin'
      BY <1>5, <2>4 DEF DemoInv, Origin
    <2>7. ASSUME failed' = {}, NEW n \in 1 .. sent' PROVE \E s \in AllRows' : StandsFor(n, s)'
      <3>1. \A s : StandsFor(n, s)' <=> StandsFor(n, s)
        BY <1>1, SameKeys DEF StandsFor
      <3>2. CASE n = sent + 1
        BY <1>5, <2>4, <3>1, <3>2
      <3>3. CASE n # sent + 1
        <4>1. n \in 1 .. sent
          BY <1>2, <1>3, <2>7, <3>3
        <4>2. \E s \in AllRows : StandsFor(n, s)
          BY <1>9, <2>7, <4>1 DEF DemoInv, Accounted
        <4> QED BY <2>4, <3>1, <4>2
      <3> QED BY <3>2, <3>3
    <2>8. Accounted'
      BY <2>7 DEF Accounted
    <2> QED BY <1>8, <2>3, <2>5, <2>6, <2>8 DEF DemoInv
  <1>10. CASE failed' = failed \cup {row} /\ UNCHANGED channel
    <2>1. Accounted'
      BY <1>10 DEF Accounted
    <2>2. AllRows' = AllRows
      BY <1>2, <1>10 DEF AllRows, WP!InMemory, WP!InBatch, WP!InChannel
    <2>3. Origin'
      BY <2>2 DEF DemoInv, Origin
    <2>4. Lifecycle' /\ WriterTyped'
      BY <1>2, <1>3, <1>10, <1>t DEF Lifecycle, WriterTyped
    <2> QED BY <1>8, <2>1, <2>3, <2>4 DEF DemoInv
  <1> QED BY <1>2, <1>9, <1>10

LEMMA ThreadKeepsDemoInv ==
  ASSUME DemoInv, DemoWriter
  PROVE  DemoInv' /\ table \subseteq table' /\ failed \subseteq failed'
  <1>1. demo \notin {"opening", "error"} /\ UNCHANGED <<now, demo, start, bucket, others>>
    BY DEF DemoWriter, programVars
  <1>2. WP!WriterThread \/ WP!DeadlinePasses
    BY SameThread DEF DemoWriter
  <1>3. ThreadEffect
    BY <1>2, ThreadStep DEF DemoInv
  <1>4. DemoTyped' /\ Phases'
    BY <1>1, <1>3 DEF DemoInv, DemoTyped, Phases, ThreadEffect
  <1>5. Origin'
    BY <1>3 DEF DemoInv, Origin, ThreadEffect
  <1>6. ASSUME failed' = {}, NEW n \in 1 .. sent' PROVE \E s \in AllRows' : StandsFor(n, s)'
    <2>1. failed = {} /\ n \in 1 .. sent
      BY <1>3, <1>6 DEF ThreadEffect
    <2>2. PICK r \in AllRows : StandsFor(n, r)
      BY <2>1 DEF DemoInv, Accounted
    <2>3. PICK s \in AllRows' : s.key = r.key
      BY <1>3, <1>6, <2>2 DEF ThreadEffect, KeysStay
    <2>4. StandsFor(n, s)'
      BY <1>1, <2>2, <2>3, SameKeys DEF StandsFor
    <2> QED BY <2>4
  <1>7. Accounted'
    BY <1>6 DEF Accounted
  <1> QED BY <1>3, <1>4, <1>5, <1>7 DEF DemoInv, ThreadEffect

LEMMA KillKeepsDemoInv ==
  ASSUME DemoInv, DemoKilled
  PROVE  DemoInv'
  <1>1. /\ channel' = <<>> /\ batch' = <<>> /\ due' = FALSE /\ writer' = "starting"
        /\ handle' = [c \in {"demo"} |-> "held"] /\ sent' = 0
        /\ demo' = "opening" /\ bucket' = 0 /\ UNCHANGED <<now, start, others, table>>
    BY DEF DemoKilled
  <1>2. DemoTyped'
    BY <1>1, Constants DEF DemoInv, DemoTyped
  <1>3. WriterTyped'
    <2>1. channel' \in Seq(WP!Messages) /\ Len(channel') <= ChannelCapacity /\ batch' \in Seq(WP!Rows)
      BY <1>1, WriterConstants
    <2>2. handle' \in [{"demo"} -> {"held", "waiting", "returned", "refused"}]
      BY <1>1
    <2>3. sent' \in 0 .. Len(FakeRows) + 1
      BY <1>1, Constants
    <2> QED BY <1>1, <2>1, <2>2, <2>3 DEF WriterTyped
  <1>4. Lifecycle' /\ Phases' /\ Accounted'
    BY <1>1 DEF Lifecycle, Phases, Accounted
  <1>5. AllRows' = table
    BY <1>1, WP!EmptySets, WriterConstants DEF AllRows, WP!InMemory, WP!InChannel, WP!InBatch
  <1>6. Origin'
    BY <1>5 DEF DemoInv, Origin, AllRows
  <1> QED BY <1>2, <1>3, <1>4, <1>6 DEF DemoInv

LEMMA CommitKeepsDemoInv ==
  ASSUME DemoInv, CaptureCommits
  PROVE  DemoInv' /\ table \subseteq table' /\ failed' = failed
  <1>1. /\ others < MaxOthers /\ others' = others + 1
        /\ UNCHANGED <<now, demo, start, bucket, channel, batch, due, writer, handle, sent, failed>>
    BY DEF CaptureCommits, queueVars
  <1>2. PICK r \in OtherRows : table' = table \cup WP!Inserted(<<CaptureRow(r)>>)
    BY SameRows DEF CaptureCommits
  <1>3. WP!Inserted(<<CaptureRow(r)>>) \subseteq {CaptureRow(r)}
    BY DEF WP!Inserted
  <1>4. /\ CaptureRow(r).key.ts \in Int /\ CaptureRow(r).key.ip = r.ip
        /\ CaptureRow(r).data = r.data /\ r \in Sources
    BY WindowTyped DEF CaptureRow, DemoInv, Sources
  <1>5. DemoTyped'
    BY <1>1, Constants DEF DemoInv, DemoTyped
  <1>6. WriterTyped' /\ Lifecycle' /\ Phases'
    BY <1>1 DEF DemoInv, WriterTyped, Lifecycle, Phases
  <1>7. AllRows \subseteq AllRows' /\ AllRows' \subseteq AllRows \cup {CaptureRow(r)}
    BY <1>1, <1>2, <1>3 DEF AllRows, WP!InMemory, WP!InChannel, WP!InBatch
  <1>8. Origin'
    BY <1>4, <1>7 DEF DemoInv, Origin
  <1>9. Accounted'
    BY <1>1, <1>7, SameKeys DEF DemoInv, Accounted, StandsFor
  <1> QED BY <1>1, <1>2, <1>5, <1>6, <1>8, <1>9 DEF DemoInv

\* Nothing leaves the table, and a failure is only forgotten in a kill.
Grows == table \subseteq table' /\ (failed \subseteq failed' \/ DemoKilled)

LEMMA DemoInvKept ==
  ASSUME DemoInv, [Next]_vars
  PROVE  DemoInv' /\ Grows
  <1>1. CASE DemoSubmits
    BY <1>1, SubmitKeepsDemoInv DEF Grows, DemoSubmits, W!Submit
  <1>2. CASE DemoFlushes
    BY <1>2, FlushKeepsDemoInv DEF Grows, DemoFlushes, W!Flush, W!fateVars
  <1>3. CASE DemoShutsDown
    BY <1>3, ShutdownKeepsDemoInv DEF Grows, DemoShutsDown, W!Shutdown, W!Await, W!fateVars
  <1>4. CASE DemoOpens("demo", "opening", "submitting") \/ DemoOpens("demoQuery", "reopening", "asserting")
    BY <1>4, OpensKeepDemoInv DEF Grows, DemoOpens, writerVars, queueVars
  <1>5. CASE DemoVerifies \/ CaptureOpens \/ QueryRuns \/ Tick \/ UNCHANGED vars
    BY <1>5, ReadersKeepDemoInv
       DEF Grows, DemoVerifies, CaptureOpens, QueryRuns, Tick, vars, writerVars, queueVars
  <1>6. CASE DemoWriter
    BY <1>6, ThreadKeepsDemoInv DEF Grows
  <1>7. CASE DemoKilled
    BY <1>7, KillKeepsDemoInv DEF Grows, DemoKilled
  <1>8. CASE CaptureCommits
    BY <1>8, CommitKeepsDemoInv DEF Grows
  <1>9. CASE DemoDrains
    BY <1>9, DrainKeepsDemoInv DEF Grows, DemoDrains, writerVars, queueVars
  <1> QED BY <1>1, <1>2, <1>3, <1>4, <1>5, <1>6, <1>7, <1>8, <1>9 DEF Next, DemoMain, Finished

-----------------------------------------------------------------------------
\* The theorems.

\* The inductive invariant holds of every behaviour of the demo, of the capture
\* and of the query that share the file, whenever the demo is killed.
THEOREM DemoInductive == Spec => []DInv
  <1>1. Init => DInv
    BY DInit
  <1>2. DInv /\ [Next]_vars => DInv'
    BY OpensKept, DemoInvKept DEF DInv
  <1> QED BY <1>1, <1>2, PTL DEF Spec

\* Type correctness: every process is at a place of its code, the demo's channel
\* stays within its capacity and its rows are well-formed.
THEOREM DemoTypeCorrect == Spec => []TypeOK
  <1>1. DInv => TypeOK
    BY SameRows DEF DInv, DemoInv, DemoTyped, WriterTyped, JInv, IInv, TypeOK
  <1> QED BY <1>1, DemoInductive, PTL

\* No connection is handed out on a half-initialized database (query.rs:32) and
\* no leftover is in the way of an open, also when the connections of the demo,
\* of its reader, of a capture and of a query are opened at once and the demo
\* is killed with both of its own.
THEOREM SharedOpensAreSafe == Spec => [](OpenMeansComplete /\ UndisturbedOpenSucceeds)
  <1>1. DInv => OpenMeansComplete /\ UndisturbedOpenSucceeds
    BY DEF DInv, JInv, IInv, PastAllMeansAll, OpenMeansVersion, OpenMeansComplete
  <1> QED BY <1>1, DemoInductive, PTL

\* Once the demo's thread is done everything it held is in the table.
LEMMA AllInTable ==
  ASSUME DemoInv, demo \in {"reopening", "asserting", "verified", "panicked"}
  PROVE  AllRows = table /\ sent = Len(FakeRows) + 1
  <1>1. channel = <<>> /\ batch = <<>> /\ sent = Len(FakeRows) + 1
    BY DEF DemoInv, Phases, Lifecycle
  <1> QED BY <1>1, WP!EmptySets, WriterConstants
          DEF AllRows, WP!InMemory, WP!InChannel, WP!InBatch

\* The demo reads its own writes: shutdown() returns (lib.rs:299) only when all
\* rows submitted before it are committed, so that the connection opened next
\* finds them, unless SQLite refused the batch.
THEOREM DemoReadsItsWrites == Spec => []ReadsItsWrites
  <1>1. ASSUME DInv PROVE ReadsItsWrites
    <2> SUFFICES ASSUME demo \in {"reopening", "asserting", "verified", "panicked"}, failed = {},
                        NEW n \in 1 .. Len(FakeRows) + 1
                 PROVE  \E r \in table : r.key = DemoKey(n)
      BY DEF ReadsItsWrites
    <2>1. AllRows = table /\ sent = Len(FakeRows) + 1
      BY <1>1, AllInTable DEF DInv
    <2> QED BY <1>1, <2>1 DEF DInv, DemoInv, Accounted, StandsFor
  <1> QED BY <1>1, DemoInductive, PTL

-----------------------------------------------------------------------------
\* The list of processes.

LEMMA NamesFit == IsFiniteSet(Names) /\ Cardinality(Names) <= ListLimit
  <1> DEFINE N == {FakeRows[i].data.name : i \in DOMAIN FakeRows}
             f == [i \in 1 .. Len(FakeRows) |-> FakeRows[i].data.name]
  <1>1. f \in Surjection(1 .. Len(FakeRows), N)
    BY Constants DEF Surjection
  <1>2. IsFiniteSet(1 .. Len(FakeRows))
    BY Constants, FS_Interval
  <1> HIDE DEF f
  <1>3. IsFiniteSet(N)
    BY <1>1, <1>2, FS_Surjection, Zenon
  <1>4. Names = N \cup {AggregatorRow.data.name} /\ ListLimit = Cardinality(N) + 1
    BY DemoAssumption DEF Names
  <1> HIDE DEF N
  <1>5. Cardinality(N) \in Nat
    BY <1>3, FS_CardinalityType
  <1> QED BY <1>3, <1>4, <1>5, FS_AddElement

\* A limit that is not reached leaves no group out.
LEMMA TopOfFew ==
  ASSUME NEW groups, IsFiniteSet(DOMAIN groups), NEW n \in Nat, Cardinality(DOMAIN groups) <= n,
         NEW S \in Q!Top(groups, n)
  PROVE  S = DOMAIN groups
  <1> DEFINE c == Cardinality(DOMAIN groups)
  <1>1. c \in Nat /\ c <= n
    BY FS_CardinalityType
  <1>2. \A T : Q!Cardinality(T) = Cardinality(T)
    BY DEF Q!Cardinality, Cardinality
  <1>3. S \in SUBSET DOMAIN groups /\ Cardinality(S) = Q!Min({n, c})
    BY <1>2 DEF Q!Top, Q!Largest
  <1> HIDE DEF c
  <1>4. Q!Min({n, c}) = c
    BY <1>1 DEF Q!Min
  <1> QED BY <1>3, <1>4, FS_Subset DEF c

\* GROUP BY proc_name makes a group of every name that a row has.
LEMMA ProcessGroups ==
  ASSUME NEW since
  PROVE  DOMAIN Q!ByProcess(table, since) = {r.data.name : r \in Q!Since(table, since)}
  BY DEF Q!ByProcess, Q!GroupBy

\* The key of the aggregator's row is its own: no generated row has it (their
\* addresses are in 142.250.0.0/16, lib.rs:256), and no capture has a row with it
\* under the name of one of the generated processes.
KeyIsItsOwn ==
  \A r \in OtherRows \cup Range(FakeRows) :
    r.ip = AggregatorRow.ip => r.data.name \notin Names \ {AggregatorRow.data.name}

\* Written, and alone in the last minute, the demo is on its own list.
LEMMA AloneIsListed ==
  ASSUME KeyIsItsOwn, DemoInv, demo = "asserting", failed = {},
         \A r \in Q!Since(table, start - Last) : r.data.name \in Names,
         NEW list \in Q!Top(Q!ByProcess(table, start - Last), ListLimit)
  PROVE  AggregatorRow.data.name \in list
  <1> DEFINE since == start - Last
             groups == Q!ByProcess(table, since)
  <1>1. DOMAIN groups = {r.data.name : r \in Q!Since(table, since)}
    BY ProcessGroups
  <1>2. DOMAIN groups \in SUBSET Names
    BY <1>1
  <1>3. IsFiniteSet(DOMAIN groups) /\ Cardinality(DOMAIN groups) <= ListLimit /\ ListLimit \in Nat
    <2>1. IsFiniteSet(DOMAIN groups) /\ Cardinality(DOMAIN groups) <= Cardinality(Names)
      BY <1>2, NamesFit, FS_Subset
    <2>2. Cardinality(DOMAIN groups) \in Nat /\ Cardinality(Names) \in Nat
      BY <2>1, NamesFit, FS_CardinalityType
    <2>3. ListLimit \in Int
      <3> DEFINE N == {FakeRows[i].data.name : i \in DOMAIN FakeRows}
      <3>1. N \in SUBSET Names /\ ListLimit = Cardinality(N) + 1
        BY DemoAssumption DEF Names
      <3> HIDE DEF N
      <3>2. Cardinality(N) \in Nat
        BY <3>1, NamesFit, FS_Subset, FS_CardinalityType
      <3> QED BY <3>1, <3>2
    <2> HIDE DEF groups
    <2> QED BY <2>1, <2>2, <2>3, NamesFit
  <1>4. list = DOMAIN groups
    <2> HIDE DEF groups
    <2>1. list \in Q!Top(groups, ListLimit)
      BY DEF groups
    <2> QED BY <1>3, <2>1, TopOfFew
  <1>5. AllRows = table /\ sent = Len(FakeRows) + 1
    BY AllInTable
  <1>6. Len(FakeRows) + 1 \in 1 .. sent
    BY <1>5, Constants
  <1>7. PICK r \in table : StandsFor(Len(FakeRows) + 1, r)
    BY <1>5, <1>6 DEF DemoInv, Accounted
  <1>8. r.key.ip = AggregatorRow.ip /\ r.key.ts >= since
    <2>1. r.key = [ts |-> bucket, ip |-> AggregatorRow.ip]
      BY <1>7, Constants DEF StandsFor, DemoKey, DemoRow
    <2> QED BY <2>1 DEF DemoInv, Phases
  <1>9. r \in Q!Since(table, since)
    BY <1>7, <1>8 DEF Q!Since
  <1>10. r.data.name \in Names
    BY <1>9
  <1>11. PICK s \in Sources : r.key.ip = s.ip /\ r.data = s.data
    BY <1>5, <1>7 DEF DemoInv, Origin
  <1>12. r.data.name = AggregatorRow.data.name
    <2>1. CASE s = AggregatorRow
      BY <1>11, <2>1
    <2>2. CASE s \in OtherRows \cup Range(FakeRows)
      BY <1>8, <1>10, <1>11, <2>2 DEF KeyIsItsOwn
    <2> QED BY <1>11, <2>1, <2>2 DEF Sources
  <1> QED BY <1>1, <1>4, <1>9, <1>12

LEMMA PanicSteps ==
  ASSUME [Next]_vars, demo' = "panicked"
  PROVE  start' = start /\ ((demo = "panicked" /\ ~DemoKilled) \/ DemoVerifies)
  <1>1. CASE DemoMain
    BY <1>1 DEF DemoMain, DemoOpens, DemoSubmits, DemoDrains, DemoFlushes, DemoShutsDown,
       DemoVerifies, programVars, DemoKilled
  <1>2. CASE DemoKilled
    BY <1>2 DEF DemoKilled
  <1>3. CASE DemoWriter \/ CaptureOpens \/ CaptureCommits \/ QueryRuns \/ Tick \/ UNCHANGED vars
    BY <1>3 DEF DemoWriter, CaptureOpens, CaptureCommits, QueryRuns, Tick, vars, programVars,
       DemoKilled
  <1> QED BY <1>1, <1>2, <1>3 DEF Next, Finished

\* The demo panics only in company: if the assertion that its last row is
\* listed (lib.rs:327) fails though no batch was refused, then the file has rows
\* of other programs from the last minute.  The limit of the list is one more
\* than the demo has names, so that without company every name is listed.
THEOREM PanicNeedsCompany ==
  ASSUME KeyIsItsOwn
  PROVE  Spec => []PanicsOnlyInCompany
  <1>1. Init => PanicsOnlyInCompany
    BY DEF Init, PanicsOnlyInCompany
  <1>2. ASSUME DInv, PanicsOnlyInCompany, [Next]_vars PROVE PanicsOnlyInCompany'
    <2> SUFFICES ASSUME demo' = "panicked", failed' = {}
                 PROVE  \E r \in Q!Since(table', start' - Last) : r.data.name \notin Names
      BY DEF PanicsOnlyInCompany
    <2>1. start' = start /\ ((demo = "panicked" /\ ~DemoKilled) \/ DemoVerifies)
      BY <1>2, PanicSteps
    <2>2. table \subseteq table' /\ (failed \subseteq failed' \/ DemoKilled)
      BY <1>2, DemoInvKept DEF DInv, Grows
    <2>3. CASE demo = "panicked" /\ ~DemoKilled
      <3>1. failed = {}
        BY <2>2, <2>3
      <3>2. PICK r \in Q!Since(table, start - Last) : r.data.name \notin Names
        BY <1>2, <2>3, <3>1 DEF PanicsOnlyInCompany
      <3>3. r \in Q!Since(table', start' - Last)
        BY <2>1, <2>2 DEF Q!Since
      <3> QED BY <3>2, <3>3
    <2>4. CASE DemoVerifies
      <3>1. demo = "asserting" /\ UNCHANGED <<start, table, failed>>
        BY <2>4 DEF DemoVerifies, writerVars, queueVars
      <3>2. PICK list \in Q!Top(Q!ByProcess(table, start - Last), ListLimit) :
              demo' = IF AggregatorRow.data.name \in list THEN "verified" ELSE "panicked"
        BY <2>4 DEF DemoVerifies
      <3>3. AggregatorRow.data.name \notin list
        BY <3>2
      <3>4. ~ \A r \in Q!Since(table, start - Last) : r.data.name \in Names
        BY <1>2, <3>1, <3>3, AloneIsListed DEF DInv
      <3> QED BY <3>1, <3>4
    <2> QED BY <2>1, <2>3, <2>4
  <1> QED BY <1>1, <1>2, DemoInductive, PTL DEF Spec

-----------------------------------------------------------------------------
\* The sums of the queries.

LEMMA InsertedIsFinite ==
  ASSUME NEW rows \in Seq(WP!Rows)
  PROVE  IsFiniteSet(WP!Inserted(rows))
  <1> DEFINE J == {j \in DOMAIN rows : rows[j] \in WP!Inserted(rows)}
             f == [j \in J |-> rows[j]]
  <1>1. IsFiniteSet(J)
    <2>1. DOMAIN rows = 1 .. Len(rows) /\ Len(rows) \in Nat
      OBVIOUS
    <2>2. IsFiniteSet(1 .. Len(rows))
      BY <2>1, FS_Interval
    <2> QED BY <2>1, <2>2, FS_Subset
  <1>2. WP!Inserted(rows) \subseteq {rows[j] : j \in DOMAIN rows}
    BY DEF WP!Inserted
  <1>3. f \in Surjection(J, WP!Inserted(rows))
    <2> HIDE DEF J
    <2>1. \A r \in WP!Inserted(rows) : \E j \in J : rows[j] = r
      BY <1>2 DEF J
    <2>2. \A j \in J : rows[j] \in WP!Inserted(rows)
      BY DEF J
    <2> QED BY <2>1, <2>2 DEF Surjection
  <1> QED BY <1>1, <1>3, FS_Surjection

\* A step adds the rows of a batch to the table, or none.
LEMMA TableSteps ==
  ASSUME DemoInv, [Next]_vars
  PROVE  \E new : IsFiniteSet(new) /\ table' = table \cup new
  <1>0. ASSUME table' = table PROVE \E new : IsFiniteSet(new) /\ table' = table \cup new
    <2>1. IsFiniteSet({}) /\ table' = table \cup {}
      BY <1>0, FS_EmptySet
    <2> QED BY <2>1
  <1>1. CASE DemoWriter
    <2>1. WP!WriterThread \/ WP!DeadlinePasses
      BY <1>1, SameThread DEF DemoWriter
    <2>2. batch \in Seq(WP!Rows)
      BY DEF DemoInv, WriterTyped
    <2>3. CASE WP!RecvRow
      <3>1. Append(batch, Head(channel).row) \in Seq(WP!Rows)
        <4>1. channel # <<>> /\ Head(channel).type = "Row" /\ channel \in Seq(WP!Messages)
          BY <2>3 DEF WP!RecvRow, WP!Receive, DemoInv, WriterTyped
        <4>2. Head(channel).row \in WP!Rows
          BY <4>1, WP!RowMessage, WriterConstants
        <4> QED BY <2>2, <4>2
      <3>2. \/ table' = table
            \/ table' = table \cup WP!Inserted(Append(batch, Head(channel).row))
        BY <2>3 DEF WP!RecvRow, WP!FlushBatch, WP!CommitRows, WP!LoseRows, WP!fateVars
      <3> QED BY <1>0, <3>1, <3>2, InsertedIsFinite
    <2>4. CASE ~WP!RecvRow
      <3>1. table' = table \/ table' = table \cup WP!Inserted(batch)
        BY <2>1, <2>4
           DEF WP!WriterThread, WP!Prepare, WP!RecvFlush, WP!RecvShutdown, WP!Timeout,
               WP!Disconnected, WP!SignalDone, WP!DeadlinePasses, WP!Exit, WP!FlushBatch,
               WP!CommitRows, WP!LoseRows, WP!fateVars
      <3> QED BY <1>0, <2>2, <3>1, InsertedIsFinite
    <2> QED BY <2>3, <2>4
  <1>2. CASE CaptureCommits
    <2>1. PICK r \in OtherRows : table' = table \cup WP!Inserted(<<CaptureRow(r)>>)
      BY <1>2, SameRows DEF CaptureCommits
    <2>2. WP!Inserted(<<CaptureRow(r)>>) = {} \/ WP!Inserted(<<CaptureRow(r)>>) = {CaptureRow(r)}
      BY DEF WP!Inserted
    <2>3. IsFiniteSet(WP!Inserted(<<CaptureRow(r)>>))
      BY <2>2, FS_EmptySet, FS_Singleton
    <2> QED BY <2>1, <2>3
  <1>3. CASE ~DemoWriter /\ ~CaptureCommits
    BY <1>0, <1>3 DEF Next, DemoMain, Finished, DemoSubmits, DemoDrains, DemoFlushes, DemoShutsDown,
       DemoOpens, DemoVerifies, DemoKilled, CaptureOpens, QueryRuns, Tick, vars, writerVars, queueVars,
       W!Submit, W!Flush, W!Shutdown, W!Await, W!fateVars
  <1> QED BY <1>1, <1>2, <1>3

\* The table is finite and its bytes are not negative.
LEMMA TableCounted == Spec => [](DInv /\ QP!Counted(table))
  <1>1. Init => IsFiniteSet(table)
    BY FS_EmptySet DEF Init, W!Init
  <1>2. DInv /\ IsFiniteSet(table) /\ [Next]_vars => IsFiniteSet(table)'
    BY TableSteps, FS_Union DEF DInv
  <1>3. DInv /\ IsFiniteSet(table) => QP!Counted(table)
    <2> SUFFICES ASSUME DInv, NEW r \in table PROVE r.data.bytes \in Nat
      BY DEF QP!Counted, QP!IsFiniteSet, IsFiniteSet
    <2>1. PICK s \in Sources : r.data = s.data
      BY DEF DInv, DemoInv, Origin, AllRows
    <2> QED BY <2>1, DemoAssumption DEF Sources
  <1> QED BY <1>1, <1>2, <1>3, DemoInductive, PTL DEF Spec

LEMMA SameQueries ==
  /\ \A rows, since : Q!TotalSince(rows, since) = QP!TotalSince(rows, since)
  /\ \A rows, since : Q!ByDomain(rows, since) = QP!ByDomain(rows, since)
  /\ \A rows, since : Q!ByProcess(rows, since) = QP!ByProcess(rows, since)
  /\ \A rows, since, b : Q!RateSeries(rows, since, b) = QP!RateSeries(rows, since, b)
  /\ \A groups : Q!MapThenSumSet(LAMBDA k : groups[k], DOMAIN groups) = QP!GroupSum(groups)
  <1>1. \A rows : Q!Bytes(rows) = QP!Bytes(rows)
    BY DEF Q!Bytes, QP!Bytes, Q!MapThenSumSet, QP!MapThenSumSet, Q!MapThenFoldSet,
       QP!MapThenFoldSet
  <1>2. \A key : Q!GroupBy(key) = QP!GroupBy(key)
    BY <1>1 DEF Q!GroupBy, QP!GroupBy
  <1>3. \A rows, since : Q!Since(rows, since) = QP!Since(rows, since)
    BY DEF Q!Since, QP!Since
  <1>4. \A groups : Q!MapThenSumSet(LAMBDA k : groups[k], DOMAIN groups) = QP!GroupSum(groups)
    BY DEF QP!GroupSum, Q!MapThenSumSet, QP!MapThenSumSet, Q!MapThenFoldSet, QP!MapThenFoldSet
  <1> QED BY <1>1, <1>2, <1>3, <1>4
          DEF Q!TotalSince, QP!TotalSince, Q!ByDomain, QP!ByDomain, Q!ByProcess, QP!ByProcess,
              Q!RateSeries, QP!RateSeries

\* The lists of the queries account for every byte, whatever the demo and the
\* capture have committed, and wherever the moment they look back to cuts a
\* window.
THEOREM GroupsAlwaysAddUp == Spec => []GroupsAddUp
  <1>1. QP!Counted(table) => GroupsAddUp
    BY SameQueries, QP!GroupingsAddUp DEF GroupsAddUp
  <1> QED BY <1>1, TableCounted, PTL

\* No commit, by whomever, makes a later query answer less (query.rs:148).
THEOREM TotalsOnlyGrow == Spec => TotalsNeverShrink
  <1>1. ASSUME DInv, QP!Counted(table)', [Next]_vars, NEW since
        PROVE  Q!TotalSince(table, since) <= Q!TotalSince(table', since)
    <2>1. table \subseteq table'
      BY <1>1, DemoInvKept DEF DInv, Grows
    <2> QED BY <1>1, <2>1, SameQueries, QP!TotalsGrow DEF QP!Counted
  <1>2. DInv /\ QP!Counted(table)' /\ [Next]_vars =>
          [table' # table => \A since \in 0 .. MaxTime :
              Q!TotalSince(table, since) <= Q!TotalSince(table', since)]_vars
    BY <1>1
  <1> QED BY <1>2, TableCounted, PTL DEF Spec, TotalsNeverShrink
=============================================================================
