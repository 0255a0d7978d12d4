--------------------------------- MODULE Demo ---------------------------------
(***************************************************************************)
(* One database, several processes: bandwith --demo (run_demo of           *)
(* src/src/lib.rs), a capture that commits rows, and bandwith query        *)
(* (run_query).  Each opens the file (Schema); the demo writes its rows    *)
(* through a writer thread of its own (Writer), shuts it down, opens the   *)
(* file again to read (Queries) and asserts that its last row is listed.   *)
(* A killed demo is started again.  The demo's lookup of a name, which     *)
(* comes last, is left out.                                                *)
(***************************************************************************)
EXTENDS Schema, FiniteSets

CONSTANTS
  FakeRows,       \* the demo's generated rows, with their age at its start
  AggregatorRow,  \* what its aggregator makes of ten events of one flow
  NoDomain,       \* no domain
  OtherRows,      \* what a capture may commit: ip and data of a row
  Last,           \* the minute the lists look back, in ticks
  ListLimit,      \* their limit
  FlushInterval,  \* see FlowAggregator
  BatchSize, ChannelCapacity, WriterFaults,  \* see Writer
  MaxOthers,      \* bound of the model: commits of the capture
  MaxTime         \* bound of the model: the clock

ASSUME DemoAssumption ==
  /\ Openers = {"demo", "demoQuery", "capture", "query"}
  /\ ReadOnly = {"demoQuery", "query"}
  /\ FakeRows \in Seq(Range(FakeRows)) /\ \A r \in Range(FakeRows) : r.age \in 0 .. Last
  /\ \A r \in OtherRows \cup Range(FakeRows) \cup {AggregatorRow} : r.data.bytes \in Nat
  /\ FlushInterval \in Nat \ {0} /\ Last \in Nat /\ Last >= FlushInterval
  /\ ListLimit = Cardinality({FakeRows[i].data.name : i \in DOMAIN FakeRows}) + 1
  /\ MaxOthers \in Nat /\ MaxTime \in Nat /\ MaxTime >= Last

VARIABLES
  now,     \* the clock
  demo,    \* the demo's main thread
  start,   \* its now_ms
  bucket,  \* the window its aggregator's row is stamped with
  others,  \* number of commits of the capture
  channel, batch, due, writer, table, handle, sent, mark, ignored, failed, dropped

Names == {FakeRows[i].data.name : i \in DOMAIN FakeRows} \cup {AggregatorRow.data.name}
Ips == {FakeRows[i].ip : i \in DOMAIN FakeRows} \cup {AggregatorRow.ip}
         \cup {r.ip : r \in OtherRows}

W == INSTANCE Writer WITH Clients <- {"demo"}, Keys <- [ts : Int, ip : Ips],
       Data <- {r.data : r \in OtherRows \cup Range(FakeRows) \cup {AggregatorRow}},
       Faults <- WriterFaults, MaxRows <- Len(FakeRows) + 1
Q == INSTANCE Queries

ASSUME ComponentAssumption == W!WriterAssumption

queueVars == <<channel, batch, due, writer, handle, sent, mark, ignored, failed, dropped>>
writerVars == <<table, queueVars>>
programVars == <<now, demo, start, bucket, others>>
vars == <<programVars, schemaVars, writerVars>>

-----------------------------------------------------------------------------
\* The demo.

\* One of its connections is opened, or not.
DemoOpens(o, at, next) ==
  /\ demo = at
  /\ \/ opener[o].pc = "closed" /\ Connect(o) /\ UNCHANGED demo
     \/ RunMigrations(o)
        /\ demo' = CASE opener'[o].pc = "open"   -> next
                     [] opener'[o].pc = "failed" -> "error"
                     [] OTHER                    -> demo
  /\ start' = IF demo' = "submitting" THEN now ELSE start
  /\ UNCHANGED <<now, bucket, others, writerVars>>

Window == (now \div FlushInterval) * FlushInterval

\* Row n of the demo: a generated one, or at last the aggregator's.
DemoRow(n) ==
  IF n <= Len(FakeRows)
  THEN [ts |-> start - FakeRows[n].age, row |-> FakeRows[n]]
  ELSE [ts |-> bucket, row |-> AggregatorRow]

DemoKey(n) == [ts |-> DemoRow(n).ts, ip |-> DemoRow(n).row.ip]

\* flush_now drains the aggregator once the generated rows are submitted.
DemoDrains ==
  /\ demo = "submitting" /\ sent = Len(FakeRows)
  /\ demo' = "drained"
  /\ bucket' = Window
  /\ UNCHANGED <<now, start, others, schemaVars, writerVars>>

DemoSubmits ==
  /\ \/ demo = "submitting" /\ sent < Len(FakeRows)
     \/ demo = "drained" /\ sent = Len(FakeRows)
  /\ W!Submit("demo", DemoKey(sent + 1), DemoRow(sent + 1).row.data)
  /\ UNCHANGED <<programVars, schemaVars>>

\* flush_now and the demo itself each send a Flush.
DemoFlushes ==
  /\ sent = Len(FakeRows) + 1
  /\ \/ demo = "drained" /\ demo' = "flushing"
     \/ demo = "flushing" /\ demo' = "stopping"
  /\ W!Flush("demo")
  /\ UNCHANGED <<now, start, bucket, others, schemaVars>>

\* Variant: shutdown() does not wait for the writer thread.
DemoHurries ==
  /\ demo = "stopping" /\ W!Shutdown("demo") /\ demo' = "reopening"
  /\ UNCHANGED <<now, start, bucket, others, schemaVars>>

\* A writer thread that is gone refuses: the ? ends the demo with an error.
DemoShutsDown ==
  /\ \/ /\ demo = "stopping"
        /\ W!Shutdown("demo")
        /\ demo' = IF handle'["demo"] = "waiting" THEN "waiting" ELSE "error"
     \/ demo = "waiting" /\ W!Await("demo") /\ demo' = "reopening"
  /\ UNCHANGED <<now, start, bucket, others, schemaVars>>

\* top_processes(now_ms - 60_000, 5) and the assertion on it.
DemoVerifies ==
  /\ demo = "asserting"
  /\ \E list \in Q!Top(Q!ByProcess(table, start - Last), ListLimit) :
       demo' = IF AggregatorRow.data.name \in list THEN "verified" ELSE "panicked"
  /\ UNCHANGED <<now, start, bucket, others, schemaVars, writerVars>>

DemoMain ==
  \/ DemoOpens("demo", "opening", "submitting")
  \/ DemoSubmits \/ DemoDrains \/ DemoFlushes \/ DemoShutsDown
  \/ DemoOpens("demoQuery", "reopening", "asserting")
  \/ DemoVerifies

DemoWriter ==
  /\ demo \notin {"opening", "error"}
  /\ W!WriterThread \/ W!DeadlinePasses
  /\ UNCHANGED <<programVars, schemaVars>>

\* The demo is killed, and started again: what its writer held is gone.
DemoKilled ==
  /\ demo \notin {"verified", "panicked", "error"}
  /\ opens["demo"] < MaxOpens["demo"]
  /\ demo' = "opening" /\ bucket' = 0
  /\ opener' = [opener EXCEPT !["demo"] = Closed, !["demoQuery"] = Closed]
  /\ excused' = [o \in Openers |-> o # "demo" /\ o # "demoQuery" /\ (excused[o] \/ Busy(o))]
  /\ channel' = <<>> /\ batch' = <<>> /\ due' = FALSE /\ writer' = "starting"
  /\ handle' = [c \in {"demo"} |-> "held"] /\ sent' = 0 /\ mark' = [c \in {"demo"} |-> 0]
  /\ ignored' = {} /\ failed' = {} /\ dropped' = {}
  /\ UNCHANGED <<now, start, others, dbVars, opens, table>>

-----------------------------------------------------------------------------
\* The other processes.

CaptureOpens ==
  /\ Connect("capture") \/ RunMigrations("capture") \/ Close("capture")
  /\ UNCHANGED <<programVars, writerVars>>

CaptureRow(r) == [id |-> 0, key |-> [ts |-> Window, ip |-> r.ip], data |-> r.data]

\* Variant: INSERT OR REPLACE.
CaptureReplaces ==
  /\ opener["capture"].pc = "open"
  /\ others < MaxOthers
  /\ others' = others + 1
  /\ \E r \in OtherRows :
       table' = {t \in table : t.key # CaptureRow(r).key} \cup {CaptureRow(r)}
  /\ UNCHANGED <<now, demo, start, bucket, schemaVars, queueVars>>

CaptureCommits ==
  /\ opener["capture"].pc = "open"
  /\ others < MaxOthers
  /\ others' = others + 1
  /\ \E r \in OtherRows : table' = table \cup W!Inserted(<<CaptureRow(r)>>)
  /\ UNCHANGED <<now, demo, start, bucket, schemaVars, queueVars>>

\* run_query opens the file, reads and prints.
QueryRuns ==
  /\ Connect("query") \/ RunMigrations("query") \/ Close("query")
  /\ UNCHANGED <<programVars, writerVars>>

Tick ==
  /\ now < MaxTime
  /\ now' = now + 1
  /\ UNCHANGED <<demo, start, bucket, others, schemaVars, writerVars>>

-----------------------------------------------------------------------------
Init ==
  /\ SchemaInit /\ W!Init
  /\ now = Last
  /\ demo = "opening"
  /\ start = now /\ bucket = 0
  /\ others = 0

Finished == demo \in {"verified", "panicked", "error"} /\ UNCHANGED vars

Next ==
  \/ DemoMain \/ DemoWriter \/ DemoKilled
  \/ CaptureOpens \/ CaptureCommits \/ QueryRuns
  \/ Tick \/ Finished

Spec == Init /\ [][Next]_vars
-----------------------------------------------------------------------------
\* Properties.

TypeOK ==
  /\ SchemaTypeOK
  /\ channel \in Seq(W!Messages) /\ Len(channel) <= ChannelCapacity
  /\ batch \in Seq(W!Rows)
  /\ now \in Last .. MaxTime /\ start \in Last .. now /\ bucket \in 0 .. now
  /\ demo \in {"opening", "submitting", "drained", "flushing", "stopping", "waiting",
               "reopening", "asserting", "verified", "panicked", "error"}
  /\ others \in 0 .. MaxOthers

\* The demo reads its own writes: when shutdown() has returned, every row it
\* submitted, its aggregator's included (lib.rs:327), is in the file for the
\* connection it opens next, or a row of the same key from before (a killed
\* demo in the same window), unless SQLite refused the batch.
ReadsItsWrites ==
  demo \in {"reopening", "asserting", "verified", "panicked"} /\ failed = {} =>
    \A n \in 1 .. Len(FakeRows) + 1 : \E r \in table : r.key = DemoKey(n)

\* The demo panics only in company: if its batch was written, its list of
\* processes lacks its own only when the file has rows of other programs from
\* the last minute (lib.rs:327 takes absence from the list for a missing row).
PanicsOnlyInCompany ==
  demo = "panicked" /\ failed = {} =>
    \E r \in Q!Since(table, start - Last) : r.data.name \notin Names

\* The three groupings are partitions of the rows since any moment: their sums
\* add up to total_since, with rows of no domain and of clipped windows.
GroupsAddUp ==
  \A since \in {start - Last, start} :
    \A groups \in {Q!ByDomain(table, since), Q!ByProcess(table, since),
                   Q!RateSeries(table, since, 2 * FlushInterval)} :
      Q!MapThenSumSet(LAMBDA k : groups[k], DOMAIN groups) = Q!TotalSince(table, since)

\* Totals never shrink between two queries, whoever commits in between.
TotalsNeverShrink ==
  [][table' # table =>
       \A since \in 0 .. MaxTime : Q!TotalSince(table, since) <= Q!TotalSince(table', since)]_vars

\* lib.rs:327 "aggregator row should be in DB".
DemoRowListed == demo # "panicked"
=============================================================================
