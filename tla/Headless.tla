------------------------------- MODULE Headless -------------------------------
(***************************************************************************)
(* The capture program, bandwith --headless: run_headless of               *)
(* src/src/lib.rs and EtwCapture::run of src/src/capture/etw.rs.           *)
(*                                                                         *)
(* An ETW callback feeds a bounded channel of events; the aggregator       *)
(* thread sums them (FlowAggregator), asks for names (Resolver) and        *)
(* submits rows to the writer thread (Writer).  A timer thread may set the *)
(* stop flag, which the ETW thread polls; the main thread joins the others *)
(* and shuts the writer down.  ETW itself (sessions, ProcessTrace,         *)
(* ControlTrace) is modelled from the calls made to it.                    *)
(*                                                                         *)
(* The program may be killed at any point and started again, as it may     *)
(* after it has returned: the database is all that it keeps.  The wall     *)
(* clock is not set (see FlowAggregator for one that is).                  *)
(***************************************************************************)
EXTENDS Integers, Sequences, FiniteSets, Functions

CONSTANTS
  FlowKeys, ProcNames, Domains, None, FlushInterval,  \* see FlowAggregator
  Processes,        \* what a process snapshot yields: pid -> name
  PublicIps, RequestCapacity, ResultCapacity, PositiveTtl, NegativeTtl,
  CacheCapacity, LookupTimeout, Driven,               \* see Resolver
  BatchSize, ChannelCapacity, WriterFaults,           \* see Writer
  EventCapacity,    \* capacity of the channel of ConnEvents
  RecvTimeout,      \* the aggregator's recv_timeout, in ticks
  EtwFaults,        \* ETW calls that may fail
  MaxEvents, MaxTime,  \* bounds of the model
  MaxRuns           \* bound of the model: starts of the program

ASSUME HeadlessAssumption ==
  /\ EventCapacity \in Nat \ {0}
  /\ RecvTimeout \in Nat \ {0}
  /\ EtwFaults \subseteq {"start", "process", "control"}
  /\ DOMAIN Processes \subseteq {f.pid : f \in FlowKeys}
  /\ \A p \in DOMAIN Processes : Processes[p] \in ProcNames
  /\ MaxRuns \in Nat \ {0}

VARIABLES
  now, flows, procNames, domains, lastFlush,
  observed,   \* see FlowAggregator, but for the events a kill took from its map
  drained,
  requests, results, worker, cache, answered,
  channel, batch, due, writer, table, handle, sent, mark, ignored, failed, dropped,
  main,       \* the main thread
  timer,      \* the shutdown-signal thread: "sleeping", "gone"
  stop,       \* the AtomicBool "shutdown"
  etw,        \* the ETW thread: "starting", "polling", "joining", "gone"
  session,    \* the ETW session exists
  trace,      \* the thread in ProcessTrace: "off", "processing", "ended"
  inHand,     \* the event whose callback is in tx.send, if any
  events,     \* the channel of ConnEvents
  captured,   \* number of events whose callback was called
  agg,        \* the aggregator: "top", "waiting", "flushing", "sending", "gone"
  final,      \* its flush is the last one
  outbox,     \* drained rows it has not submitted yet
  idleSince,  \* when it called recv_timeout
  lastEvent,  \* history: when it last observed an event
  runs,       \* number of starts of the program
  lost        \* history: events that were in the memory of a killed run

\* The wall clock is ahead by nothing, and that never changes.
A == INSTANCE FlowAggregator WITH MaxSkew <- 0, skew <- 0, setBack <- 0 > MaxTime
R == INSTANCE Resolver WITH Ips <- A!Ips, Names <- Domains, NoName <- None
\* A row stands for at least one event.
W == INSTANCE Writer WITH Clients <- {"main", "agg"}, Keys <- A!RowKeys,
       Data <- A!RowData, Faults <- WriterFaults, MaxRows <- MaxEvents

ASSUME ComponentAssumptions ==
  A!AggregatorAssumption /\ R!ResolverAssumption /\ W!WriterAssumption

aggVars == <<flows, procNames, domains, lastFlush, observed, drained>>
dnsVars == <<requests, results, worker, cache, answered>>
writerVars == <<channel, batch, due, writer, table, handle, sent, mark,
                ignored, failed, dropped>>
etwVars == <<etw, session, trace, inHand, captured>>
loopVars == <<agg, final, outbox, idleSince, lastEvent>>
ctlVars == <<main, timer, stop>>
runVars == <<runs, lost>>
processVars == <<aggVars, dnsVars, writerVars, ctlVars, etwVars, events, loopVars>>
runningVars == <<now, processVars>>
vars == <<runningVars, runVars>>

\* Variant: a second Sender that nobody drops.
TxOpenForever == TRUE

\* The callback, hence the trace object, owns the only Sender of events.
TxOpen == etw # "gone"

-----------------------------------------------------------------------------
\* The ETW thread and the thread that runs ProcessTrace.

EtwStart ==
  /\ etw = "starting"
  /\ \/ etw' = "polling" /\ session' = TRUE /\ trace' = "processing"
     \/ "start" \in EtwFaults /\ etw' = "gone" /\ UNCHANGED <<session, trace>>
  /\ UNCHANGED <<inHand, captured>>

\* A ControlTrace that fails is only logged.
StopEtwSession ==
  \/ session' = FALSE
  \/ "control" \in EtwFaults /\ UNCHANGED session

EtwSeesStop ==
  /\ etw = "polling"
  /\ stop
  /\ etw' = "joining"
  /\ StopEtwSession
  /\ UNCHANGED <<trace, inHand, captured>>

\* The scope joins its thread; run() returns and drops the trace.
EtwJoin ==
  /\ etw = "joining"
  /\ trace = "ended"
  /\ etw' = "gone"
  /\ UNCHANGED <<session, trace, inHand, captured>>

\* ProcessTrace delivers one event at a time, also those that were buffered
\* when the session stopped.
Callback(f, dir) ==
  /\ trace = "processing"
  /\ inHand = <<>>
  /\ captured < MaxEvents
  /\ captured' = captured + 1
  /\ inHand' = <<[id |-> captured + 1, flow |-> f, dir |-> dir]>>
  /\ UNCHANGED <<etw, session, trace, events>>

\* Variant: an unbounded channel of events.
CallbackSendsUnbounded ==
  /\ inHand # <<>>
  /\ events' = events \o inHand
  /\ inHand' = <<>>
  /\ UNCHANGED <<etw, session, trace, captured>>

CallbackSends ==
  /\ inHand # <<>>
  /\ Len(events) < EventCapacity
  /\ events' = events \o inHand
  /\ inHand' = <<>>
  /\ UNCHANGED <<etw, session, trace, captured>>

\* It returns when the session is gone, and may fail earlier.
TraceEnds ==
  /\ trace = "processing"
  /\ inHand = <<>>
  /\ ~session \/ "process" \in EtwFaults
  /\ trace' = "ended"
  /\ UNCHANGED <<etw, session, inHand, captured, events>>

EtwThread ==
  /\ EtwStart \/ EtwSeesStop \/ EtwJoin
  /\ UNCHANGED <<now, aggVars, dnsVars, writerVars, ctlVars, events, loopVars>>

Traffic ==
  /\ \E f \in FlowKeys, dir \in {"in", "out"} : Callback(f, dir)
  /\ UNCHANGED <<now, aggVars, dnsVars, writerVars, ctlVars, loopVars>>

TraceThread ==
  /\ CallbackSends \/ TraceEnds
  /\ UNCHANGED <<now, aggVars, dnsVars, writerVars, ctlVars, loopVars>>

-----------------------------------------------------------------------------
\* The aggregator thread.

TakeResult ==
  LET result == Head(results) IN
  /\ agg = "top"
  /\ R!TakeResult
  /\ \/ result.name # None /\ A!UpdateDomain(result.ip, result.name)
     \/ result.name = None /\ UNCHANGED aggVars
  /\ UNCHANGED <<writerVars, events, loopVars>>

StartWaiting ==
  /\ agg = "top"
  /\ results = <<>>
  /\ agg' = "waiting"
  /\ idleSince' = now
  /\ UNCHANGED <<now, aggVars, dnsVars, writerVars, events, final, outbox, lastEvent>>

RecvEvent ==
  LET e == Head(events) IN
  /\ agg = "waiting"
  /\ events # <<>>
  /\ events' = Tail(events)
  /\ R!Request(e.flow.ip)
  /\ A!Observe(e)
  /\ agg' = "top"
  /\ lastEvent' = now
  /\ UNCHANGED <<writerVars, final, outbox, idleSince>>

\* refresh() may fail, the names are then as they were.
RefreshNames == A!UpdateProcNames(Processes) \/ UNCHANGED <<now, aggVars>>

TimeoutDue == agg = "waiting" /\ now - idleSince >= RecvTimeout

RecvTimedOut ==
  /\ TimeoutDue
  /\ events = <<>>
  /\ TxOpen
  /\ RefreshNames
  /\ agg' = "flushing"
  /\ UNCHANGED <<dnsVars, writerVars, events, final, outbox, idleSince, lastEvent>>

RecvDisconnected ==
  /\ agg = "waiting"
  /\ events = <<>>
  /\ ~TxOpen
  /\ RefreshNames
  /\ agg' = "flushing"
  /\ final' = TRUE
  /\ UNCHANGED <<dnsVars, writerVars, events, outbox, idleSince, lastEvent>>

\* maybe_flush, or flush_now at the end: drain, then submit row after row.
DrainRows ==
  /\ agg = "flushing"
  /\ \/ ~final /\ A!MaybeFlush
     \/ final /\ A!FlushNow
  /\ agg' = "sending"
  /\ outbox' = A!RowsNow
  /\ UNCHANGED <<dnsVars, writerVars, events, final, idleSince, lastEvent>>

NotYet ==
  /\ agg = "flushing"
  /\ ~final
  /\ ~A!ShouldFlush
  /\ agg' = "top"
  /\ UNCHANGED <<now, aggVars, dnsVars, writerVars, events, final, outbox,
                 idleSince, lastEvent>>

SubmitRow ==
  /\ agg = "sending"
  /\ \E r \in outbox :
       /\ W!Submit("agg", r.key, r.data)
       /\ outbox' = outbox \ {r}
  /\ UNCHANGED <<now, aggVars, dnsVars, events, agg, final, idleSince, lastEvent>>

FlushWriter ==
  /\ agg = "sending"
  /\ outbox = {}
  /\ W!Flush("agg")
  /\ agg' = IF final THEN "exiting" ELSE "top"
  /\ UNCHANGED <<now, aggVars, dnsVars, events, final, outbox, idleSince, lastEvent>>

AggregatorExits ==
  /\ agg = "exiting"
  /\ W!DropHandle("agg")
  /\ agg' = "gone"
  /\ UNCHANGED <<now, aggVars, dnsVars, events, final, outbox, idleSince, lastEvent>>

AggThread ==
  /\ \/ TakeResult \/ StartWaiting \/ RecvEvent
     \/ RecvTimedOut \/ RecvDisconnected \/ DrainRows \/ NotYet
     \/ SubmitRow \/ FlushWriter \/ AggregatorExits
  /\ UNCHANGED <<ctlVars, etwVars>>

-----------------------------------------------------------------------------
\* The main thread, the timer, the writer thread, the DNS task, the clock.

\* Without BANDWITH_HEADLESS_SECS, or with one that does not parse, the timer
\* thread returns at once.
TimerThread ==
  /\ timer = "sleeping"
  /\ timer' = "gone"
  /\ stop' = TRUE
  /\ UNCHANGED <<now, aggVars, dnsVars, writerVars, main, etwVars, events, loopVars>>

Join(at, joined, next) ==
  /\ main = at
  /\ joined
  /\ main' = next
  /\ UNCHANGED writerVars

\* Variant: the writer is shut down while the aggregator still runs.
AggUnjoined == Join("joinAgg", TRUE, "joinTimer")

JoinAgg == Join("joinAgg", agg = "gone", "joinTimer")

ShutdownWriter ==
  /\ main = "shutdown"
  /\ W!Shutdown("main")
  /\ main' = IF handle'["main"] = "waiting" THEN "awaiting" ELSE "returned"

MainReturns ==
  /\ main = "awaiting"
  /\ W!Await("main")
  /\ main' = "returned"

MainThread ==
  /\ \/ Join("joinEtw", etw = "gone", "joinAgg")
     \/ JoinAgg
     \/ Join("joinTimer", timer = "gone", "shutdown")
     \/ ShutdownWriter
     \/ MainReturns
  /\ UNCHANGED <<now, aggVars, dnsVars, timer, stop, etwVars, events, loopVars>>

WriterThread ==
  /\ W!WriterThread
  /\ UNCHANGED <<now, aggVars, dnsVars, ctlVars, etwVars, events, loopVars>>

WriterDeadline ==
  /\ W!DeadlinePasses
  /\ UNCHANGED <<now, aggVars, dnsVars, ctlVars, etwVars, events, loopVars>>

DnsTask ==
  /\ R!Worker
  /\ UNCHANGED <<now, aggVars, writerVars, ctlVars, etwVars, events, loopVars>>

Tick ==
  /\ R!Tick
  /\ UNCHANGED <<aggVars, writerVars, ctlVars, etwVars, events, loopVars>>

-----------------------------------------------------------------------------
\* Starting, and starting again.

Init ==
  /\ A!Init /\ R!Init /\ W!Init
  /\ main = "joinEtw"
  /\ timer \in {"sleeping", "gone"}
  /\ stop = FALSE
  /\ etw = "starting"
  /\ session = FALSE
  /\ trace = "off"
  /\ inHand = <<>>
  /\ events = <<>>
  /\ captured = 0
  /\ agg = "top"
  /\ final = FALSE
  /\ outbox = {}
  /\ idleSince = 0
  /\ lastEvent = 0
  /\ runs = 1
  /\ lost = {}

EventsIn(rows) == UNION {A!Sum(r.data) : r \in rows}

OnTheWay == <<Range(inHand), Range(events), UNION {A!Sum(flows[f]) : f \in FlowKeys},
              EventsIn(outbox), EventsIn(W!InChannel), EventsIn(W!InBatch)>>

\* A kill, or the return of run_headless, and the next start.  The ETW session
\* of a killed process lives on under a name that no other run uses.
Restart ==
  /\ runs < MaxRuns
  /\ runs' = runs + 1
  /\ lost' = lost \cup UNION Range(OnTheWay)
  /\ flows' = [f \in FlowKeys |-> A!NoBytes] /\ procNames' = <<>> /\ domains' = <<>>
  /\ lastFlush' = now /\ observed' = observed \ UNION {A!Sum(flows[f]) : f \in FlowKeys}
  /\ requests' = <<>> /\ results' = <<>> /\ worker' = R!Idle /\ cache' = <<>>
  /\ channel' = <<>> /\ batch' = <<>> /\ due' = FALSE /\ writer' = "starting"
  /\ handle' = [c \in {"main", "agg"} |-> "held"] /\ mark' = [c \in {"main", "agg"} |-> 0]
  /\ main' = "joinEtw" /\ timer' \in {"sleeping", "gone"} /\ stop' = FALSE
  /\ etw' = "starting" /\ session' = FALSE /\ trace' = "off"
  /\ inHand' = <<>> /\ events' = <<>>
  /\ agg' = "top" /\ final' = FALSE /\ outbox' = {} /\ idleSince' = now /\ lastEvent' = now
  /\ UNCHANGED <<now, captured, drained, answered, table, sent, ignored, failed, dropped>>

\* The process ends, or its next receive timeout lies beyond the model's time.
Finished ==
  /\ main = "returned" \/ (now = MaxTime /\ agg = "waiting" /\ events = <<>> /\ TxOpen)
  /\ UNCHANGED vars

Step ==
  \/ EtwThread \/ Traffic \/ TraceThread \/ AggThread \/ TimerThread
  \/ MainThread \/ WriterThread \/ WriterDeadline \/ DnsTask \/ Finished

Running == Step /\ UNCHANGED runVars

Next == Running \/ Restart \/ (Tick /\ UNCHANGED runVars)

Spec == Init /\ [][Next]_vars

\* Every thread runs on; ProcessTrace returns once its session is stopped, and
\* a sleep ends.  Nothing is asked of the traffic or of the clock.
Fairness ==
  /\ WF_runningVars(EtwThread) /\ WF_runningVars(TraceThread) /\ WF_runningVars(AggThread)
  /\ WF_runningVars(TimerThread) /\ WF_runningVars(MainThread)
  /\ WF_runningVars(WriterThread) /\ WF_runningVars(WriterDeadline)

FairSpec == Spec /\ Fairness

\* The same program on a machine that is not overloaded: a tick takes longer
\* than a turn of the aggregator's loop, or of the writer's.
AggIdle == agg = "waiting" /\ events = <<>> /\ inHand = <<>> /\ ~TimeoutDue

PromptTick ==
  /\ AggIdle \/ agg = "gone"
  /\ channel = <<>>
  /\ Tick

PromptNext == Running \/ Restart \/ (PromptTick /\ UNCHANGED runVars)

PromptSpec == Init /\ [][PromptNext]_vars

-----------------------------------------------------------------------------
\* Properties.

TypeOK ==
  /\ A!TypeOK /\ R!TypeOK /\ W!TypeOK
  /\ main \in {"joinEtw", "joinAgg", "joinTimer", "shutdown", "awaiting", "returned"}
  /\ timer \in {"sleeping", "gone"} /\ stop \in BOOLEAN
  /\ etw \in {"starting", "polling", "joining", "gone"} /\ session \in BOOLEAN
  /\ trace \in {"off", "processing", "ended"}
  /\ inHand \in Seq(A!Events) /\ Len(inHand) <= 1
  /\ events \in Seq(A!Events) /\ Len(events) <= EventCapacity
  /\ captured \in 0 .. MaxEvents
  /\ agg \in {"top", "waiting", "flushing", "sending", "exiting", "gone"}
  /\ final \in BOOLEAN
  /\ outbox \subseteq drained
  /\ idleSince \in 0 .. now /\ lastEvent \in 0 .. now
  /\ runs \in 1 .. MaxRuns /\ lost \subseteq A!Events

Settled == <<EventsIn(table), EventsIn(ignored), EventsIn(failed), EventsIn(dropped), lost>>

\* End to end, an event captured is in exactly one place of the pipeline, or
\* in exactly one row of the database or of the three ways to lose a row, or was
\* in memory at a kill: no hand-over between the threads counts bytes twice or
\* loses them unrecorded, and no restart brings any back.
EventsConserved ==
  LET places == OnTheWay \o Settled IN
  \A n \in 1 .. captured :
    Cardinality({p \in DOMAIN places : \E e \in places[p] : e.id = n}) = 1

\* The order of the joins: when run_headless returns, every event captured has
\* reached a committed row or a loss that is logged or due to a duplicate key.
ExitSettlesEverything ==
  /\ main = "returned" => \A p \in DOMAIN OnTheWay : OnTheWay[p] = {}
  /\ dropped = {}

\* Only the unconditional flush at exit may lose a row to INSERT OR IGNORE: the
\* windows of the timed flushes never meet, not even those of two runs, since
\* the last_flush of a new run is the moment it started.
OnlyLastFlushCollides == [][ignored' # ignored => final]_vars

\* Seen from the database, the program with all its threads, killed and started
\* again at any point, is a sink of rows (RowSink): a restart loses what is in
\* memory and nothing else, and no later run writes over a row.
Database == INSTANCE RowSink WITH Keys <- A!RowKeys, Data <- A!RowData,
              pending <- W!InMemory, open <- W!Open, restarts <- runs - 1
DatabaseSpec == Database!Spec

\* What a kill can cost: after a receive timeout without traffic nothing that
\* the aggregator has observed is in memory any more.  The early return of
\* maybe_flush does not postpone the flush, and the Flush message that follows
\* the rows makes the writer commit a batch that is not full (PromptSpec).
QuietMeansDurable ==
  now - lastEvent > RecvTimeout => \A p \in 3 .. 6 : OnTheWay[p] = {}

\* Stopping works from every state, with the channels full or the capture
\* failed: no cycle of threads waiting on one another.
StopTerminates == (stop \/ etw = "gone") ~> (main = "returned")

\* flow.rs:2 "flushes deltas to a `WriterHandle` at a fixed cadence".
FlushCadence == A!Tracked # {} => now - lastFlush <= 3 * FlushInterval
=============================================================================
