---------------------------- MODULE HeadlessProofs ----------------------------
(***************************************************************************)
(* Proofs about Headless, for any traffic, channel and batch capacities,   *)
(* timeouts, faults and number of restarts.                                *)
(*                                                                         *)
(* The components keep their own invariants, whose proofs are taken from   *)
(* their modules by INSTANCE; what is added here is where an event can be, *)
(* and in which order the threads stop.  The last part is about time.      *)
(***************************************************************************)
EXTENDS Headless, FiniteSetTheorems, TLAPS

AP == INSTANCE FlowAggregatorProofs WITH MaxSkew <- 0, skew <- 0, setBack <- 0 > MaxTime
RP == INSTANCE ResolverProofs WITH Ips <- A!Ips, Names <- Domains, NoName <- None
WP == INSTANCE WriterProofs WITH Clients <- {"main", "agg"}, Keys <- A!RowKeys,
       Data <- A!RowData, Faults <- WriterFaults, MaxRows <- MaxEvents

-----------------------------------------------------------------------------
\* The inductive invariant.

\* KInv of the writer without the count of its rows, which a kill ends.
Components == WP!KInv /\ AP!Sums /\ RP!IInv

\* The order in which the threads stop: nothing is captured once the ETW thread
\* is gone, and the last flush comes after the last event.
Stopping ==
  /\ inHand # <<>> => trace = "processing"
  /\ etw = "starting" => trace = "off"
  /\ etw = "gone" => trace # "processing"
  /\ main # "joinEtw" => etw = "gone"
  /\ main \notin {"joinEtw", "joinAgg"} => agg = "gone"
  /\ agg \in {"exiting", "gone"} => final
  /\ final => /\ etw = "gone" /\ events = <<>>
              /\ agg \in {"flushing", "sending", "exiting", "gone"}
              /\ agg # "flushing" => \A f \in FlowKeys : flows[f] = A!NoBytes
  /\ agg # "sending" => outbox = {}

\* A Shutdown message is the last one: its sender is the only handle left.
ShutdownLast ==
  \A i \in DOMAIN channel : channel[i].type = "Shutdown" => i = Len(channel)

Handles ==
  /\ handle["agg"] = IF agg = "gone" THEN "dropped" ELSE "held"
  /\ main = "awaiting" => handle["main"] = "waiting"
  /\ main = "returned" => handle["main"] \in {"refused", "returned"} /\ ~WP!Open
  /\ main \notin {"awaiting", "returned"} => handle["main"] = "held"
  /\ ShutdownLast
  /\ dropped = {}

\* Where an event can be.
Hand == Range(inHand)
Queue == Range(events)
Summed == UNION {A!Sum(flows[f]) : f \in FlowKeys}
AllRows == WP!InMemory \cup WP!Settled
Everywhere == Hand \cup Queue \cup Summed \cup EventsIn(outbox) \cup EventsIn(AllRows) \cup lost

Apart ==
  /\ Hand \cap (Queue \cup Summed \cup EventsIn(outbox) \cup EventsIn(AllRows) \cup lost) = {}
  /\ Queue \cap (Summed \cup EventsIn(outbox) \cup EventsIn(AllRows) \cup lost) = {}
  /\ Summed \cap (EventsIn(outbox) \cup EventsIn(AllRows) \cup lost) = {}
  /\ EventsIn(outbox) \cap (EventsIn(AllRows) \cup lost) = {}
  /\ EventsIn(AllRows) \cap lost = {}

DisjointRows(rows) == \A r, s \in rows : r # s => A!Sum(r.data) \cap A!Sum(s.data) = {}

Counted ==
  /\ \A e \in Everywhere : e.id \in 1 .. captured
  /\ \A e, d \in Everywhere : e.id = d.id => e = d
  /\ \A n \in 1 .. captured : \E e \in Everywhere : e.id = n

Pipeline ==
  /\ Apart
  /\ DisjointRows(AllRows) /\ DisjointRows(outbox)
  /\ Counted

QueuedOnce == \A i, j \in DOMAIN events : i # j => events[i] # events[j]

\* What was drained is on its way, settled, or was lost in a kill.
Drained ==
  /\ EventsIn(drained) \subseteq EventsIn(outbox) \cup EventsIn(AllRows) \cup lost
  /\ \A r \in AllRows : \E d \in drained : d.key = r.key

\* Before the last flush no row in memory meets another one.
KeysApart ==
  ~final =>
    /\ \A r \in WP!InMemory, s \in AllRows : r # s => r.key # s.key
    /\ \A r \in outbox, s \in AllRows : r.key # s.key
    /\ \A r, s \in outbox : r # s => r.key # s.key

HInv ==
  /\ TypeOK /\ Components
  /\ Stopping /\ Handles
  /\ Pipeline /\ QueuedOnce /\ Drained
  /\ KeysApart

-----------------------------------------------------------------------------
\* The components as Headless and as the proofs instantiate them are the same.

LEMMA SameNames ==
  /\ \A x : A!Sum(x) = AP!Sum(x)
  /\ A!Events = AP!Events /\ A!NoBytes = AP!NoBytes /\ A!RowsNow = AP!RowsNow
  /\ A!RowKeys = AP!RowKeys /\ A!RowData = AP!RowData
  /\ W!InChannel = WP!InChannel /\ W!InBatch = WP!InBatch
  /\ W!Open <=> WP!Open
  BY DEF A!Sum, AP!Sum, A!Events, AP!Events, A!NoBytes, AP!NoBytes,
         A!RowsNow, AP!RowsNow, A!RowOf, AP!RowOf, A!Tracked, AP!Tracked, A!Window, AP!Window,
         A!Lookup, AP!Lookup, A!RowKeys, AP!RowKeys, A!Buckets, AP!Buckets, A!RowData, AP!RowData,
         W!InChannel, WP!InChannel, W!InBatch, WP!InBatch, W!RowsIn, WP!RowsIn,
         W!Range, WP!Range, W!Open, WP!Open

LEMMA SameTypes ==
  /\ A!TypeOK <=> AP!TypeOK
  /\ R!TypeOK <=> RP!TypeOK
  /\ W!TypeOK <=> WP!TypeOK
  <1>1. A!TypeOK <=> AP!TypeOK
    BY DEF A!TypeOK, AP!TypeOK, A!FlowStats, AP!FlowStats, A!Events, AP!Events, A!Pids, AP!Pids,
           A!Ips, AP!Ips, A!RowKeys, AP!RowKeys, A!RowData, AP!RowData, A!Buckets, AP!Buckets
  <1>2. R!TypeOK <=> RP!TypeOK
    BY DEF R!TypeOK, RP!TypeOK, R!Results, RP!Results, R!WorkerStates, RP!WorkerStates,
           R!Idle, RP!Idle, R!Entries, RP!Entries, R!Cardinality, RP!Cardinality
  <1>3. W!TypeOK <=> WP!TypeOK
    BY DEF W!TypeOK, WP!TypeOK, W!Messages, WP!Messages, W!Rows, WP!Rows, W!Settled, WP!Settled
  <1> QED BY <1>1, <1>2, <1>3

LEMMA SameAggregator ==
  /\ \A e : A!Observe(e) => AP!Observe(e)
  /\ \A s : A!UpdateProcNames(s) => AP!UpdateProcNames(s)
  /\ \A ip, d : A!UpdateDomain(ip, d) => AP!UpdateDomain(ip, d)
  /\ A!MaybeFlush => AP!MaybeFlush
  /\ A!FlushNow => AP!Drain
  BY SameNames
     DEF A!Observe, AP!Observe, A!UpdateProcNames, AP!UpdateProcNames, A!UpdateDomain,
         AP!UpdateDomain, A!Extend, AP!Extend, A!MaybeFlush, AP!MaybeFlush, A!ShouldFlush,
         AP!ShouldFlush, A!FlushNow, A!Drain, AP!Drain, A!clocks, AP!clocks, A!hints, AP!hints

LEMMA SameResolver ==
  /\ \A ip : R!Request(ip) => RP!Request(ip)
  /\ R!TakeResult => RP!TakeResult
  /\ R!Worker => RP!Worker
  /\ R!Tick => RP!Tick
  <1>1. \A ip, name : R!Put(ip, name) => RP!Put(ip, name)
    <2>1. \A S : R!Cardinality(S) = RP!Cardinality(S)
      BY DEF R!Cardinality, RP!Cardinality
    <2>2. \A f, S : R!Restrict(f, S) = RP!Restrict(f, S)
      BY DEF R!Restrict, RP!Restrict
    <2>3. \A ip : R!Live(ip) <=> RP!Live(ip)
      BY DEF R!Live, RP!Live
    <2>4. \A ip, name : R!Entry(ip, name) = RP!Entry(ip, name)
      BY DEF R!Entry, RP!Entry, R!Live, RP!Live, R!ExpiresAt, RP!ExpiresAt, R!Ttl, RP!Ttl,
             R!HardLimit, RP!HardLimit
    <2> SUFFICES ASSUME NEW ip, NEW name, R!Put(ip, name)
                 PROVE  RP!Put(ip, name)
      OBVIOUS
    <2> DEFINE alive == {i \in DOMAIN cache : R!Live(i)}
               full == [i \in alive \cup {ip} |-> IF i = ip THEN R!Entry(ip, name) ELSE cache[i]]
               aliveP == {i \in DOMAIN cache : RP!Live(i)}
               fullP == [i \in aliveP \cup {ip} |-> IF i = ip THEN RP!Entry(ip, name) ELSE cache[i]]
    <2>5. full = fullP
      BY <2>3, <2>4
    <2>6. IF R!Cardinality(DOMAIN full) <= CacheCapacity
            THEN cache' = full
            ELSE \E victim \in DOMAIN full : cache' = R!Restrict(full, DOMAIN full \ {victim})
      BY Zenon DEF R!Put
    <2> HIDE DEF full, fullP
    <2>7. IF RP!Cardinality(DOMAIN fullP) <= CacheCapacity
            THEN cache' = fullP
            ELSE \E victim \in DOMAIN fullP : cache' = RP!Restrict(fullP, DOMAIN fullP \ {victim})
      BY <2>1, <2>2, <2>5, <2>6
    <2> QED BY <2>7, Zenon DEF RP!Put, fullP
  <1>2. R!Worker => RP!Worker
    BY <1>1
       DEF R!Worker, RP!Worker, R!TakeRequest, RP!TakeRequest, R!LookupEnds, RP!LookupEnds,
           R!Reply, RP!Reply, R!Idle, RP!Idle, R!Known, RP!Known, R!Live, RP!Live,
           R!Replying, RP!Replying, R!LookingUp, RP!LookingUp
  <1> QED
    BY <1>2 DEF R!Request, RP!Request, R!TakeResult, RP!TakeResult, R!Tick, RP!Tick,
                R!LookupHasTime, RP!LookupHasTime

LEMMA SameHandles ==
  /\ \A c, k, d : W!Submit(c, k, d) => WP!Submit(c, k, d)
  /\ \A c : W!Flush(c) => WP!Flush(c)
  /\ \A c : W!Shutdown(c) => WP!Shutdown(c)
  /\ \A c : W!Await(c) => WP!Await(c)
  /\ \A c : W!DropHandle(c) => WP!DropHandle(c)
  /\ W!DeadlinePasses => WP!DeadlinePasses
  BY DEF W!Submit, WP!Submit, W!Flush, WP!Flush, W!Shutdown, WP!Shutdown, W!Await, WP!Await,
         W!DropHandle, WP!DropHandle, W!DeadlinePasses, WP!DeadlinePasses, W!Send, WP!Send,
         W!Open, WP!Open, W!handleVars, WP!handleVars, W!fateVars, WP!fateVars

LEMMA SameWriterThread == W!WriterThread => WP!WriterThread
  BY DEF W!WriterThread, W!Prepare, W!RecvRow, W!RecvFlush, W!RecvShutdown, W!Timeout,
         W!Disconnected, W!SignalDone, W!Receive, W!FlushBatch, W!Exit, W!CommitRows, W!LoseRows,
         W!Inserted, W!Full, W!Senders, W!RowsIn, W!fateVars, W!handleVars, W!Range,
         WP!WriterThread, WP!Prepare, WP!RecvRow, WP!RecvFlush, WP!RecvShutdown, WP!Timeout,
         WP!Disconnected, WP!SignalDone, WP!Receive, WP!FlushBatch, WP!Exit, WP!CommitRows,
         WP!LoseRows, WP!Inserted, WP!Full, WP!Senders, WP!RowsIn, WP!fateVars, WP!handleVars,
         WP!Range

-----------------------------------------------------------------------------
\* The components keep their invariants in every step of the program.

LEMMA Constants ==
  /\ MaxEvents \in Nat /\ MaxTime \in Nat /\ FlushInterval \in Nat \ {0}
  /\ EventCapacity \in Nat \ {0} /\ RecvTimeout \in Nat \ {0} /\ MaxRuns \in Nat \ {0}
  BY HeadlessAssumption, ComponentAssumptions DEF A!AggregatorAssumption

LEMMA Times ==
  ASSUME TypeOK
  PROVE  /\ now \in Nat /\ now <= MaxTime /\ lastFlush \in Nat /\ lastFlush <= now
         /\ idleSince \in Nat /\ idleSince <= now /\ lastEvent \in Nat /\ lastEvent <= now
  <1>1. A!TypeOK
    BY DEF TypeOK
  <1>2. now \in 0 .. MaxTime /\ lastFlush \in 0 .. now
    BY <1>1 DEF A!TypeOK
  <1>3. idleSince \in 0 .. now /\ lastEvent \in 0 .. now
    BY DEF TypeOK
  <1> QED BY <1>2, <1>3, Constants

LEMMA OutboxTyped ==
  ASSUME TypeOK, NEW r \in outbox
  PROVE  r.key \in A!RowKeys /\ r.data \in A!RowData
  BY SameTypes DEF TypeOK, A!TypeOK

\* The steps of the program that concern the writer.
LEMMA WriterCases ==
  ASSUME [Next]_vars
  PROVE  \/ Restart
         \/ UNCHANGED writerVars
         \/ SubmitRow \/ FlushWriter \/ AggregatorExits
         \/ ShutdownWriter \/ MainReturns
         \/ W!WriterThread \/ W!DeadlinePasses
  BY DEF Next, Running, Step, vars, runningVars, processVars, EtwThread, Traffic, TraceThread,
         AggThread, TakeResult, StartWaiting, RecvEvent, RecvTimedOut, RecvDisconnected,
         DrainRows, NotYet, TimerThread, MainThread, Join, JoinAgg, WriterThread,
         WriterDeadline, DnsTask, Finished, Tick

LEMMA WriterSteps ==
  ASSUME TypeOK, [Next]_vars, ~Restart
  PROVE  [WP!Next]_(WP!vars)
  <1>1. CASE UNCHANGED writerVars
    BY <1>1 DEF writerVars, WP!vars
  <1>2. CASE SubmitRow
    <2>1. PICK r \in outbox : W!Submit("agg", r.key, r.data)
      BY <1>2 DEF SubmitRow
    <2> QED BY <2>1, OutboxTyped, SameHandles DEF WP!Next
  <1>3. CASE FlushWriter \/ AggregatorExits
    BY <1>3, SameHandles DEF FlushWriter, AggregatorExits, WP!Next
  <1>4. CASE ShutdownWriter \/ MainReturns
    BY <1>4, SameHandles DEF ShutdownWriter, MainReturns, WP!Next
  <1>5. CASE W!WriterThread \/ W!DeadlinePasses
    BY <1>5, SameHandles, SameWriterThread DEF WP!Next
  <1> QED BY <1>1, <1>2, <1>3, <1>4, <1>5, WriterCases

LEMMA WriterKept ==
  ASSUME TypeOK, Components, [Next]_vars
  PROVE  WP!KInv'
  <1>1. CASE Restart
    <2>1. UNCHANGED <<WP!fateVars, sent, dropped>>
      BY <1>1 DEF Restart, WP!fateVars
    <2> QED BY <1>1, <2>1, WP!FreshStartKeepsKInv, ComponentAssumptions DEF Restart, Components
  <1>2. CASE ~Restart
    BY <1>2, WriterSteps, WP!KInvKept, ComponentAssumptions DEF Components
  <1> QED BY <1>1, <1>2

LEMMA ResolverCases ==
  ASSUME [Next]_vars
  PROVE  \/ Restart
         \/ UNCHANGED <<now, dnsVars>>
         \/ TakeResult \/ RecvEvent \/ DnsTask \/ Tick
  BY DEF Next, Running, Step, vars, runningVars, processVars, EtwThread, Traffic, TraceThread,
         AggThread, StartWaiting, RecvTimedOut, RecvDisconnected, RefreshNames,
         DrainRows, NotYet, SubmitRow, FlushWriter, AggregatorExits, TimerThread, MainThread,
         WriterThread, WriterDeadline, Finished, A!UpdateProcNames, A!MaybeFlush, A!FlushNow,
         A!Drain, A!clocks

\* What the channels of events hold is what the callbacks made.
LEMMA HeadOfEvents ==
  ASSUME TypeOK, events # <<>>
  PROVE  /\ Head(events) \in A!Events
         /\ Head(events).flow \in FlowKeys /\ Head(events).flow.ip \in A!Ips
  <1>1. events \in Seq(A!Events)
    BY DEF TypeOK
  <1>2. Head(events) \in A!Events
    BY <1>1
  <1> QED BY <1>2 DEF A!Events, A!Ips

LEMMA ResolverKept ==
  ASSUME TypeOK, Components, [Next]_vars
  PROVE  RP!IInv'
  <1>0. RP!IInv
    BY DEF Components
  <1>1. CASE Restart
    <2>1. worker' = RP!Idle
      BY <1>1 DEF Restart, R!Idle, RP!Idle
    <2> QED BY <1>0, <1>1, <2>1, RP!FreshStartKeepsIInv, ComponentAssumptions DEF Restart
  <1>2. CASE UNCHANGED <<now, dnsVars>>
    <2>1. [RP!Next]_(RP!vars)
      BY <1>2 DEF dnsVars, RP!vars
    <2> QED BY <1>0, <2>1, RP!NextInv, ComponentAssumptions
  <1>3. CASE TakeResult
    BY <1>0, <1>3, SameResolver, RP!TakeResultStep, ComponentAssumptions DEF TakeResult
  <1>4. CASE RecvEvent
    BY <1>0, <1>4, HeadOfEvents, SameResolver, RP!RequestStep, ComponentAssumptions DEF RecvEvent
  <1>5. CASE DnsTask \/ Tick
    <2>1. [RP!Next]_(RP!vars)
      BY <1>5, SameResolver DEF DnsTask, Tick, RP!Next
    <2> QED BY <1>0, <2>1, RP!NextInv, ComponentAssumptions
  <1> QED BY <1>1, <1>2, <1>3, <1>4, <1>5, ResolverCases

LEMMA SumMembers ==
  /\ \A rows, e : e \in EventsIn(rows) <=> \E r \in rows : e \in A!Sum(r.data)
  /\ \A e : e \in Summed <=> \E f \in FlowKeys : e \in A!Sum(flows[f])
  BY DEF EventsIn, Summed

LEMMA InSumsIs == AP!InSums = Summed \cup EventsIn(drained)
  BY SameNames DEF AP!InSums, Summed, EventsIn

LEMMA QueueMembers ==
  ASSUME TypeOK, events # <<>>
  PROVE  Head(events) \in Queue
  <1>1. events \in Seq(A!Events)
    BY DEF TypeOK
  <1>2. Head(events) = events[1] /\ 1 \in DOMAIN events
    BY <1>1
  <1> QED BY <1>2 DEF Queue, Range

\* An event in the channel is in no sum and in no row yet.
LEMMA HeadIsNew ==
  ASSUME TypeOK, Apart, Drained, events # <<>>
  PROVE  Head(events) \notin AP!InSums
  BY QueueMembers, InSumsIs DEF Apart, Drained

LEMMA AggregatorCases ==
  ASSUME [Next]_vars
  PROVE  \/ Restart
         \/ UNCHANGED <<now, aggVars>>
         \/ TakeResult \/ RecvEvent \/ DrainRows \/ Tick
         \/ A!UpdateProcNames(Processes)
  BY DEF Next, Running, Step, vars, runningVars, processVars, EtwThread, Traffic, TraceThread,
         AggThread, StartWaiting, RecvTimedOut, RecvDisconnected, RefreshNames,
         NotYet, SubmitRow, FlushWriter, AggregatorExits, TimerThread, MainThread,
         ShutdownWriter, MainReturns, WriterThread, WriterDeadline, DnsTask, Finished,
         W!Shutdown, W!Await, R!Worker, R!TakeRequest, R!LookupEnds, R!Reply

LEMMA ResultTyped ==
  ASSUME TypeOK, results # <<>>
  PROVE  Head(results).ip \in A!Ips /\ Head(results).name \in Domains \cup {None}
  <1>1. results \in Seq(R!Results)
    BY DEF TypeOK, R!TypeOK
  <1>2. Head(results) \in R!Results
    BY <1>1
  <1>3. PublicIps \subseteq A!Ips
    BY ComponentAssumptions DEF R!ResolverAssumption
  <1> QED BY <1>2, <1>3 DEF R!Results

LEMMA AggregatorKept ==
  ASSUME TypeOK, Components, Apart, Drained, [Next]_vars
  PROVE  AP!Sums'
  <1>0. AP!Sums
    BY DEF Components
  <1>1. CASE Restart
    <2>1. /\ flows' = [f \in FlowKeys |-> AP!NoBytes]
          /\ observed' = observed \ UNION {AP!Sum(flows[f]) : f \in FlowKeys}
          /\ UNCHANGED <<AP!clocks, drained>>
      BY <1>1, SameNames DEF Restart, AP!clocks
    <2> QED BY <1>0, <1>1, <2>1, AP!FreshStartKeepsSums, ComponentAssumptions DEF Restart
  <1>2. CASE UNCHANGED <<now, aggVars>>
    <2>1. AP!TypeOK'
      BY <1>0, <1>2 DEF AP!Sums, AP!TypeOK, aggVars
    <2> QED BY <1>0, <1>2, <2>1, AP!HintsKeepSums, ComponentAssumptions DEF aggVars
  <1>3. CASE TakeResult
    <2>1. CASE UNCHANGED aggVars
      BY <1>2, <1>3, <2>1 DEF TakeResult, R!TakeResult
    <2>2. CASE Head(results).name # None /\ A!UpdateDomain(Head(results).ip, Head(results).name)
      <3>1. Head(results).ip \in AP!Ips /\ Head(results).name \in Domains
        BY <1>3, <2>2, ResultTyped DEF TakeResult, R!TakeResult, A!Ips, AP!Ips
      <3> QED BY <1>0, <2>2, <3>1, SameAggregator, AP!DomainKeepsSums, ComponentAssumptions
    <2> QED BY <1>3, <2>1, <2>2 DEF TakeResult
  <1>4. CASE RecvEvent
    BY <1>0, <1>4, HeadOfEvents, HeadIsNew, SameNames, SameAggregator, AP!ObserveKeepsSums,
       ComponentAssumptions DEF RecvEvent
  <1>5. CASE DrainRows
    BY <1>0, <1>5, SameAggregator, AP!DrainKeepsSums, ComponentAssumptions
       DEF DrainRows, AP!MaybeFlush
  <1>6. CASE Tick
    <2>1. /\ now < MaxTime /\ now' = now + 1 /\ UNCHANGED aggVars
      BY <1>6 DEF Tick, R!Tick
    <2>2. AP!TypeOK'
      BY <1>0, <2>1, Constants DEF AP!Sums, AP!TypeOK, aggVars
    <2> QED BY <1>0, <2>1, <2>2, AP!HintsKeepSums, ComponentAssumptions DEF aggVars
  <1>7. CASE A!UpdateProcNames(Processes)
    BY <1>0, <1>7, SameAggregator, AP!NamesKeepSums, HeadlessAssumption, ComponentAssumptions
       DEF AP!Pids
  <1> QED BY <1>1, <1>2, <1>3, <1>4, <1>5, <1>6, <1>7, AggregatorCases

LEMMA ComponentsKept ==
  ASSUME TypeOK, Components, Apart, Drained, [Next]_vars
  PROVE  Components'
  BY WriterKept, ResolverKept, AggregatorKept DEF Components

-----------------------------------------------------------------------------
\* Types.

LEMMA SameTypesNext ==
  /\ A!TypeOK' <=> AP!TypeOK'
  /\ R!TypeOK' <=> RP!TypeOK'
  /\ W!TypeOK' <=> WP!TypeOK'
  BY SameTypes, PTL

LEMMA ComponentsTyped ==
  ASSUME Components'
  PROVE  A!TypeOK' /\ R!TypeOK' /\ W!TypeOK'
  BY SameTypesNext DEF Components, WP!KInv, AP!Sums, RP!IInv

\* The threads' own variables.
ControlTyped ==
  /\ main \in {"joinEtw", "joinAgg", "joinTimer", "shutdown", "awaiting", "returned"}
  /\ timer \in {"sleeping", "gone"} /\ stop \in BOOLEAN
  /\ etw \in {"starting", "polling", "joining", "gone"} /\ session \in BOOLEAN
  /\ trace \in {"off", "processing", "ended"}
  /\ agg \in {"top", "waiting", "flushing", "sending", "exiting", "gone"}
  /\ final \in BOOLEAN
  /\ runs \in 1 .. MaxRuns

LEMMA ControlTypeKept ==
  ASSUME ControlTyped, [Next]_vars
  PROVE  ControlTyped'
  <1>1. CASE Restart
    <2>1. runs \in 1 .. MaxRuns
      BY DEF ControlTyped
    <2>2. runs < MaxRuns /\ runs' = runs + 1
      BY <1>1 DEF Restart
    <2>3. runs' \in 1 .. MaxRuns
      BY <2>1, <2>2, Constants
    <2>4. /\ main' = "joinEtw" /\ timer' \in {"sleeping", "gone"} /\ stop' = FALSE
          /\ etw' = "starting" /\ session' = FALSE /\ trace' = "off"
          /\ agg' = "top" /\ final' = FALSE
      BY <1>1, Zenon DEF Restart
    <2> QED BY <2>3, <2>4 DEF ControlTyped
  <1>2. CASE (EtwThread \/ Traffic \/ TraceThread) /\ UNCHANGED runVars
    BY <1>2 DEF ControlTyped, EtwThread, EtwStart, EtwSeesStop, StopEtwSession, EtwJoin,
       Traffic, Callback, TraceThread, CallbackSends, TraceEnds, ctlVars, loopVars, runVars
  <1>3. CASE AggThread /\ UNCHANGED runVars
    <2>1. /\ UNCHANGED <<ctlVars, etwVars, runVars>>
          /\ UNCHANGED final \/ final' = TRUE
          /\ \/ UNCHANGED agg
             \/ agg' \in {"top", "waiting", "flushing", "sending", "exiting", "gone"}
      BY <1>3 DEF AggThread, TakeResult, StartWaiting, RecvEvent, RecvTimedOut,
         RecvDisconnected, DrainRows, NotYet, SubmitRow, FlushWriter, AggregatorExits, loopVars
    <2>2. agg' \in {"top", "waiting", "flushing", "sending", "exiting", "gone"} /\ final' \in BOOLEAN
      BY <2>1 DEF ControlTyped
    <2> QED BY <2>1, <2>2, Zenon DEF ControlTyped, ctlVars, etwVars, runVars
  <1>4. CASE TimerThread /\ UNCHANGED runVars
    BY <1>4 DEF ControlTyped, TimerThread, etwVars, loopVars, runVars
  <1>7. CASE MainThread /\ UNCHANGED runVars
    <2>1. main' \in {"joinAgg", "joinTimer", "shutdown", "awaiting", "returned"}
      BY <1>7 DEF MainThread, Join, JoinAgg, ShutdownWriter, MainReturns
    <2> QED BY <1>7, <2>1 DEF MainThread, ControlTyped, etwVars, loopVars, runVars
  <1>5. CASE (WriterThread \/ WriterDeadline \/ DnsTask \/ Finished \/ Tick) /\ UNCHANGED runVars
    BY <1>5 DEF ControlTyped, WriterThread, WriterDeadline, DnsTask, Finished, Tick,
       ctlVars, etwVars, loopVars, runVars, vars, runningVars, processVars
  <1>6. CASE UNCHANGED vars
    BY <1>6 DEF ControlTyped, vars, runningVars, processVars, ctlVars, etwVars, loopVars, runVars
  <1> QED BY <1>1, <1>2, <1>3, <1>4, <1>5, <1>6, <1>7 DEF Next, Running, Step

\* The event in the callback's hand and those in the channel.
EventsTyped ==
  /\ inHand \in Seq(A!Events) /\ Len(inHand) <= 1
  /\ events \in Seq(A!Events) /\ Len(events) <= EventCapacity
  /\ captured \in 0 .. MaxEvents

LEMMA EventCases ==
  ASSUME [Next]_vars
  PROVE  \/ Restart
         \/ UNCHANGED <<inHand, events, captured>>
         \/ \E f \in FlowKeys, dir \in {"in", "out"} : Callback(f, dir)
         \/ CallbackSends
         \/ RecvEvent /\ UNCHANGED etwVars
  BY DEF Next, Running, Step, vars, runningVars, processVars, EtwThread, EtwStart, EtwSeesStop,
         EtwJoin, Traffic, TraceThread, TraceEnds, AggThread, TakeResult, StartWaiting,
         RecvTimedOut, RecvDisconnected, DrainRows, NotYet, SubmitRow, FlushWriter,
         AggregatorExits, TimerThread, MainThread, WriterThread, WriterDeadline, DnsTask,
         Finished, Tick, etwVars

LEMMA EventsTypeKept ==
  ASSUME EventsTyped, [Next]_vars
  PROVE  EventsTyped'
  <1>0. /\ inHand \in Seq(A!Events) /\ Len(inHand) <= 1
        /\ events \in Seq(A!Events) /\ Len(events) <= EventCapacity
        /\ captured \in 0 .. MaxEvents
    BY DEF EventsTyped
  <1>1. CASE Restart
    <2>1. inHand' = <<>> /\ events' = <<>> /\ captured' = captured
      BY <1>1 DEF Restart
    <2> QED BY <1>0, <2>1, Constants DEF EventsTyped
  <1>2. CASE UNCHANGED <<inHand, events, captured>>
    BY <1>0, <1>2 DEF EventsTyped
  <1>3. ASSUME NEW f \in FlowKeys, NEW dir \in {"in", "out"}, Callback(f, dir)
        PROVE  EventsTyped'
    <2> DEFINE e == [id |-> captured + 1, flow |-> f, dir |-> dir]
    <2>1. e \in A!Events /\ captured + 1 \in 0 .. MaxEvents
      BY <1>0, <1>3, Constants DEF Callback, A!Events
    <2>2. inHand' = <<e>> /\ captured' = captured + 1 /\ events' = events
      BY <1>3 DEF Callback
    <2> HIDE DEF e
    <2> QED BY <1>0, <2>1, <2>2 DEF EventsTyped
  <1>4. CASE CallbackSends
    <2>1. /\ events' = events \o inHand /\ inHand' = <<>> /\ captured' = captured
          /\ Len(events) < EventCapacity
      BY <1>4 DEF CallbackSends, etwVars
    <2> QED BY <1>0, <2>1, Constants DEF EventsTyped
  <1>5. CASE RecvEvent /\ UNCHANGED etwVars
    <2>1. events # <<>> /\ events' = Tail(events) /\ inHand' = inHand /\ captured' = captured
      BY <1>5 DEF RecvEvent, etwVars
    <2> QED BY <1>0, <2>1, Constants DEF EventsTyped
  <1> QED BY <1>1, <1>2, <1>3, <1>4, <1>5, EventCases

\* What the aggregator remembers of its rows and of the time.
LoopTyped ==
  /\ outbox \subseteq drained
  /\ idleSince \in 0 .. now /\ lastEvent \in 0 .. now

LEMMA LoopCases ==
  ASSUME [Next]_vars
  PROVE  \/ Restart
         \/ DrainRows
         \/ SubmitRow
         \/ /\ UNCHANGED <<outbox, drained>>
            /\ \/ now' = now
               \/ now' = now + 1
            /\ idleSince' \in {idleSince, now} /\ lastEvent' \in {lastEvent, now}
  BY DEF Next, Running, Step, vars, runningVars, processVars, EtwThread, EtwStart, EtwSeesStop,
         EtwJoin, Traffic, TraceThread, TraceEnds, AggThread, TakeResult, StartWaiting,
         RecvEvent, RecvTimedOut, RecvDisconnected, NotYet, FlushWriter, RefreshNames,
         AggregatorExits, TimerThread, MainThread, WriterThread, WriterDeadline, DnsTask,
         Finished, Tick, loopVars, aggVars, R!TakeResult, A!UpdateDomain, A!Observe,
         A!UpdateProcNames, A!clocks, R!Tick, R!Worker, R!TakeRequest, R!LookupEnds, R!Reply

LEMMA LoopTypeKept ==
  ASSUME LoopTyped, now \in Nat, [Next]_vars
  PROVE  LoopTyped'
  <1>1. CASE Restart
    <2>1. outbox' = {} /\ idleSince' = now /\ lastEvent' = now /\ now' = now
      BY <1>1 DEF Restart
    <2> QED BY <2>1 DEF LoopTyped
  <1>2. CASE DrainRows
    BY <1>2 DEF DrainRows, A!MaybeFlush, A!FlushNow, A!Drain, A!clocks, LoopTyped
  <1>3. CASE SubmitRow
    BY <1>3 DEF SubmitRow, aggVars, LoopTyped
  <1>4. CASE /\ UNCHANGED <<outbox, drained>>
             /\ now' = now \/ now' = now + 1
             /\ idleSince' \in {idleSince, now} /\ lastEvent' \in {lastEvent, now}
    BY <1>4 DEF LoopTyped
  <1> QED BY <1>1, <1>2, <1>3, <1>4, LoopCases

LEMMA SixTuple ==
  ASSUME NEW a, NEW b, NEW c, NEW d, NEW e, NEW f
  PROVE  UNION Range(<<a, b, c, d, e, f>>) = a \cup b \cup c \cup d \cup e \cup f
  <1> DEFINE t == <<a, b, c, d, e, f>>
  <1>1. DOMAIN t = 1 .. 6
    OBVIOUS
  <1>2. /\ t[1] = a /\ t[2] = b /\ t[3] = c /\ t[4] = d /\ t[5] = e /\ t[6] = f
    OBVIOUS
  <1> HIDE DEF t
  <1>3. Range(t) = {a, b, c, d, e, f}
    BY <1>1, <1>2 DEF Range
  <1> QED BY <1>3 DEF t

LEMMA EventsInUnion ==
  ASSUME NEW rows, NEW others
  PROVE  EventsIn(rows \cup others) = EventsIn(rows) \cup EventsIn(others)
  BY DEF EventsIn

LEMMA LostInAKill ==
  UNION Range(OnTheWay)
    = Hand \cup Queue \cup Summed \cup EventsIn(outbox) \cup EventsIn(WP!InMemory)
  <1>1. OnTheWay = <<Hand, Queue, Summed, EventsIn(outbox),
                     EventsIn(WP!InChannel), EventsIn(WP!InBatch)>>
    BY SameNames DEF OnTheWay, Hand, Queue, Summed
  <1>2. UNION Range(OnTheWay) = Hand \cup Queue \cup Summed \cup EventsIn(outbox)
                                  \cup EventsIn(WP!InChannel) \cup EventsIn(WP!InBatch)
    BY <1>1, SixTuple
  <1>3. EventsIn(WP!InMemory) = EventsIn(WP!InChannel) \cup EventsIn(WP!InBatch)
    BY EventsInUnion DEF WP!InMemory
  <1> QED BY <1>2, <1>3

\* Every event that is somewhere was made by a callback.
LEMMA EventsAreTyped ==
  ASSUME TypeOK
  PROVE  Everywhere \subseteq A!Events
  <1>1. Hand \subseteq A!Events /\ Queue \subseteq A!Events
    <2>1. inHand \in Seq(A!Events) /\ events \in Seq(A!Events)
      BY DEF TypeOK
    <2> QED BY <2>1 DEF Hand, Queue, Range
  <1>2. Summed \subseteq A!Events
    <2>1. \A f \in FlowKeys : flows[f] \in A!FlowStats
      BY DEF TypeOK, A!TypeOK
    <2> QED BY <2>1 DEF Summed, A!FlowStats, A!Sum
  <1>3. EventsIn(outbox) \subseteq A!Events
    BY OutboxTyped DEF EventsIn, A!RowData, A!Sum
  <1>4. EventsIn(AllRows) \subseteq A!Events
    <2>1. WP!TypeOK
      BY SameTypes DEF TypeOK
    <2>2. WP!Settled \subseteq WP!Rows
      BY <2>1 DEF WP!TypeOK
    <2>3. WP!InChannel \subseteq WP!Rows /\ WP!InBatch \subseteq WP!Rows
      BY <2>1, WP!RowsInAreRows, WP!RangeOfRows, ComponentAssumptions
         DEF WP!TypeOK, WP!InChannel, WP!InBatch
    <2>4. \A r \in AllRows : r.data \in A!RowData
      BY <2>2, <2>3 DEF AllRows, WP!InMemory, WP!Rows
    <2> QED BY <2>4 DEF EventsIn, A!RowData, A!Sum
  <1>5. lost \subseteq A!Events
    BY DEF TypeOK
  <1> QED BY <1>1, <1>2, <1>3, <1>4, <1>5 DEF Everywhere

LEMMA LostCases ==
  ASSUME [Next]_vars, ~Restart
  PROVE  UNCHANGED runVars
  BY DEF Next, Running, vars

LEMMA TypeKept ==
  ASSUME TypeOK, Components', [Next]_vars
  PROVE  TypeOK'
  <1>1. A!TypeOK' /\ R!TypeOK' /\ W!TypeOK'
    BY ComponentsTyped
  <1>2. ControlTyped'
    <2>1. ControlTyped
      BY DEF TypeOK, ControlTyped
    <2> QED BY <2>1, ControlTypeKept
  <1>3. EventsTyped'
    <2>1. EventsTyped
      BY DEF TypeOK, EventsTyped
    <2> QED BY <2>1, EventsTypeKept
  <1>4. LoopTyped'
    <2>1. now \in Nat
      BY Times
    <2>2. LoopTyped
      BY DEF TypeOK, LoopTyped
    <2> QED BY <2>1, <2>2, LoopTypeKept
  <1>5. (lost \subseteq A!Events)'
    <2>0. EventsIn(AllRows) = EventsIn(WP!InMemory) \cup EventsIn(WP!Settled)
      BY EventsInUnion DEF AllRows
    <2>1. lost \subseteq A!Events /\ UNION Range(OnTheWay) \subseteq A!Events
      BY <2>0, EventsAreTyped, LostInAKill DEF Everywhere
    <2>2. CASE Restart
      BY <2>1, <2>2 DEF Restart
    <2> QED BY <2>1, <2>2, LostCases DEF runVars
  <1> QED BY <1>1, <1>2, <1>3, <1>4, <1>5 DEF TypeOK, ControlTyped, EventsTyped, LoopTyped

-----------------------------------------------------------------------------
\* How the threads stop.

stopVars == <<inHand, trace, etw, main, agg, final, events, flows, outbox>>

LEMMA StoppingCases ==
  ASSUME [Next]_vars
  PROVE  \/ Restart
         \/ UNCHANGED stopVars
         \/ EtwThread \/ Traffic \/ TraceThread \/ MainThread
         \/ /\ \/ StartWaiting \/ RecvEvent \/ RecvTimedOut \/ RecvDisconnected \/ DrainRows
               \/ NotYet \/ SubmitRow \/ FlushWriter \/ AggregatorExits
            /\ UNCHANGED <<ctlVars, etwVars>>
  <1>1. CASE TakeResult /\ UNCHANGED <<ctlVars, etwVars>>
    BY <1>1 DEF TakeResult, A!UpdateDomain, aggVars, ctlVars, etwVars, loopVars, stopVars
  <1> QED
    BY <1>1 DEF Next, Running, Step, vars, runningVars, processVars, AggThread, TimerThread,
       WriterThread, WriterDeadline, DnsTask, Finished, Tick, ctlVars, etwVars, loopVars,
       aggVars, stopVars

LEMMA StoppingKept ==
  ASSUME TypeOK, Stopping, [Next]_vars
  PROVE  Stopping'
  <1>0. etw \in {"starting", "polling", "joining", "gone"}
    BY DEF TypeOK
  <1>1. CASE Restart
    BY <1>1 DEF Restart, Stopping
  <1>2. CASE UNCHANGED stopVars
    BY <1>2 DEF stopVars, Stopping
  <1>3. CASE EtwThread
    BY <1>0, <1>3 DEF EtwThread, EtwStart, EtwSeesStop, EtwJoin, ctlVars, loopVars, aggVars, Stopping
  <1>4. CASE Traffic
    BY <1>4 DEF Traffic, Callback, ctlVars, loopVars, aggVars, Stopping
  <1>5. CASE TraceThread
    BY <1>5 DEF TraceThread, CallbackSends, TraceEnds, ctlVars, loopVars, aggVars, Stopping
  <1>6. CASE MainThread
    BY <1>6 DEF MainThread, Join, JoinAgg, ShutdownWriter, MainReturns, etwVars, loopVars,
       aggVars, Stopping
  <1>7. ASSUME UNCHANGED <<ctlVars, etwVars>>,
               StartWaiting \/ RecvTimedOut \/ NotYet \/ RecvDisconnected
        PROVE  Stopping'
    <2>1. UNCHANGED <<flows, events, outbox>>
      BY <1>7 DEF StartWaiting, RecvTimedOut, NotYet, RecvDisconnected, RefreshNames,
         A!UpdateProcNames, aggVars
    <2>2. UNCHANGED <<main, etw, trace, inHand>>
      BY <1>7 DEF ctlVars, etwVars
    <2>3. /\ agg \in {"top", "waiting", "flushing"} /\ agg' \in {"top", "waiting", "flushing"}
          /\ \/ agg = "flushing" /\ ~final /\ final' = final
             \/ agg # "flushing" /\ final' = final
             \/ final' = TRUE /\ events = <<>> /\ etw = "gone" /\ agg' = "flushing"
      BY <1>7 DEF StartWaiting, RecvTimedOut, NotYet, RecvDisconnected, TxOpen, TimeoutDue
    <2>4. CASE final' = TRUE /\ events = <<>> /\ etw = "gone" /\ agg' = "flushing"
      BY <2>1, <2>2, <2>3, <2>4 DEF Stopping
    <2>5. CASE final' = final /\ ~final
      BY <2>1, <2>2, <2>3, <2>5 DEF Stopping
    <2>6. CASE final' = final /\ agg # "flushing"
      BY <2>3, <2>5, <2>6 DEF Stopping
    <2> QED BY <2>3, <2>4, <2>5, <2>6
  <1>8. ASSUME UNCHANGED <<ctlVars, etwVars>>, RecvEvent PROVE Stopping'
    BY <1>8 DEF RecvEvent, ctlVars, etwVars, Stopping
  <1>9. ASSUME UNCHANGED <<ctlVars, etwVars>>, DrainRows PROVE Stopping'
    <2>1. \A f \in FlowKeys : flows'[f] = A!NoBytes
      BY <1>9 DEF DrainRows, A!MaybeFlush, A!FlushNow, A!Drain
    <2>2. UNCHANGED <<main, etw, trace, inHand, events, final>> /\ agg' = "sending" /\ agg = "flushing"
      BY <1>9 DEF DrainRows, ctlVars, etwVars
    <2> QED BY <2>1, <2>2 DEF Stopping, A!NoBytes
  <1>10. ASSUME UNCHANGED <<ctlVars, etwVars>>, SubmitRow \/ FlushWriter \/ AggregatorExits
         PROVE  Stopping'
    <2>1. /\ UNCHANGED <<main, etw, trace, inHand, events, final, flows>>
          /\ agg = "exiting" \/ agg = "sending"
          /\ agg = "sending" => agg' = "sending" \/ outbox' = {}
          /\ agg = "exiting" => outbox' = outbox
          /\ agg' \in {"sending", "exiting", "gone", "top"}
          /\ agg' = "exiting" => final
          /\ agg' = "gone" => agg = "exiting"
          /\ agg' = "top" => ~final
      BY <1>10 DEF SubmitRow, FlushWriter, AggregatorExits, ctlVars, etwVars, aggVars
    <2> QED BY <2>1 DEF Stopping
  <1> QED BY <1>1, <1>2, <1>3, <1>4, <1>5, <1>6, <1>7, <1>8, <1>9, <1>10, StoppingCases

LEMMA NoShutdown ==
  ASSUME TypeOK, Components, Handles, main # "awaiting"
  PROVE  \A i \in DOMAIN channel : channel[i].type # "Shutdown"
  <1>1. /\ \A i \in DOMAIN channel : channel[i].type = "Shutdown" => handle[channel[i].from] = "waiting"
        /\ ~WP!Open => channel = <<>>
    BY DEF Components, WP!KInv, WP!ShutdownsMarked, WP!ClosedIsEmpty
  <1>2. CASE main = "returned"
    <2>1. channel = <<>>
      BY <1>1, <1>2 DEF Handles
    <2> QED BY <2>1
  <1>3. CASE main # "returned"
    <2>1. handle["main"] = "held" /\ handle["agg"] # "waiting"
      BY <1>3 DEF Handles
    <2>2. ASSUME NEW i \in DOMAIN channel, channel[i].type = "Shutdown"
          PROVE  channel[i].from \in {"main", "agg"}
      <3>1. channel \in Seq(WP!Messages)
        BY DEF Components, WP!KInv, WP!TypeOK
      <3>2. channel[i] \in WP!Messages
        BY <3>1
      <3> QED BY <2>2, <3>2 DEF WP!Messages
    <2> QED BY <1>1, <2>1, <2>2
  <1> QED BY <1>2, <1>3

LEMMA NoMessages ==
  ASSUME NEW S, NEW s \in Seq(S), Len(s) = 0
  PROVE  s = <<>>
  OBVIOUS

LEMMA SendKeepsShutdownLast ==
  ASSUME Components, \A i \in DOMAIN channel : channel[i].type # "Shutdown",
         NEW msg, channel' = channel \/ channel' = Append(channel, msg)
  PROVE  ShutdownLast'
  <1>1. channel \in Seq(WP!Messages)
    BY DEF Components, WP!KInv, WP!TypeOK
  <1>2. CASE channel' = Append(channel, msg)
    <2>1. /\ Len(channel') = Len(channel) + 1
          /\ \A i \in DOMAIN channel' : i # Len(channel') => i \in DOMAIN channel /\ channel'[i] = channel[i]
      BY <1>1, <1>2
    <2> QED BY <2>1 DEF ShutdownLast
  <1> QED BY <1>2 DEF ShutdownLast

LEMMA WriterThreadStops ==
  ASSUME Components, ShutdownLast, dropped = {}, WP!WriterThread
  PROVE  /\ ShutdownLast' /\ dropped' = {} /\ handle' = handle
         /\ ~WP!Open => ~WP!Open'
  <1>1. channel \in Seq(WP!Messages)
    BY DEF Components, WP!KInv, WP!TypeOK
  <1>2. handle' = handle /\ (~WP!Open => ~WP!Open')
    BY DEF WP!WriterThread, WP!Prepare, WP!RecvRow, WP!RecvFlush, WP!RecvShutdown, WP!Timeout,
       WP!Disconnected, WP!SignalDone, WP!Receive, WP!Exit, WP!handleVars, WP!Open
  <1>3. ASSUME channel # <<>>, channel' = Tail(channel) PROVE ShutdownLast'
    <2>1. /\ Len(channel') = Len(channel) - 1
          /\ \A i \in DOMAIN channel' : i + 1 \in DOMAIN channel /\ channel'[i] = channel[i + 1]
      BY <1>1, <1>3
    <2>2. Len(channel) \in Nat /\ \A i \in DOMAIN channel' : i \in Nat
      BY <1>1, <1>3
    <2> QED BY <2>1, <2>2 DEF ShutdownLast
  <1>4. ASSUME channel' = <<>> PROVE ShutdownLast'
    BY <1>4 DEF ShutdownLast
  <1>5. ASSUME channel # <<>>, Head(channel).type = "Shutdown" PROVE WP!RowsIn(Tail(channel)) = {}
    <2>1. Tail(channel) = <<>>
      <3>1. 1 \in DOMAIN channel /\ channel[1] = Head(channel)
        BY <1>1, <1>5
      <3>2. Len(channel) = 1
        BY <1>5, <3>1 DEF ShutdownLast
      <3>3. Tail(channel) \in Seq(WP!Messages) /\ Len(Tail(channel)) = 0
        BY <1>1, <1>5, <3>2
      <3> QED BY <3>3, NoMessages
    <2> QED BY <2>1, WP!EmptySets, ComponentAssumptions
  <1>6. CASE WP!RecvShutdown
    BY <1>2, <1>4, <1>5, <1>6 DEF WP!RecvShutdown, WP!Receive, WP!Exit
  <1>7. CASE WP!Disconnected
    BY <1>2, <1>4, <1>7, WP!EmptySets, ComponentAssumptions DEF WP!Disconnected, WP!Exit
  <1>8. CASE WP!RecvRow \/ WP!RecvFlush
    BY <1>2, <1>3, <1>8 DEF WP!RecvRow, WP!RecvFlush, WP!Receive
  <1>9. CASE WP!Prepare
    BY <1>2, <1>4, <1>9 DEF WP!Prepare, ShutdownLast
  <1>10. CASE WP!Timeout \/ WP!SignalDone
    BY <1>2, <1>10 DEF WP!Timeout, WP!SignalDone, ShutdownLast
  <1> QED BY <1>6, <1>7, <1>8, <1>9, <1>10 DEF WP!WriterThread

\* The steps that change what Handles speaks of.
LEMMA HandleCases ==
  ASSUME [Next]_vars
  PROVE  \/ Restart
         \/ /\ UNCHANGED <<writerVars, main>>
            /\ \/ UNCHANGED agg
               \/ agg # "gone" /\ agg' # "gone"
         \/ /\ UNCHANGED <<writerVars, agg>>
            /\ main \in {"joinEtw", "joinAgg", "joinTimer"}
            /\ main' \in {"joinAgg", "joinTimer", "shutdown"}
         \/ (SubmitRow \/ FlushWriter \/ AggregatorExits) /\ UNCHANGED main
         \/ (ShutdownWriter \/ MainReturns) /\ UNCHANGED agg
         \/ (W!WriterThread \/ W!DeadlinePasses) /\ UNCHANGED <<main, agg>>
  <1>1. CASE AggThread
    BY <1>1 DEF AggThread, TakeResult, StartWaiting, RecvEvent, RecvTimedOut,
       RecvDisconnected, DrainRows, NotYet, TimeoutDue, ctlVars, loopVars
  <1>2. CASE MainThread
    BY <1>2 DEF MainThread, Join, JoinAgg, loopVars
  <1> QED
    BY <1>1, <1>2 DEF Next, Running, Step, vars, runningVars, processVars, EtwThread, Traffic,
       TraceThread, TimerThread, WriterThread, WriterDeadline, DnsTask, Finished, Tick,
       ctlVars, loopVars

LEMMA SubmitHandles ==
  ASSUME Components, Handles, NEW c \in {"main", "agg"}, NEW k, NEW d,
         WP!Submit(c, k, d) \/ WP!Flush(c),
         \A i \in DOMAIN channel : channel[i].type # "Shutdown"
  PROVE  ShutdownLast' /\ dropped' = dropped /\ handle' = handle /\ handle[c] = "held"
         /\ (WP!Open' <=> WP!Open)
  <1>1. /\ dropped' = dropped /\ handle' = handle /\ handle[c] = "held" /\ writer' = writer
        /\ channel' = channel \/ \E msg : channel' = Append(channel, msg)
    BY DEF WP!Submit, WP!Flush, WP!Send, WP!fateVars, WP!handleVars
  <1> QED BY <1>1, SendKeepsShutdownLast DEF WP!Open

LEMMA HandlesKept ==
  ASSUME TypeOK, Components, Stopping, Handles, [Next]_vars
  PROVE  Handles'
  <1>0. /\ handle["agg"] = IF agg = "gone" THEN "dropped" ELSE "held"
        /\ handle \in [{"main", "agg"} -> {"held", "waiting", "returned", "refused", "dropped"}]
        /\ dropped = {} /\ ShutdownLast
    BY DEF Handles, TypeOK, W!TypeOK
  <1>1. CASE Restart
    BY <1>0, <1>1 DEF Restart, Handles, ShutdownLast
  <1>2. ASSUME UNCHANGED <<writerVars, main>>,
               UNCHANGED agg \/ (agg # "gone" /\ agg' # "gone")
        PROVE  Handles'
    BY <1>2 DEF writerVars, Handles, ShutdownLast, WP!Open
  <1>3. ASSUME UNCHANGED <<writerVars, agg>>,
               main \in {"joinEtw", "joinAgg", "joinTimer"},
               main' \in {"joinAgg", "joinTimer", "shutdown"}
        PROVE  Handles'
    BY <1>3 DEF writerVars, Handles, ShutdownLast, WP!Open
  <1>4. ASSUME SubmitRow \/ FlushWriter, UNCHANGED main PROVE Handles'
    <2>1. /\ agg = "sending" /\ agg' # "gone"
          /\ \E k, d : WP!Submit("agg", k, d) \/ WP!Flush("agg")
      BY <1>4, SameHandles DEF SubmitRow, FlushWriter
    <2>2. main # "awaiting"
      BY <2>1 DEF Stopping
    <2>3. ShutdownLast' /\ dropped' = dropped /\ handle' = handle /\ (WP!Open' <=> WP!Open)
      BY <2>1, <2>2, NoShutdown, SubmitHandles
    <2> QED BY <1>4, <2>1, <2>3 DEF Handles
  <1>5. ASSUME AggregatorExits, UNCHANGED main PROVE Handles'
    <2>1. /\ agg' = "gone" /\ handle' = [handle EXCEPT !["agg"] = "dropped"]
          /\ UNCHANGED <<channel, writer, dropped>>
      BY <1>5, SameHandles DEF AggregatorExits, WP!DropHandle
    <2> QED BY <1>0, <1>5, <2>1 DEF Handles, ShutdownLast, WP!Open
  <1>6. ASSUME ShutdownWriter, UNCHANGED agg PROVE Handles'
    <2>1. /\ main = "shutdown" /\ WP!Shutdown("main")
          /\ main' = IF handle'["main"] = "waiting" THEN "awaiting" ELSE "returned"
      BY <1>6, SameHandles DEF ShutdownWriter
    <2>2. /\ UNCHANGED <<writer, dropped>>
          /\ \/ \E msg : channel' = Append(channel, msg) /\ handle' = [handle EXCEPT !["main"] = "waiting"]
             \/ /\ channel' = channel /\ ~WP!Open
                /\ handle' = [handle EXCEPT !["main"] = "refused"]
      BY <2>1 DEF WP!Shutdown, WP!Send, WP!fateVars
    <2>3. ShutdownLast'
      BY <2>1, <2>2, NoShutdown, SendKeepsShutdownLast
    <2>4. WP!Open' <=> WP!Open
      BY <2>2 DEF WP!Open
    <2>5. /\ handle'["agg"] = handle["agg"]
          /\ handle'["main"] = "waiting" \/ (handle'["main"] = "refused" /\ ~WP!Open)
      BY <1>0, <2>2
    <2> QED BY <1>0, <1>6, <2>1, <2>2, <2>3, <2>4, <2>5 DEF Handles
  <1>7. ASSUME MainReturns, UNCHANGED agg PROVE Handles'
    <2>1. /\ main' = "returned" /\ handle' = [handle EXCEPT !["main"] = "returned"]
          /\ writer = "done" /\ UNCHANGED <<channel, writer, dropped>>
      BY <1>7, SameHandles DEF MainReturns, WP!Await
    <2> QED BY <1>0, <1>7, <2>1 DEF Handles, ShutdownLast, WP!Open
  <1>8. ASSUME W!WriterThread, UNCHANGED <<main, agg>> PROVE Handles'
    BY <1>0, <1>8, SameWriterThread, WriterThreadStops DEF Handles
  <1>9. ASSUME W!DeadlinePasses, UNCHANGED <<main, agg>> PROVE Handles'
    <2>1. UNCHANGED <<channel, handle, writer, dropped>>
      BY <1>9, SameHandles DEF WP!DeadlinePasses, WP!handleVars
    <2> QED BY <1>9, <2>1 DEF Handles, ShutdownLast, WP!Open
  <1> QED BY <1>1, <1>2, <1>3, <1>4, <1>5, <1>6, <1>7, <1>8, <1>9, HandleCases

-----------------------------------------------------------------------------
\* Where events and rows go, whatever thread takes the step: the six kinds of
\* step that move one, and the steps that move none.

NoneTaken == AllRows' = AllRows /\ WP!InMemory' \subseteq WP!InMemory

\* A callback is called with an event.
Made ==
  \E e \in A!Events :
    /\ e.id = captured + 1 /\ captured' = captured + 1
    /\ Hand = {} /\ Hand' = {e}
    /\ NoneTaken
    /\ UNCHANGED <<Queue, Summed, outbox, lost, drained>>

\* It is sent to the aggregator.
Queued ==
  /\ Queue' = Queue \cup Hand /\ Hand' = {}
  /\ NoneTaken
  /\ UNCHANGED <<Summed, outbox, lost, captured, drained>>

\* The aggregator adds it to a sum.
SummedUp ==
  \E e \in Queue :
    /\ Queue' = Queue \ {e}
    /\ Summed' = Summed \cup {e}
    /\ NoneTaken
    /\ UNCHANGED <<Hand, outbox, lost, captured, drained>>

\* The sums become rows; those of a timed flush have a new window.
DrainedOut ==
  /\ EventsIn(outbox') = Summed /\ Summed' = {} /\ outbox = {}
  /\ drained' = drained \cup outbox'
  /\ DisjointRows(outbox')
  /\ \A r, s \in outbox' : r # s => r.key # s.key
  /\ ~final => \A r \in outbox', d \in drained : r.key # d.key
  /\ NoneTaken
  /\ UNCHANGED <<Hand, Queue, lost, captured>>

\* A row is submitted.
Submitted ==
  \E r \in outbox, row \in [id : Nat, key : A!RowKeys, data : A!RowData] :
    /\ row.key = r.key /\ row.data = r.data
    /\ outbox' = outbox \ {r}
    /\ AllRows' = AllRows \cup {row}
    /\ WP!InMemory' \subseteq WP!InMemory \cup {row}
    /\ UNCHANGED <<Hand, Queue, Summed, lost, captured, drained>>

\* The process is killed.
Killed ==
  /\ Hand' = {} /\ Queue' = {} /\ Summed' = {} /\ outbox' = {}
  /\ AllRows' = WP!Settled /\ WP!InMemory' = {}
  /\ UNCHANGED <<captured, drained>>
  /\ lost' = lost \cup Hand \cup Queue \cup Summed \cup EventsIn(outbox)
               \cup EventsIn(WP!InMemory)

Stays ==
  /\ NoneTaken
  /\ UNCHANGED <<Hand, Queue, Summed, outbox, lost, captured, drained>>

PipeKinds ==
  Made \/ Queued \/ SummedUp \/ DrainedOut \/ Submitted \/ Killed \/ Stays

LEMMA ApartKept ==
  ASSUME Components, Pipeline, PipeKinds, captured \in Nat
  PROVE  Apart' /\ DisjointRows(AllRows)' /\ DisjointRows(outbox)'
  <1> USE DEF Pipeline
  <1>1. CASE Made
    <2>1. PICK e \in A!Events : e.id = captured + 1 /\ Hand' = {e}
      BY <1>1 DEF Made
    <2>2. e \notin Everywhere
      BY <2>1 DEF Counted
    <2> QED BY <1>1, <2>1, <2>2 DEF Made, NoneTaken, Everywhere, Apart
  <1>2. CASE Queued
    BY <1>2 DEF Queued, NoneTaken, Apart
  <1>3. CASE SummedUp
    BY <1>3 DEF SummedUp, NoneTaken, Apart
  <1>4. CASE DrainedOut
    BY <1>4 DEF DrainedOut, NoneTaken, Apart
  <1>5. CASE Submitted
    <2>1. PICK r \in outbox, row \in [id : Nat, key : A!RowKeys, data : A!RowData] :
            /\ row.data = r.data /\ outbox' = outbox \ {r} /\ AllRows' = AllRows \cup {row}
            /\ UNCHANGED <<Hand, Queue, Summed, lost>>
      BY <1>5 DEF Submitted
    <2>2. /\ EventsIn(AllRows') = EventsIn(AllRows) \cup A!Sum(r.data)
          /\ A!Sum(r.data) \subseteq EventsIn(outbox)
          /\ EventsIn(outbox') \subseteq EventsIn(outbox)
          /\ EventsIn(outbox') \cap A!Sum(r.data) = {}
      BY <2>1, SumMembers DEF DisjointRows
    <2>3. \A s \in AllRows : A!Sum(s.data) \cap A!Sum(row.data) = {}
      BY <2>1, <2>2, SumMembers DEF Apart
    <2>4. DisjointRows(AllRows') /\ DisjointRows(outbox')
      BY <2>1, <2>3 DEF DisjointRows
    <2> QED BY <2>1, <2>2, <2>4 DEF Apart
  <1>6. CASE Killed
    <2>1. /\ EventsIn(AllRows) = EventsIn(WP!InMemory) \cup EventsIn(WP!Settled)
          /\ EventsIn(WP!InMemory) \cap EventsIn(WP!Settled) = {}
      <3>1. WP!InMemory \cap WP!Settled = {}
        BY DEF Components, WP!KInv, WP!Separate
      <3> QED BY <3>1, SumMembers DEF AllRows, DisjointRows
    <2>2. EventsIn(outbox') = {} /\ DisjointRows(outbox') /\ DisjointRows(AllRows')
      BY <1>6, SumMembers DEF Killed, DisjointRows, AllRows
    <2> QED BY <1>6, <2>1, <2>2 DEF Killed, Apart
  <1>7. CASE Stays
    BY <1>7 DEF Stays, NoneTaken, Apart, DisjointRows
  <1> QED BY <1>1, <1>2, <1>3, <1>4, <1>5, <1>6, <1>7 DEF PipeKinds

LEMMA EverywhereKept ==
  ASSUME Pipeline, PipeKinds
  PROVE  \/ Made /\ Everywhere' = Everywhere \cup Hand'
         \/ captured' = captured /\ Everywhere' = Everywhere
  <1>1. CASE Made
    BY <1>1 DEF Made, NoneTaken, Everywhere
  <1>2. CASE Queued \/ SummedUp \/ Stays
    BY <1>2 DEF Queued, SummedUp, Stays, NoneTaken, Everywhere
  <1>3. CASE DrainedOut
    BY <1>3, SumMembers DEF DrainedOut, NoneTaken, Everywhere
  <1>4. CASE Submitted
    <2>1. PICK r \in outbox, row \in [id : Nat, key : A!RowKeys, data : A!RowData] :
            /\ row.data = r.data /\ outbox' = outbox \ {r} /\ AllRows' = AllRows \cup {row}
            /\ UNCHANGED <<Hand, Queue, Summed, lost, captured>>
      BY <1>4 DEF Submitted
    <2>2. /\ EventsIn(AllRows') = EventsIn(AllRows) \cup A!Sum(r.data)
          /\ EventsIn(outbox) = EventsIn(outbox') \cup A!Sum(r.data)
      BY <2>1, SumMembers
    <2> QED BY <2>1, <2>2 DEF Everywhere
  <1>5. CASE Killed
    <2>1. EventsIn(AllRows) = EventsIn(WP!InMemory) \cup EventsIn(WP!Settled)
      BY EventsInUnion DEF AllRows
    <2>2. EventsIn(outbox') = {}
      BY <1>5, SumMembers DEF Killed
    <2> QED BY <1>5, <2>1, <2>2 DEF Killed, Everywhere
  <1> QED BY <1>1, <1>2, <1>3, <1>4, <1>5 DEF PipeKinds

LEMMA PipelineKept ==
  ASSUME Components, Pipeline, PipeKinds, captured \in Nat
  PROVE  Pipeline'
  <1>1. CASE Made /\ Everywhere' = Everywhere \cup Hand'
    <2>1. PICK e \in A!Events : /\ e.id = captured + 1 /\ captured' = captured + 1
                                /\ Everywhere' = Everywhere \cup {e}
      BY <1>1 DEF Made
    <2>2. Counted'
      BY <2>1 DEF Pipeline, Counted
    <2> QED BY <2>2, ApartKept DEF Pipeline
  <1>2. CASE captured' = captured /\ Everywhere' = Everywhere
    <2>1. Counted'
      BY <1>2 DEF Pipeline, Counted
    <2> QED BY <2>1, ApartKept DEF Pipeline
  <1> QED BY <1>1, <1>2, EverywhereKept

\* Every step of the program is of one of these kinds.

LEMMA PipeCases ==
  ASSUME [Next]_vars
  PROVE  \/ Restart
         \/ /\ (\E f \in FlowKeys, dir \in {"in", "out"} : Callback(f, dir)) \/ CallbackSends
            /\ UNCHANGED <<flows, drained, outbox, writerVars, lost>>
         \/ RecvEvent /\ UNCHANGED <<inHand, captured, lost>>
         \/ DrainRows /\ UNCHANGED <<inHand, captured, lost>>
         \/ SubmitRow /\ UNCHANGED <<inHand, captured, lost>>
         \/ UNCHANGED <<inHand, captured, events, flows, drained, outbox, lost, sent>>
  <1>1. CASE Running
    <2>1. UNCHANGED lost
      BY <1>1 DEF Running, runVars
    <2>2. CASE EtwThread \/ Traffic \/ TraceThread
      BY <2>1, <2>2 DEF EtwThread, EtwStart, EtwSeesStop, EtwJoin, Traffic, TraceThread,
         TraceEnds, aggVars, loopVars, writerVars
    <2>3. CASE AggThread
      BY <2>1, <2>3 DEF AggThread, TakeResult, StartWaiting, RecvTimedOut, RecvDisconnected,
         RefreshNames, NotYet, FlushWriter, AggregatorExits, A!UpdateDomain, A!UpdateProcNames,
         W!Flush, W!DropHandle, aggVars, loopVars, etwVars, writerVars
    <2>4. CASE TimerThread \/ MainThread
      BY <2>1, <2>4 DEF TimerThread, MainThread, Join, JoinAgg, ShutdownWriter, MainReturns,
         W!Shutdown, W!Await, aggVars, loopVars, etwVars, writerVars
    <2>5. CASE WriterThread \/ WriterDeadline
      BY <2>1, <2>5 DEF WriterThread, WriterDeadline, W!WriterThread, W!DeadlinePasses, W!Prepare,
         W!RecvRow, W!RecvFlush, W!RecvShutdown, W!Timeout, W!Disconnected, W!SignalDone, W!Exit,
         aggVars, loopVars, etwVars
    <2>6. CASE DnsTask \/ Finished
      BY <2>1, <2>6 DEF DnsTask, Finished, vars, runningVars, processVars, aggVars, loopVars,
         etwVars, writerVars
    <2> QED BY <1>1, <2>2, <2>3, <2>4, <2>5, <2>6 DEF Running, Step
  <1>2. CASE UNCHANGED vars \/ (Tick /\ UNCHANGED runVars)
    BY <1>2 DEF Tick, vars, runningVars, processVars, runVars, aggVars, loopVars, etwVars, writerVars
  <1> QED BY <1>1, <1>2 DEF Next

LEMMA RowsUnmoved ==
  ASSUME TypeOK, Components, [Next]_vars, ~Restart, sent' = sent
  PROVE  NoneTaken
  BY WriterSteps, WP!OthersAddNone, ComponentAssumptions DEF AllRows, NoneTaken, Components

LEMMA EmptyPlaces == Range(<<>>) = {} /\ EventsIn({}) = {}
  BY DEF Range, EventsIn

LEMMA RestartKills ==
  ASSUME TypeOK, Components, Restart
  PROVE  Killed
  <1>1. inHand' = <<>> /\ events' = <<>> /\ outbox' = {} /\ UNCHANGED <<captured, drained>>
    BY DEF Restart
  <1>2. Hand' = {} /\ Queue' = {}
    BY <1>1, EmptyPlaces DEF Hand, Queue
  <1>3. Summed' = {}
    <2>1. \A f \in FlowKeys : flows'[f] = A!NoBytes
      BY DEF Restart
    <2> QED BY <2>1 DEF Summed, A!NoBytes, A!Sum
  <1>4. AllRows' = WP!Settled /\ WP!InMemory' = {}
    <2>1. UNCHANGED <<WP!fateVars, sent, dropped>>
      BY DEF Restart, WP!fateVars
    <2>2. WP!InMemory' = {} /\ WP!Settled' = WP!Settled
      BY <2>1, WP!FreshStartKeepsKInv, ComponentAssumptions DEF Restart, Components
    <2> QED BY <2>2 DEF AllRows
  <1>5. lost' = lost \cup UNION Range(OnTheWay)
    BY DEF Restart
  <1> QED BY <1>1, <1>2, <1>3, <1>4, <1>5, LostInAKill DEF Killed

LEMMA SubmitMoves ==
  ASSUME TypeOK, Components, SubmitRow, UNCHANGED <<inHand, captured, lost>>
  PROVE  Submitted
  <1>1. PICK r \in outbox : WP!Submit("agg", r.key, r.data) /\ outbox' = outbox \ {r}
    BY SameHandles DEF SubmitRow
  <1> DEFINE row == [id |-> sent + 1, key |-> r.key, data |-> r.data]
  <1>2. r.key \in A!RowKeys /\ r.data \in A!RowData
    BY OutboxTyped
  <1>3. row \in [id : Nat, key : A!RowKeys, data : A!RowData]
    <2>1. sent \in Nat
      BY DEF Components, WP!KInv, WP!TypeOK
    <2> QED BY <1>2, <2>1
  <1>4. AllRows' = AllRows \cup {row} /\ WP!InMemory' \subseteq WP!InMemory \cup {row}
    BY <1>1, <1>2, WP!SubmitAddsRow, ComponentAssumptions DEF Components, AllRows
  <1>5. UNCHANGED <<Hand, Queue, Summed, drained>>
    BY DEF SubmitRow, aggVars, Hand, Queue, Summed
  <1>6. row.key = r.key /\ row.data = r.data
    OBVIOUS
  <1> HIDE DEF row
  <1> QED BY <1>1, <1>3, <1>4, <1>5, <1>6 DEF Submitted

LEMMA DrainMoves ==
  ASSUME TypeOK, Components, Stopping, DrainRows, NoneTaken, UNCHANGED <<inHand, captured, lost>>
  PROVE  DrainedOut
  <1>1. outbox' = AP!RowsNow /\ AP!Drain /\ outbox = {} /\ events' = events
    BY SameNames, SameAggregator DEF DrainRows, Stopping, AP!MaybeFlush
  <1>2. Summed' = {}
    <2>1. \A f \in FlowKeys : flows'[f] = AP!NoBytes
      BY <1>1 DEF AP!Drain
    <2> QED BY <2>1 DEF Summed, AP!NoBytes, A!Sum
  <1>3. \A r \in AP!RowsNow : \E f \in FlowKeys : r = AP!RowOf(f) /\ A!Sum(r.data) = A!Sum(flows[f])
    BY SameNames, AP!RowInRowsNow, ComponentAssumptions
  <1>4. \A f \in FlowKeys : A!Sum(flows[f]) # {} => AP!RowOf(f) \in AP!RowsNow
    BY SameNames DEF AP!RowsNow, AP!Tracked
  <1>5. \A f \in FlowKeys : A!Sum(AP!RowOf(f).data) = A!Sum(flows[f])
    BY SameNames, AP!RowOfSum, ComponentAssumptions
  <1>6. EventsIn(outbox') = Summed
    <2>1. ASSUME NEW e \in EventsIn(AP!RowsNow) PROVE e \in Summed
      <3>1. PICK r \in AP!RowsNow : e \in A!Sum(r.data)
        BY SumMembers
      <3> QED BY <1>3, <3>1, SumMembers
    <2>2. ASSUME NEW e \in Summed PROVE e \in EventsIn(AP!RowsNow)
      <3>1. PICK f \in FlowKeys : e \in A!Sum(flows[f])
        BY SumMembers
      <3>2. AP!RowOf(f) \in AP!RowsNow /\ e \in A!Sum(AP!RowOf(f).data)
        BY <1>4, <1>5, <3>1
      <3> QED BY <3>2, SumMembers
    <2> QED BY <1>1, <2>1, <2>2
  <1>7. \A f, g \in FlowKeys : f # g => A!Sum(flows[f]) \cap A!Sum(flows[g]) = {}
    BY SameNames DEF Components, AP!Sums, AP!BytesConserved
  <1>8. DisjointRows(outbox')
    BY <1>1, <1>3, <1>7 DEF DisjointRows
  <1>9. drained' = drained \cup outbox'
    BY <1>1 DEF AP!Drain
  <1>10. \A r, s \in outbox' : r # s => r.key # s.key
    <2>1. \A f \in FlowKeys : AP!RowOf(f).key.flow = f
      BY DEF AP!RowOf
    <2> QED BY <1>1, <1>3, <2>1
  <1>11. ~final => \A r \in outbox', d \in drained : r.key # d.key
    <2>1. ~(0 > MaxTime)
      BY Constants
    <2>2. ~final => AP!MaybeFlush
      BY SameAggregator DEF DrainRows
    <2> QED BY <1>1, <2>1, <2>2, AP!SumsNewWindow, ComponentAssumptions DEF Components, AP!NewWindow
  <1> QED BY <1>1, <1>2, <1>6, <1>8, <1>9, <1>10, <1>11 DEF DrainedOut, Hand, Queue

LEMMA OneElement ==
  ASSUME NEW S, NEW t \in Seq(S), t # <<>>, Len(t) <= 1
  PROVE  Len(t) = 1 /\ DOMAIN t = {1}
  <1> DEFINE n == Len(t)
  <1>1. n \in Nat /\ n # 0 /\ n <= 1 /\ DOMAIN t = 1 .. n
    BY NoMessages
  <1> HIDE DEF n
  <1>2. n = 1
    BY <1>1
  <1>3. 1 .. 1 = {1}
    OBVIOUS
  <1> QED BY <1>1, <1>2, <1>3 DEF n

LEMMA Concatenation ==
  ASSUME NEW S, NEW s \in Seq(S), NEW t \in Seq(S)
  PROVE  /\ s \o t \in Seq(S)
         /\ Len(s \o t) = Len(s) + Len(t)
         /\ \A i \in 1 .. Len(s) : (s \o t)[i] = s[i]
         /\ \A i \in 1 .. Len(t) : (s \o t)[Len(s) + i] = t[i]
  OBVIOUS

LEMMA FirstOfSecond ==
  ASSUME NEW S, NEW s \in Seq(S), NEW t \in Seq(S), 1 \in 1 .. Len(t)
  PROVE  (s \o t)[Len(s) + 1] = t[1]
  OBVIOUS

LEMMA AddOne ==
  ASSUME NEW S, NEW s \in Seq(S), NEW t \in Seq(S), Len(t) = 1
  PROVE  /\ DOMAIN (s \o t) = DOMAIN s \cup {Len(s) + 1}
         /\ \A i \in DOMAIN s : (s \o t)[i] = s[i] /\ i # Len(s) + 1
         /\ (s \o t)[Len(s) + 1] = t[1]
  <1>1. DOMAIN s = 1 .. Len(s) /\ Len(s) \in Nat
    OBVIOUS
  <1>2. Len(s \o t) = Len(s) + 1
    <2>1. Len(s \o t) = Len(s) + Len(t)
      BY Concatenation
    <2> QED BY <2>1
  <1>3. s \o t \in Seq(S)
    OBVIOUS
  <1>4. DOMAIN (s \o t) = 1 .. (Len(s) + 1)
    BY <1>2, <1>3
  <1>5. \A i \in 1 .. Len(s) : (s \o t)[i] = s[i]
    OBVIOUS
  <1>6. (s \o t)[Len(s) + 1] = t[1]
    <2>1. 1 \in 1 .. Len(t)
      OBVIOUS
    <2> QED BY <2>1, FirstOfSecond
  <1> QED BY <1>1, <1>4, <1>5, <1>6

LEMMA RecvMoves ==
  ASSUME TypeOK, Components, Apart, QueuedOnce, Drained, RecvEvent,
         NoneTaken, UNCHANGED <<inHand, captured, lost>>
  PROVE  SummedUp /\ QueuedOnce'
  <1> DEFINE e == Head(events)
  <1>1. events # <<>> /\ events' = Tail(events) /\ A!Observe(e)
        /\ UNCHANGED <<outbox, drained>>
    BY DEF RecvEvent, A!Observe
  <1>2. events \in Seq(A!Events)
    BY DEF TypeOK
  <1>3. /\ e = events[1] /\ 1 \in DOMAIN events
        /\ \A i \in DOMAIN events' : i + 1 \in DOMAIN events /\ events'[i] = events[i + 1] /\ i + 1 # 1
        /\ \A i \in DOMAIN events : i # 1 => i - 1 \in DOMAIN events' /\ events'[i - 1] = events[i]
        /\ \A i, j \in DOMAIN events' : i # j => i + 1 # j + 1
    BY <1>1, <1>2
  <1>4. Queue' = Queue \ {e} /\ e \in Queue
    <2>1. ASSUME NEW x \in Queue' PROVE x \in Queue \ {e}
      BY <1>3 DEF Queue, Range, QueuedOnce
    <2>2. ASSUME NEW x \in Queue, x # e PROVE x \in Queue'
      BY <1>3, <2>2 DEF Queue, Range
    <2> QED BY <1>3, <2>1, <2>2 DEF Queue, Range
  <1>5. QueuedOnce'
    BY <1>3 DEF QueuedOnce
  <1>6. Summed' = Summed \cup {e}
    <2>1. e \in A!Events /\ e.flow \in FlowKeys /\ e.dir \in {"in", "out"}
      <3>1. e \in A!Events
        BY <1>2, <1>1
      <3> QED BY <3>1 DEF A!Events
    <2>2. \A f \in FlowKeys : flows[f] \in A!FlowStats
      BY DEF TypeOK, A!TypeOK
    <2>3. flows \in [FlowKeys -> A!FlowStats]
      BY DEF TypeOK, A!TypeOK
    <2>4. flows' = [flows EXCEPT ![e.flow] = [flows[e.flow] EXCEPT ![e.dir] = @ \cup {e}]]
      BY <1>1, <2>1, <2>3 DEF A!Observe
    <2>5. A!Sum([flows[e.flow] EXCEPT ![e.dir] = @ \cup {e}]) = A!Sum(flows[e.flow]) \cup {e}
      BY <2>1, <2>2 DEF A!FlowStats, A!Sum
    <2>6. \A f \in FlowKeys : A!Sum(flows'[f]) = IF f = e.flow THEN A!Sum(flows[f]) \cup {e}
                                                 ELSE A!Sum(flows[f])
      BY <2>1, <2>3, <2>4, <2>5
    <2> HIDE DEF e
    <2> QED BY <2>1, <2>6 DEF Summed
  <1> HIDE DEF e
  <1>7. SummedUp
    BY <1>1, <1>4, <1>6 DEF SummedUp, Hand
  <1> QED BY <1>5, <1>7

LEMMA CallbackMoves ==
  ASSUME TypeOK, Apart, QueuedOnce, NEW f \in FlowKeys, NEW dir \in {"in", "out"},
         Callback(f, dir) \/ CallbackSends,
         NoneTaken, UNCHANGED <<flows, drained, outbox, lost>>
  PROVE  (Made \/ Queued) /\ QueuedOnce'
  <1>0. UNCHANGED Summed
    BY DEF Summed
  <1>1. CASE Callback(f, dir)
    <2> DEFINE e == [id |-> captured + 1, flow |-> f, dir |-> dir]
    <2>1. /\ captured' = captured + 1 /\ inHand' = <<e>> /\ inHand = <<>> /\ events' = events
          /\ captured < MaxEvents
      BY <1>1 DEF Callback
    <2>2. e \in A!Events /\ e.id = captured + 1
      <3>1. captured \in Nat
        BY DEF TypeOK
      <3> QED BY <2>1, <3>1, Constants DEF A!Events
    <2> HIDE DEF e
    <2>3. Hand' = {e}
      BY <2>1 DEF Hand, Range
    <2>4. Hand = {} /\ Queue' = Queue /\ QueuedOnce'
      BY <2>1, EmptyPlaces DEF Hand, Queue, QueuedOnce
    <2> QED BY <1>0, <2>1, <2>2, <2>3, <2>4 DEF Made
  <1>2. CASE CallbackSends
    <2>1. /\ inHand # <<>> /\ events' = events \o inHand /\ inHand' = <<>> /\ captured' = captured
      BY <1>2 DEF CallbackSends
    <2>2. inHand \in Seq(A!Events) /\ Len(inHand) <= 1 /\ events \in Seq(A!Events)
      BY DEF TypeOK
    <2>3. Len(inHand) = 1 /\ DOMAIN inHand = {1}
      BY <2>1, <2>2, OneElement
    <2>4. /\ DOMAIN events' = DOMAIN events \cup {Len(events) + 1}
          /\ \A i \in DOMAIN events : events'[i] = events[i] /\ i # Len(events) + 1
          /\ events'[Len(events) + 1] = inHand[1]
      BY <2>1, <2>2, <2>3, AddOne
    <2>5. inHand[1] \notin Queue
      BY <2>3 DEF Apart, Hand, Range
    <2>6. Queue' = Queue \cup Hand /\ Hand' = {}
      BY <2>1, <2>3, <2>4, EmptyPlaces DEF Queue, Hand, Range
    <2>7. QueuedOnce'
      BY <2>4, <2>5 DEF QueuedOnce, Queue, Range
    <2> QED BY <1>0, <2>1, <2>6, <2>7 DEF Queued
  <1> QED BY <1>1, <1>2
LEMMA PipeSteps ==
  ASSUME TypeOK, Components, Stopping, Apart, QueuedOnce, Drained, [Next]_vars
  PROVE  PipeKinds /\ QueuedOnce'
  <1>1. CASE Restart
    <2>1. events' = <<>>
      BY <1>1 DEF Restart
    <2> QED BY <1>1, <2>1, RestartKills DEF PipeKinds, QueuedOnce
  <1>2. CASE /\ ~Restart
             /\ (\E f \in FlowKeys, dir \in {"in", "out"} : Callback(f, dir)) \/ CallbackSends
             /\ UNCHANGED <<flows, drained, outbox, writerVars, lost>>
    <2>1. NoneTaken
      BY <1>2, RowsUnmoved DEF writerVars
    <2>2. \E f \in FlowKeys, dir \in {"in", "out"} : Callback(f, dir) \/ CallbackSends
      <3>1. CASE CallbackSends
        <4>1. FlowKeys # {}
          <5>1. inHand \in Seq(A!Events) /\ inHand # <<>>
            BY <3>1 DEF TypeOK, CallbackSends
          <5>2. Head(inHand) \in A!Events
            BY <5>1
          <5> QED BY <5>2 DEF A!Events
        <4> QED BY <3>1, <4>1
      <3> QED BY <1>2, <3>1
    <2>3. PICK f \in FlowKeys, dir \in {"in", "out"} : Callback(f, dir) \/ CallbackSends
      BY <2>2
    <2> QED BY <1>2, <2>1, <2>3, CallbackMoves DEF PipeKinds
  <1>3. CASE ~Restart /\ RecvEvent /\ UNCHANGED <<inHand, captured, lost>>
    <2>1. NoneTaken
      BY <1>3, RowsUnmoved DEF RecvEvent, writerVars
    <2> QED BY <1>3, <2>1, RecvMoves DEF PipeKinds
  <1>4. CASE ~Restart /\ DrainRows /\ UNCHANGED <<inHand, captured, lost>>
    <2>1. NoneTaken
      BY <1>4, RowsUnmoved DEF DrainRows, writerVars
    <2>2. UNCHANGED events
      BY <1>4 DEF DrainRows
    <2> QED BY <1>4, <2>1, <2>2, DrainMoves DEF PipeKinds, QueuedOnce
  <1>5. CASE ~Restart /\ SubmitRow /\ UNCHANGED <<inHand, captured, lost>>
    <2>1. UNCHANGED events
      BY <1>5 DEF SubmitRow
    <2> QED BY <1>5, <2>1, SubmitMoves DEF PipeKinds, QueuedOnce
  <1>6. CASE /\ ~Restart
             /\ UNCHANGED <<inHand, captured, events, flows, drained, outbox, lost, sent>>
    <2>1. NoneTaken
      BY <1>6, RowsUnmoved
    <2>2. UNCHANGED <<Hand, Queue, Summed>> /\ QueuedOnce'
      BY <1>6 DEF Hand, Queue, Summed, QueuedOnce
    <2> QED BY <1>6, <2>1, <2>2 DEF PipeKinds, Stays
  <1> QED BY <1>1, <1>2, <1>3, <1>4, <1>5, <1>6, PipeCases

\* What was drained before is still on its way, settled, or lost.
LEMMA DrainedKept ==
  ASSUME TypeOK, Drained, PipeKinds
  PROVE  Drained'
  <1>1. CASE Made \/ Queued \/ SummedUp \/ Stays
    BY <1>1 DEF Made, Queued, SummedUp, Stays, NoneTaken, Drained
  <1>2. CASE DrainedOut
    BY <1>2, EventsInUnion, EmptyPlaces DEF DrainedOut, NoneTaken, Drained
  <1>3. CASE Submitted
    <2>1. PICK r \in outbox, row \in [id : Nat, key : A!RowKeys, data : A!RowData] :
            /\ row.key = r.key /\ row.data = r.data
            /\ outbox' = outbox \ {r} /\ AllRows' = AllRows \cup {row}
            /\ UNCHANGED <<lost, drained>>
      BY <1>3 DEF Submitted
    <2>2. EventsIn(outbox) \subseteq EventsIn(outbox') \cup EventsIn(AllRows')
          /\ EventsIn(AllRows) \subseteq EventsIn(AllRows')
      BY <2>1, SumMembers
    <2>3. r \in drained
      BY DEF TypeOK
    <2> QED BY <2>1, <2>2, <2>3 DEF Drained
  <1>4. CASE Killed
    <2>1. EventsIn(AllRows) = EventsIn(WP!InMemory) \cup EventsIn(WP!Settled)
      BY EventsInUnion DEF AllRows
    <2> QED BY <1>4, <2>1 DEF Killed, Drained, AllRows
  <1> QED BY <1>1, <1>2, <1>3, <1>4 DEF PipeKinds

\* The last flush is the last one of its run.
LEMMA FinalStays ==
  ASSUME [Next]_vars
  PROVE  Restart \/ (final => final')
  <1>1. CASE StartWaiting \/ RecvEvent \/ RecvTimedOut \/ RecvDisconnected \/ DrainRows
             \/ NotYet \/ SubmitRow \/ FlushWriter \/ AggregatorExits
    BY <1>1 DEF StartWaiting, RecvEvent, RecvTimedOut, RecvDisconnected, DrainRows, NotYet,
       SubmitRow, FlushWriter, AggregatorExits
  <1>2. CASE EtwThread \/ Traffic \/ TraceThread \/ MainThread
    BY <1>2 DEF EtwThread, Traffic, TraceThread, MainThread, loopVars
  <1> QED BY <1>1, <1>2, StoppingCases DEF stopVars

\* Before the last flush of a run no row meets another one.
LEMMA KeysApartKept ==
  ASSUME Drained, KeysApart, PipeKinds, [Next]_vars
  PROVE  KeysApart'
  <1>1. CASE Killed
    BY <1>1 DEF Killed, KeysApart
  <1>2. CASE ~Restart /\ final
    BY <1>2, FinalStays DEF KeysApart
  <1>3. CASE ~final /\ (Made \/ Queued \/ SummedUp \/ Stays)
    BY <1>3 DEF Made, Queued, SummedUp, Stays, NoneTaken, KeysApart
  <1>4. CASE ~final /\ DrainedOut
    BY <1>4 DEF DrainedOut, NoneTaken, Drained, KeysApart
  <1>5. CASE ~final /\ Submitted
    <2>1. PICK r \in outbox, row \in [id : Nat, key : A!RowKeys, data : A!RowData] :
            /\ row.key = r.key
            /\ outbox' = outbox \ {r} /\ AllRows' = AllRows \cup {row}
            /\ WP!InMemory' \subseteq WP!InMemory \cup {row}
      BY <1>5 DEF Submitted
    <2>2. /\ \A m \in WP!InMemory, s \in AllRows : m # s => m.key # s.key
          /\ \A o \in outbox, s \in AllRows : o.key # s.key
          /\ \A o, s \in outbox : o # s => o.key # s.key
          /\ WP!InMemory \subseteq AllRows
      BY <1>5 DEF KeysApart, AllRows
    <2>3. /\ \A m \in WP!InMemory', s \in AllRows' : m # s => m.key # s.key
          /\ \A o \in outbox', s \in AllRows' : o.key # s.key
          /\ \A o, s \in outbox' : o # s => o.key # s.key
      BY <2>1, <2>2
    <2> QED BY <2>3 DEF KeysApart
  <1>6. CASE Restart
    <2>1. outbox' = {} /\ channel' = <<>> /\ batch' = <<>>
      BY <1>6 DEF Restart
    <2> QED BY <1>6, <2>1 DEF KeysApart, WP!InMemory, WP!InChannel, WP!InBatch, WP!RowsIn, WP!Range
  <1> QED BY <1>1, <1>2, <1>3, <1>4, <1>5, <1>6 DEF PipeKinds

-----------------------------------------------------------------------------
\* The invariant holds in every reachable state.

LEMMA ComponentsInit ==
  ASSUME Init
  PROVE  Components /\ A!TypeOK /\ R!TypeOK /\ W!TypeOK
  <1>1. AP!Init /\ RP!Init /\ WP!Init
    BY SameNames
       DEF Init, A!Init, AP!Init, R!Init, RP!Init, W!Init, WP!Init, R!Idle, RP!Idle
  <1>2. AP!IInv /\ RP!IInv /\ WP!IInv
    BY <1>1, AP!InitIInv, RP!InitInv, WP!IInvInit, ComponentAssumptions
  <1>3. AP!Sums /\ WP!KInv
    BY <1>2 DEF AP!IInv, WP!IInv
  <1>4. AP!TypeOK /\ RP!TypeOK /\ WP!TypeOK
    BY <1>2, <1>3 DEF AP!Sums, RP!IInv, WP!KInv
  <1> QED BY <1>2, <1>3, <1>4, SameTypes DEF Components

LEMMA NothingAtStart ==
  ASSUME Init
  PROVE  /\ Hand = {} /\ Queue = {} /\ Summed = {} /\ EventsIn(outbox) = {}
         /\ AllRows = {} /\ EventsIn(AllRows) = {} /\ lost = {}
         /\ outbox = {} /\ drained = {} /\ Everywhere = {}
  <1>1. Hand = {} /\ Queue = {}
    BY EmptyPlaces DEF Init, Hand, Queue
  <1>2. Summed = {}
    <2>1. \A f \in FlowKeys : flows[f] = A!NoBytes
      BY DEF Init, A!Init
    <2> QED BY <2>1 DEF Summed, A!NoBytes, A!Sum
  <1>3. AllRows = {}
    BY DEF Init, W!Init, AllRows, WP!InMemory, WP!InChannel, WP!InBatch, WP!RowsIn, WP!Range,
       WP!Settled
  <1>4. outbox = {} /\ lost = {} /\ drained = {}
    BY DEF Init, A!Init
  <1>5. EventsIn(outbox) = {} /\ EventsIn(AllRows) = {}
    BY <1>3, <1>4, EmptyPlaces
  <1> QED BY <1>1, <1>2, <1>3, <1>4, <1>5 DEF Everywhere

LEMMA TypeInit ==
  ASSUME Init
  PROVE  TypeOK
  <1>1. A!TypeOK /\ R!TypeOK /\ W!TypeOK
    BY ComponentsInit
  <1>2. main = "joinEtw" /\ timer \in {"sleeping", "gone"} /\ stop \in BOOLEAN
        /\ etw = "starting" /\ session \in BOOLEAN /\ trace = "off"
        /\ agg = "top" /\ final \in BOOLEAN
    BY DEF Init
  <1>3. /\ inHand \in Seq(A!Events) /\ Len(inHand) <= 1
        /\ events \in Seq(A!Events) /\ Len(events) <= EventCapacity
    <2>1. inHand = <<>> /\ events = <<>>
      BY DEF Init
    <2> QED BY <2>1, Constants
  <1>4. captured \in 0 .. MaxEvents /\ runs \in 1 .. MaxRuns
    <2>1. captured = 0 /\ runs = 1
      BY DEF Init
    <2> QED BY <2>1, Constants
  <1>5. idleSince \in 0 .. now /\ lastEvent \in 0 .. now
    <2>1. idleSince = 0 /\ lastEvent = 0 /\ now = 0
      BY DEF Init, A!Init
    <2> QED BY <2>1
  <1>6. outbox \subseteq drained /\ lost \subseteq A!Events
    BY DEF Init
  <1> QED BY <1>1, <1>2, <1>3, <1>4, <1>5, <1>6 DEF TypeOK

LEMMA HInvInit ==
  ASSUME Init
  PROVE  HInv
  <1>1. Stopping
    <2>1. /\ inHand = <<>> /\ etw = "starting" /\ trace = "off" /\ main = "joinEtw"
          /\ agg = "top" /\ final = FALSE /\ outbox = {}
      BY DEF Init
    <2> QED BY <2>1 DEF Stopping
  <1>2. Handles
    BY DEF Init, W!Init, Handles, ShutdownLast
  <1>3. Pipeline
    <2>1. captured = 0
      BY DEF Init
    <2> QED BY <2>1, NothingAtStart DEF Pipeline, Apart, DisjointRows, Counted
  <1>4. QueuedOnce
    BY DEF Init, QueuedOnce
  <1>5. Drained /\ KeysApart
    BY NothingAtStart, EmptyPlaces DEF Drained, KeysApart, AllRows
  <1> QED BY <1>1, <1>2, <1>3, <1>4, <1>5, TypeInit, ComponentsInit DEF HInv

LEMMA HInvKept ==
  ASSUME HInv, [Next]_vars
  PROVE  HInv'
  <1>1. /\ TypeOK /\ Components /\ Stopping /\ Handles /\ Pipeline /\ QueuedOnce
        /\ Drained /\ KeysApart /\ Apart
    BY DEF HInv, Pipeline
  <1>2. Components' /\ TypeOK'
    BY <1>1, ComponentsKept, TypeKept
  <1>3. Stopping' /\ Handles'
    BY <1>1, StoppingKept, HandlesKept
  <1>4. PipeKinds /\ QueuedOnce'
    BY <1>1, PipeSteps
  <1>5. captured \in Nat
    BY <1>1 DEF TypeOK
  <1>6. Pipeline' /\ Drained' /\ KeysApart'
    BY <1>1, <1>4, <1>5, PipelineKept, DrainedKept, KeysApartKept
  <1> QED BY <1>2, <1>3, <1>4, <1>6 DEF HInv

\* The inductive invariant holds in every reachable state of the program.
THEOREM Inductive == Spec => []HInv
  <1>1. Init => HInv
    BY HInvInit
  <1>2. HInv /\ [Next]_vars => HInv'
    BY HInvKept
  <1> QED BY <1>1, <1>2, PTL DEF Spec

\* Every variable keeps its type: the two channels never hold more than their
\* capacity, and what is being submitted was drained.
THEOREM TypeCorrect == Spec => []TypeOK
  <1>1. HInv => TypeOK
    BY DEF HInv
  <1> QED BY <1>1, Inductive, PTL

\* What the order of the joins is for: when run_headless returns no event is in
\* a channel, in a sum, or in a row that the writer has not settled, and no row
\* was thrown away unlogged with the channel of the writer.
THEOREM ExitSettles == Spec => []ExitSettlesEverything
  <1>1. ASSUME HInv, main = "returned"
        PROVE  \A p \in DOMAIN OnTheWay : OnTheWay[p] = {}
    <2>1. inHand = <<>> /\ events = <<>> /\ outbox = {}
          /\ \A f \in FlowKeys : flows[f] = A!NoBytes
      BY <1>1 DEF HInv, Stopping
    <2>2. Hand = {} /\ Queue = {} /\ EventsIn(outbox) = {}
      BY <2>1, EmptyPlaces DEF Hand, Queue
    <2>3. Summed = {}
      BY <2>1 DEF Summed, A!NoBytes, A!Sum
    <2>4. WP!InChannel = {} /\ WP!InBatch = {}
      <3>1. channel = <<>> /\ batch = <<>>
        BY <1>1 DEF HInv, Handles, Components, WP!KInv, WP!ClosedIsEmpty
      <3> QED BY <3>1 DEF WP!InChannel, WP!InBatch, WP!RowsIn, WP!Range
    <2>5. EventsIn(WP!InChannel) = {} /\ EventsIn(WP!InBatch) = {}
      BY <2>4, EmptyPlaces
    <2>6. OnTheWay = <<Hand, Queue, Summed, EventsIn(outbox),
                       EventsIn(WP!InChannel), EventsIn(WP!InBatch)>>
      BY SameNames DEF OnTheWay, Hand, Queue, Summed
    <2> QED BY <2>2, <2>3, <2>5, <2>6
  <1>2. HInv => dropped = {}
    BY DEF HInv, Handles
  <1>3. HInv => ExitSettlesEverything
    BY <1>1, <1>2 DEF ExitSettlesEverything
  <1> QED BY <1>3, Inductive, PTL

\* The six places of rows share no event.
LEMMA RowPlacesApart ==
  ASSUME Components, Pipeline
  PROVE  /\ EventsIn(AllRows)
              = EventsIn(WP!InChannel) \cup EventsIn(WP!InBatch) \cup EventsIn(table)
                  \cup EventsIn(ignored) \cup EventsIn(failed) \cup EventsIn(dropped)
         /\ EventsIn(WP!InChannel) \cap
              (EventsIn(WP!InBatch) \cup EventsIn(table) \cup EventsIn(ignored)
                 \cup EventsIn(failed) \cup EventsIn(dropped)) = {}
         /\ EventsIn(WP!InBatch) \cap
              (EventsIn(table) \cup EventsIn(ignored) \cup EventsIn(failed)
                 \cup EventsIn(dropped)) = {}
         /\ EventsIn(table) \cap
              (EventsIn(ignored) \cup EventsIn(failed) \cup EventsIn(dropped)) = {}
         /\ EventsIn(ignored) \cap (EventsIn(failed) \cup EventsIn(dropped)) = {}
         /\ EventsIn(failed) \cap EventsIn(dropped) = {}
  <1>1. AllRows = WP!InChannel \cup WP!InBatch \cup table \cup ignored \cup failed \cup dropped
    BY DEF AllRows, WP!InMemory, WP!Settled
  <1>2. ASSUME NEW R1 \in SUBSET AllRows, NEW R2 \in SUBSET AllRows, R1 \cap R2 = {}
        PROVE  EventsIn(R1) \cap EventsIn(R2) = {}
    BY <1>2, SumMembers DEF Pipeline, DisjointRows
  <1>3. /\ WP!InChannel \cap WP!InBatch = {}
        /\ (WP!InChannel \cup WP!InBatch) \cap (table \cup ignored \cup failed \cup dropped) = {}
        /\ table \cap (ignored \cup failed \cup dropped) = {}
        /\ ignored \cap (failed \cup dropped) = {}
        /\ failed \cap dropped = {}
    BY DEF Components, WP!KInv, WP!Separate, WP!InMemory, WP!Settled
  <1> DEFINE W4 == failed \cup dropped
             W3 == ignored \cup W4
             W2 == table \cup W3
             W1 == WP!InBatch \cup W2
  <1>4. /\ EventsIn(W1) = EventsIn(WP!InBatch) \cup EventsIn(W2)
        /\ EventsIn(W2) = EventsIn(table) \cup EventsIn(W3)
        /\ EventsIn(W3) = EventsIn(ignored) \cup EventsIn(W4)
        /\ EventsIn(W4) = EventsIn(failed) \cup EventsIn(dropped)
    BY EventsInUnion
  <1>5. EventsIn(AllRows) = EventsIn(WP!InChannel) \cup EventsIn(W1)
    <2>1. AllRows = WP!InChannel \cup W1
      BY <1>1
    <2> QED BY <2>1, EventsInUnion
  <1>6. /\ W1 \in SUBSET AllRows /\ WP!InChannel \cap W1 = {}
        /\ W2 \in SUBSET AllRows /\ WP!InBatch \cap W2 = {}
        /\ W3 \in SUBSET AllRows /\ table \cap W3 = {}
        /\ W4 \in SUBSET AllRows /\ ignored \cap W4 = {}
        /\ {WP!InChannel, WP!InBatch, table, ignored, failed, dropped} \subseteq SUBSET AllRows
    BY <1>1, <1>3
  <1> HIDE DEF W1, W2, W3, W4
  <1>7. /\ EventsIn(WP!InChannel) \cap EventsIn(W1) = {}
        /\ EventsIn(WP!InBatch) \cap EventsIn(W2) = {}
        /\ EventsIn(table) \cap EventsIn(W3) = {}
        /\ EventsIn(ignored) \cap EventsIn(W4) = {}
        /\ EventsIn(failed) \cap EventsIn(dropped) = {}
    BY <1>2, <1>3, <1>6
  <1> QED BY <1>4, <1>5, <1>7
\* The eleven places of EventsConserved.
LEMMA FirstPart ==
  ASSUME NEW S, NEW s \in Seq(S), NEW t \in Seq(S), NEW n \in 1 .. Len(s)
  PROVE  (s \o t)[n] = s[n]
  OBVIOUS

LEMMA SecondPart ==
  ASSUME NEW S, NEW s \in Seq(S), NEW t \in Seq(S), NEW n \in 1 .. Len(t)
  PROVE  (s \o t)[Len(s) + n] = t[n]
  OBVIOUS

LEMMA SixAndFive ==
  ASSUME NEW a, NEW b, NEW c, NEW d, NEW e, NEW f, NEW g, NEW h, NEW i, NEW j, NEW k
  PROVE  LET places == <<a, b, c, d, e, f>> \o <<g, h, i, j, k>>
         IN  /\ DOMAIN places = 1 .. 11
             /\ places[1] = a /\ places[2] = b /\ places[3] = c /\ places[4] = d
             /\ places[5] = e /\ places[6] = f /\ places[7] = g /\ places[8] = h
             /\ places[9] = i /\ places[10] = j /\ places[11] = k
  <1> DEFINE S == {a, b, c, d, e, f, g, h, i, j, k}
             s == <<a, b, c, d, e, f>>
             t == <<g, h, i, j, k>>
  <1>1. s \in Seq(S) /\ t \in Seq(S)
    OBVIOUS
  <1>2. Len(s) = 6 /\ Len(t) = 5
    OBVIOUS
  <1>3. /\ s[1] = a /\ s[2] = b /\ s[3] = c /\ s[4] = d /\ s[5] = e /\ s[6] = f
        /\ t[1] = g /\ t[2] = h /\ t[3] = i /\ t[4] = j /\ t[5] = k
    OBVIOUS
  <1> HIDE DEF S, s, t
  <1>4. Len(s \o t) = 11 /\ s \o t \in Seq(S)
    <2>1. Len(s \o t) = Len(s) + Len(t) /\ s \o t \in Seq(S)
      BY <1>1, Concatenation, Zenon
    <2>2. Len(s) + Len(t) = 11
      BY <1>2
    <2> QED BY <2>1, <2>2, Zenon
  <1>5. DOMAIN (s \o t) = 1 .. 11
    BY <1>4
  <1>6. {1, 2, 3, 4, 5, 6} \subseteq 1 .. Len(s) /\ {1, 2, 3, 4, 5} \subseteq 1 .. Len(t)
    BY <1>2
  <1>7. /\ (s \o t)[1] = s[1] /\ (s \o t)[2] = s[2] /\ (s \o t)[3] = s[3]
        /\ (s \o t)[4] = s[4] /\ (s \o t)[5] = s[5] /\ (s \o t)[6] = s[6]
    BY <1>1, <1>6, FirstPart
  <1>8. /\ (s \o t)[Len(s) + 1] = t[1] /\ (s \o t)[Len(s) + 2] = t[2]
        /\ (s \o t)[Len(s) + 3] = t[3] /\ (s \o t)[Len(s) + 4] = t[4]
        /\ (s \o t)[Len(s) + 5] = t[5]
    BY <1>1, <1>6, SecondPart
  <1>9. /\ (s \o t)[7] = t[1] /\ (s \o t)[8] = t[2] /\ (s \o t)[9] = t[3]
        /\ (s \o t)[10] = t[4] /\ (s \o t)[11] = t[5]
    <2>1. /\ Len(s) + 1 = 7 /\ Len(s) + 2 = 8 /\ Len(s) + 3 = 9 /\ Len(s) + 4 = 10
          /\ Len(s) + 5 = 11
      BY <1>2
    <2> QED BY <2>1, <1>8, Zenon
  <1> QED BY <1>3, <1>5, <1>7, <1>9 DEF s, t

LEMMA ElevenPlaces ==
  LET places == OnTheWay \o Settled
  IN  /\ DOMAIN places = 1 .. 11
      /\ places[1] = Hand /\ places[2] = Queue /\ places[3] = Summed
      /\ places[4] = EventsIn(outbox)
      /\ places[5] = EventsIn(WP!InChannel) /\ places[6] = EventsIn(WP!InBatch)
      /\ places[7] = EventsIn(table) /\ places[8] = EventsIn(ignored)
      /\ places[9] = EventsIn(failed) /\ places[10] = EventsIn(dropped) /\ places[11] = lost
  <1>1. OnTheWay = <<Hand, Queue, Summed, EventsIn(outbox),
                     EventsIn(WP!InChannel), EventsIn(WP!InBatch)>>
    BY SameNames DEF OnTheWay, Hand, Queue, Summed
  <1>2. Settled = <<EventsIn(table), EventsIn(ignored), EventsIn(failed), EventsIn(dropped), lost>>
    BY DEF Settled
  <1> QED BY <1>1, <1>2, SixAndFive

LEMMA InOnePlace ==
  ASSUME Components, Pipeline, NEW n \in 1 .. captured
  PROVE  LET places == OnTheWay \o Settled IN
         Cardinality({p \in DOMAIN places : \E e \in places[p] : e.id = n}) = 1
  <1> DEFINE places == OnTheWay \o Settled
  <1>1. /\ DOMAIN places = 1 .. 11
        /\ places[1] = Hand /\ places[2] = Queue /\ places[3] = Summed
        /\ places[4] = EventsIn(outbox)
        /\ places[5] = EventsIn(WP!InChannel) /\ places[6] = EventsIn(WP!InBatch)
        /\ places[7] = EventsIn(table) /\ places[8] = EventsIn(ignored)
        /\ places[9] = EventsIn(failed) /\ places[10] = EventsIn(dropped) /\ places[11] = lost
    BY ElevenPlaces
  <1> HIDE DEF places
  <1>2. \A q \in DOMAIN places : places[q] \subseteq Everywhere
    <2>1. 1 .. 11 = {1, 2, 3, 4, 5, 6, 7, 8, 9, 10, 11}
      OBVIOUS
    <2> QED BY <1>1, <2>1, RowPlacesApart DEF Everywhere
  <1>3. PICK e \in Everywhere : e.id = n
    BY DEF Pipeline, Counted
  <1>4. \A d \in Everywhere : d.id = n => d = e
    BY <1>3 DEF Pipeline, Counted
  <1> DEFINE b1 == EventsIn(outbox)
             b2 == EventsIn(WP!InChannel)
             b3 == EventsIn(WP!InBatch)
             b4 == EventsIn(table)
             b5 == EventsIn(ignored)
             b6 == EventsIn(failed)
             b7 == EventsIn(dropped)
  <1>5. /\ e \in Hand \cup Queue \cup Summed \cup b1 \cup b2 \cup b3 \cup b4 \cup b5 \cup b6
               \cup b7 \cup lost
        /\ Hand \cap (Queue \cup Summed \cup b1 \cup b2 \cup b3 \cup b4 \cup b5 \cup b6
                       \cup b7 \cup lost) = {}
        /\ Queue \cap (Summed \cup b1 \cup b2 \cup b3 \cup b4 \cup b5 \cup b6 \cup b7
                        \cup lost) = {}
        /\ Summed \cap (b1 \cup b2 \cup b3 \cup b4 \cup b5 \cup b6 \cup b7 \cup lost) = {}
        /\ b1 \cap (b2 \cup b3 \cup b4 \cup b5 \cup b6 \cup b7 \cup lost) = {}
        /\ b2 \cap (b3 \cup b4 \cup b5 \cup b6 \cup b7 \cup lost) = {}
        /\ b3 \cap (b4 \cup b5 \cup b6 \cup b7 \cup lost) = {}
        /\ b4 \cap (b5 \cup b6 \cup b7 \cup lost) = {}
        /\ b5 \cap (b6 \cup b7 \cup lost) = {}
        /\ b6 \cap (b7 \cup lost) = {}
        /\ b7 \cap lost = {}
    BY <1>3, RowPlacesApart DEF Pipeline, Apart, Everywhere
  <1>6. \A p, q \in 1 .. 11 : e \in places[p] /\ e \in places[q] => p = q
    <2>1. /\ places[1] = Hand /\ places[2] = Queue /\ places[3] = Summed
          /\ places[4] = b1 /\ places[5] = b2 /\ places[6] = b3 /\ places[7] = b4
          /\ places[8] = b5 /\ places[9] = b6 /\ places[10] = b7 /\ places[11] = lost
      BY <1>1
    <2>2. 1 .. 11 = {1, 2, 3, 4, 5, 6, 7, 8, 9, 10, 11}
      OBVIOUS
    <2> HIDE DEF b1, b2, b3, b4, b5, b6, b7
    <2> QED BY <1>5, <2>1, <2>2
  <1>7. PICK p \in 1 .. 11 : e \in places[p]
    <2>1. {1, 2, 3, 4, 5, 6, 7, 8, 9, 10, 11} \subseteq 1 .. 11
      OBVIOUS
    <2> QED BY <1>1, <1>5, <2>1
  <1>8. {q \in DOMAIN places : \E d \in places[q] : d.id = n} = {p}
    BY <1>1, <1>2, <1>3, <1>4, <1>6, <1>7
  <1>9. Cardinality({q \in DOMAIN places : \E d \in places[q] : d.id = n}) = 1
    BY <1>8, FS_Singleton
  <1> QED BY <1>9 DEF places

\* Conservation from end to end: at every moment, kills and restarts included,
\* an event whose callback was called is in exactly one place of the pipeline,
\* in one row of the database, or in one of the recorded losses.
THEOREM EventsAreConserved == Spec => []EventsConserved
  <1>1. HInv => EventsConserved
    BY InOnePlace DEF HInv, EventsConserved
  <1> QED BY <1>1, Inductive, PTL

\* A row that is ignored was in memory, and the older row of its key is one that
\* KeysApart speaks of: it is a row of the last flush.
LEMMA IgnoredAtTheEnd ==
  ASSUME TypeOK, Components, KeysApart, Components', [Next]_vars, ignored' # ignored
  PROVE  final
  <1>1. ~Restart
    BY DEF Restart
  <1>2. ~SubmitRow
    BY DEF SubmitRow, W!Submit
  <1>3. sent' = sent
    BY <1>1, <1>2, PipeCases DEF writerVars, RecvEvent, DrainRows
  <1>4. AllRows' = AllRows
    BY <1>1, <1>3, RowsUnmoved DEF NoneTaken
  <1>5. PICK s \in ignored' : s \in WP!InMemory
    <2>1. ignored \subseteq ignored' /\ ignored' \subseteq ignored \cup WP!InMemory
      BY <1>1, WriterSteps, WP!IgnoredWereInMemory, ComponentAssumptions DEF Components
    <2> QED BY <2>1
  <1>6. PICK r \in table' : r.key = s.key /\ r.id < s.id
    BY DEF Components, WP!KInv, WP!FirstRowWins
  <1>7. r \in AllRows
    BY <1>4 DEF AllRows, WP!Settled
  <1>8. r # s
    <2>1. r \in [id : Nat, key : A!RowKeys, data : A!RowData]
      BY DEF Components, WP!KInv, WP!TypeOK, WP!Settled, WP!Rows
    <2>2. r.id \in Nat
      BY <2>1
    <2> QED BY <1>6, <2>2
  <1> QED BY <1>5, <1>6, <1>7, <1>8 DEF KeysApart

\* INSERT OR IGNORE may lose a row only after the unconditional flush at exit:
\* the windows of timed flushes never meet, not even those of two runs.
THEOREM OnlyTheLastFlushCollides == Spec => OnlyLastFlushCollides
  <1>1. HInv /\ HInv' /\ [Next]_vars => [ignored' # ignored => final]_vars
    BY IgnoredAtTheEnd DEF HInv
  <1> QED BY <1>1, Inductive, PTL DEF Spec, OnlyLastFlushCollides

-----------------------------------------------------------------------------
\* What the components promise by themselves holds inside the program too, and
\* of the database across kills: the first row of a key wins even when a later
\* run submits the next one, rows are settled in the order of submit(), sums
\* mix no flows, and names and failures are forgotten in time.
THEOREM ComponentsKeepTheirPromises ==
  Spec => [](/\ W!FirstRowWins /\ W!InOrder
             /\ A!BytesConserved
             /\ R!BoundedStaleness /\ R!FailureForgottenInTime)
  <1>1. WP!KInv => W!FirstRowWins /\ W!InOrder
    BY DEF WP!KInv, WP!FirstRowWins, W!FirstRowWins, WP!InOrder, W!InOrder, WP!InMemory, WP!Settled,
       W!Settled, WP!InChannel, W!InChannel, WP!InBatch, W!InBatch, WP!RowsIn, W!RowsIn,
       WP!Range, W!Range, W!InMemory
  <1>2. AP!Sums => A!BytesConserved
    BY DEF AP!Sums, AP!BytesConserved, A!BytesConserved, AP!InSums, A!InSums, AP!Sum, A!Sum
  <1>3. RP!IInv => R!BoundedStaleness /\ R!FailureForgottenInTime
    BY DEF RP!IInv, RP!CacheOK, RP!EntryOK, RP!BoundedStaleness, R!BoundedStaleness,
       R!FailureForgottenInTime
  <1>4. HInv => /\ W!FirstRowWins /\ W!InOrder
                /\ A!BytesConserved
                /\ R!BoundedStaleness /\ R!FailureForgottenInTime
    BY <1>1, <1>2, <1>3 DEF HInv, Components
  <1> QED BY <1>4, Inductive, PTL

-----------------------------------------------------------------------------
\* The refinement of RowSink, from that of the writer.

LEMMA SameMemory ==
  /\ W!InMemory = WP!InMemory /\ W!InMemory' = WP!InMemory'
  /\ W!Open = WP!Open /\ W!Open' = WP!Open'
  BY DEF W!InMemory, WP!InMemory, W!InChannel, WP!InChannel, W!InBatch, WP!InBatch, W!RowsIn,
         WP!RowsIn, W!Range, WP!Range, W!Open, WP!Open

LEMMA SameSink ==
  ASSUME UNCHANGED runs, [WP!Sink!Next]_(WP!Sink!vars)
  PROVE  [Database!Next]_(Database!vars)
  <1>1. ~WP!Sink!Restart
    BY DEF WP!Sink!Restart
  <1>2. WP!Sink!Running => Database!Running
    BY SameNames, SameMemory
       DEF WP!Sink!Running, Database!Running, WP!Sink!Accept, Database!Accept, WP!Sink!Refuse,
           Database!Refuse, WP!Sink!Oldest, Database!Oldest, WP!Sink!Commit, Database!Commit,
           WP!Sink!Fail, Database!Fail, WP!Sink!Close, Database!Close, WP!Sink!Winners,
           Database!Winners
  <1>3. UNCHANGED WP!Sink!vars => UNCHANGED Database!vars
    BY SameMemory DEF WP!Sink!vars, Database!vars
  <1> QED BY <1>1, <1>2, <1>3 DEF WP!Sink!Next, Database!Next

LEMMA RestartIsOne ==
  ASSUME TypeOK, Restart
  PROVE  Database!Restart
  <1>1. runs \in Nat /\ runs' = runs + 1
    BY Constants DEF TypeOK, Restart
  <1>2. W!InMemory' = {}
    BY DEF Restart, W!InMemory, W!InChannel, W!InBatch, W!RowsIn, W!Range
  <1>3. W!Open' = TRUE
    BY DEF Restart, W!Open
  <1> QED BY <1>1, <1>2, <1>3 DEF Restart, Database!Restart

\* Seen from the database, the program with all its threads and its kills is a
\* sink of rows: they are taken one by one, leave memory oldest first in
\* transactions that fail or commit as a whole, and the first row of a key wins,
\* also over those of later runs.  What is in memory is forgotten only when the
\* writer ends or the program is started again.
THEOREM ProgramImplementsSink == Spec => DatabaseSpec
  <1>1. Init => Database!Init
    <2> SUFFICES ASSUME Init PROVE Database!Init
      OBVIOUS
    <2>1. channel = <<>> /\ batch = <<>> /\ writer = "starting"
      BY DEF Init, W!Init
    <2>2. W!InMemory = {}
      BY <2>1 DEF W!InMemory, W!InChannel, W!InBatch, W!RowsIn, W!Range
    <2>3. W!Open = TRUE
      BY <2>1 DEF W!Open
    <2> QED BY <2>2, <2>3 DEF Init, W!Init, Database!Init
  <1>2. ASSUME HInv, [Next]_vars PROVE [Database!Next]_(Database!vars)
    <2>1. TypeOK /\ WP!KInv
      BY <1>2 DEF HInv, Components
    <2>2. CASE Restart
      BY <2>1, <2>2, RestartIsOne DEF Database!Next
    <2>3. CASE ~Restart
      <3>1. UNCHANGED runs
        BY <1>2, <2>3 DEF Next, Running, runVars, vars
      <3>2. [WP!Next]_(WP!vars)
        BY <1>2, <2>1, <2>3, WriterSteps
      <3>3. [WP!Sink!Next]_(WP!Sink!vars)
        BY <2>1, <3>2, WP!StepKinds, WP!StepImplementsSink, ComponentAssumptions
      <3> QED BY <3>1, <3>3, SameSink
    <2> QED BY <2>2, <2>3
  <1> QED BY <1>1, <1>2, Inductive, PTL DEF Spec, DatabaseSpec, Database!Spec

-----------------------------------------------------------------------------
\* The clock, on a machine that is not overloaded (PromptSpec): how long what
\* was observed may stay in memory.  The receive timeout must not be shorter
\* than the flush interval (both are two seconds in the code), and a BEGIN must
\* not fail: the batch it would leave behind waits for the next Flush.

\* What the aggregator has observed and the writer has not settled.
Fresh == Summed \cup EventsIn(outbox) \cup EventsIn(WP!InMemory)

InTime == Fresh # {} => now <= lastEvent + RecvTimeout

\* How far the aggregator's loop has come since the last event.
SummedOnTime ==
  Summed # {} =>
    /\ agg \in {"top", "waiting", "flushing"}
    /\ lastFlush <= lastEvent
    /\ agg = "top" => now = lastEvent
    /\ agg = "waiting" => idleSince = lastEvent
    /\ agg = "flushing" => final \/ now >= lastEvent + RecvTimeout

\* Between two flushes there is a Flush message behind the rows.
FlushFollows == agg # "sending" => WP!FlushBehind

TInv ==
  /\ HInv
  /\ InTime
  /\ SummedOnTime
  /\ FlushFollows

-----------------------------------------------------------------------------
LEMMA PromptIsNext ==
  ASSUME [PromptNext]_vars
  PROVE  [Next]_vars
  BY DEF PromptNext, PromptTick, Next

LEMMA FlushFollowsKept ==
  ASSUME TypeOK, Components, Stopping, FlushFollows, [Next]_vars, "begin" \notin WriterFaults
  PROVE  FlushFollows'
  <1>1. WP!KInv
    BY DEF Components
  <1>2. CASE Restart
    <2>1. channel' = <<>> /\ batch' = <<>>
      BY <1>2 DEF Restart
    <2>2. WP!InMemory' = {}
      BY <2>1 DEF WP!InMemory, WP!InChannel, WP!InBatch, WP!RowsIn, WP!Range
    <2> QED BY <2>2 DEF FlushFollows, WP!FlushBehind
  <1>3. CASE FlushWriter
    <2>1. WP!Flush("agg")
      BY <1>3, SameHandles DEF FlushWriter
    <2> QED BY <1>1, <2>1, WP!AppendedFlushIsBehind, ComponentAssumptions DEF FlushFollows
  <1>4. CASE SubmitRow
    BY <1>4 DEF SubmitRow, FlushFollows
  <1>5. CASE ~Restart /\ ~FlushWriter /\ ~SubmitRow
    <2>1. agg' # "sending" => agg # "sending"
      <3>1. CASE UNCHANGED stopVars
        BY <3>1 DEF stopVars
      <3>2. CASE EtwThread \/ Traffic \/ TraceThread \/ MainThread
        BY <3>2 DEF EtwThread, Traffic, TraceThread, MainThread, loopVars
      <3>3. CASE \/ StartWaiting \/ RecvEvent \/ RecvTimedOut \/ RecvDisconnected
                 \/ DrainRows \/ NotYet \/ AggregatorExits
        BY <3>3 DEF StartWaiting, RecvEvent, RecvTimedOut, RecvDisconnected, TimeoutDue,
           DrainRows, NotYet, AggregatorExits
      <3> QED BY <1>5, <3>1, <3>2, <3>3, StoppingCases
    <2>2. sent' = sent
      BY <1>5, PipeCases DEF writerVars, RecvEvent, DrainRows
    <2> QED BY <1>1, <1>5, <2>1, <2>2, WriterSteps, WP!FlushStaysBehind, ComponentAssumptions
            DEF FlushFollows
  <1> QED BY <1>2, <1>3, <1>4, <1>5

clockVars == <<now, flows, lastFlush, agg, final, idleSince, lastEvent>>

LEMMA ClockCases ==
  ASSUME [PromptNext]_vars
  PROVE  \/ Restart
         \/ PromptTick
         \/ UNCHANGED clockVars
         \/ StartWaiting \/ RecvEvent \/ RecvTimedOut \/ RecvDisconnected \/ DrainRows
         \/ NotYet \/ SubmitRow \/ FlushWriter \/ AggregatorExits
  <1>1. CASE Running
    <2>1. CASE EtwThread \/ Traffic \/ TraceThread
      BY <2>1 DEF EtwThread, Traffic, TraceThread, aggVars, loopVars, clockVars
    <2>2. CASE TakeResult
      BY <2>2 DEF TakeResult, R!TakeResult, A!UpdateDomain, A!clocks, aggVars, loopVars, clockVars
    <2>3. CASE TimerThread \/ MainThread
      BY <2>3 DEF TimerThread, MainThread, aggVars, loopVars, clockVars
    <2>4. CASE WriterThread \/ WriterDeadline
      BY <2>4 DEF WriterThread, WriterDeadline, aggVars, loopVars, clockVars
    <2>5. CASE DnsTask \/ Finished
      BY <2>5 DEF DnsTask, Finished, vars, runningVars, processVars, aggVars, loopVars, clockVars
    <2> QED BY <1>1, <2>1, <2>2, <2>3, <2>4, <2>5 DEF Running, Step, AggThread
  <1>2. CASE UNCHANGED vars
    BY <1>2 DEF vars, runningVars, processVars, aggVars, loopVars, clockVars
  <1> QED BY <1>1, <1>2 DEF PromptNext

LEMMA TickStep ==
  ASSUME PromptTick
  PROVE  /\ now' = now + 1 /\ channel = <<>>
         /\ agg = "gone" \/ (agg = "waiting" /\ ~(now - idleSince >= RecvTimeout))
         /\ UNCHANGED <<flows, lastFlush, agg, final, idleSince, lastEvent, outbox>>
         /\ UNCHANGED <<channel, batch, events>>
  BY DEF PromptTick, AggIdle, TimeoutDue, Tick, R!Tick, aggVars, loopVars, writerVars

LEMMA SummedOnTimeKept ==
  ASSUME TypeOK, TypeOK', Stopping, SummedOnTime, [PromptNext]_vars,
         FlushInterval <= RecvTimeout
  PROVE  SummedOnTime'
  <1>0. /\ now \in Nat /\ lastFlush \in Nat /\ lastFlush <= now
        /\ idleSince \in Nat /\ lastEvent \in Nat /\ lastEvent <= now
        /\ RecvTimeout \in Nat /\ FlushInterval \in Nat
    BY Times, Constants
  <1>1. ASSUME flows' = flows PROVE Summed' = Summed
    BY <1>1 DEF Summed
  <1>2. ASSUME \A f \in FlowKeys : flows'[f] = A!NoBytes PROVE Summed' = {}
    BY <1>2 DEF Summed, A!NoBytes, A!Sum
  <1>3. CASE Restart
    <2>1. \A f \in FlowKeys : flows'[f] = A!NoBytes
      BY <1>3 DEF Restart
    <2> QED BY <1>2, <2>1 DEF SummedOnTime
  <1>4. CASE PromptTick
    BY <1>1, <1>4, TickStep DEF SummedOnTime
  <1>5. CASE UNCHANGED clockVars
    BY <1>1, <1>5 DEF clockVars, SummedOnTime
  <1>6. CASE StartWaiting
    <2>1. agg = "top" /\ agg' = "waiting" /\ idleSince' = now
          /\ UNCHANGED <<now, flows, lastFlush, final, lastEvent>>
      BY <1>6 DEF StartWaiting, aggVars
    <2> QED BY <1>1, <2>1 DEF SummedOnTime
  <1>7. CASE RecvEvent
    <2>1. agg' = "top" /\ lastEvent' = now /\ UNCHANGED <<now, lastFlush>>
      BY <1>7 DEF RecvEvent, A!Observe, A!clocks
    <2> QED BY <1>0, <2>1 DEF SummedOnTime
  <1>8. CASE RecvTimedOut
    <2>1. agg = "waiting" /\ agg' = "flushing" /\ now - idleSince >= RecvTimeout
      BY <1>8 DEF RecvTimedOut, TimeoutDue
    <2>2. UNCHANGED <<now, flows, lastFlush, lastEvent>>
      BY <1>8 DEF RecvTimedOut, RefreshNames, A!UpdateProcNames, A!clocks, aggVars
    <2> QED BY <1>0, <1>1, <2>1, <2>2 DEF SummedOnTime
  <1>9. CASE RecvDisconnected
    <2>1. agg = "waiting" /\ agg' = "flushing" /\ final' = TRUE
      BY <1>9 DEF RecvDisconnected
    <2>2. UNCHANGED <<now, flows, lastFlush, lastEvent>>
      BY <1>9 DEF RecvDisconnected, RefreshNames, A!UpdateProcNames, A!clocks, aggVars
    <2> QED BY <1>1, <2>1, <2>2 DEF SummedOnTime
  <1>10. CASE DrainRows
    <2>1. \A f \in FlowKeys : flows'[f] = A!NoBytes
      BY <1>10 DEF DrainRows, A!MaybeFlush, A!FlushNow, A!Drain
    <2> QED BY <1>2, <2>1 DEF SummedOnTime
  <1>11. CASE NotYet
    <2>1. agg = "flushing" /\ ~final /\ ~(now - lastFlush >= FlushInterval) /\ flows' = flows
      BY <1>11 DEF NotYet, A!ShouldFlush, aggVars
    <2>2. Summed # {} => lastFlush <= lastEvent /\ now >= lastEvent + RecvTimeout
      BY <2>1 DEF SummedOnTime
    <2>3. Summed = {}
      BY <1>0, <2>1, <2>2
    <2> QED BY <1>1, <2>1, <2>3 DEF SummedOnTime
  <1>12. CASE SubmitRow \/ FlushWriter \/ AggregatorExits
    <2>1. agg \in {"sending", "exiting"} /\ flows' = flows
      BY <1>12 DEF SubmitRow, FlushWriter, AggregatorExits, aggVars
    <2> QED BY <1>1, <2>1 DEF SummedOnTime
  <1> QED BY <1>3, <1>4, <1>5, <1>6, <1>7, <1>8, <1>9, <1>10, <1>11, <1>12, ClockCases

\* Only RecvEvent adds to what is fresh.
LEMMA FreshKept ==
  ASSUME PipeKinds, [Next]_vars, ~RecvEvent
  PROVE  Fresh' \subseteq Fresh
  <1>1. \A rows, others : rows \subseteq others => EventsIn(rows) \subseteq EventsIn(others)
    BY DEF EventsIn
  <1>2. CASE Made \/ Queued \/ Stays
    BY <1>1, <1>2 DEF Made, Queued, Stays, NoneTaken, Fresh
  <1>3. CASE SummedUp
    <2>1. UNCHANGED Summed \/ UNCHANGED Queue \/ Restart
      BY PipeCases DEF Summed, Queue, DrainRows, SubmitRow
    <2>2. Restart => Summed' = {}
      BY DEF Restart, Summed, A!NoBytes, A!Sum
    <2> QED BY <1>1, <1>3, <2>1, <2>2 DEF SummedUp, NoneTaken, Fresh
  <1>4. CASE DrainedOut
    BY <1>1, <1>4 DEF DrainedOut, NoneTaken, Fresh
  <1>5. CASE Submitted
    <2>1. PICK r \in outbox, row \in [id : Nat, key : A!RowKeys, data : A!RowData] :
            /\ row.data = r.data /\ outbox' = outbox \ {r}
            /\ WP!InMemory' \subseteq WP!InMemory \cup {row} /\ UNCHANGED Summed
      BY <1>5 DEF Submitted
    <2>2. EventsIn(WP!InMemory') \subseteq EventsIn(WP!InMemory) \cup EventsIn(outbox)
      BY <2>1, SumMembers
    <2> QED BY <1>1, <2>1, <2>2 DEF Fresh
  <1>6. CASE Killed
    BY <1>6, EmptyPlaces DEF Killed, Fresh
  <1> QED BY <1>2, <1>3, <1>4, <1>5, <1>6 DEF PipeKinds

LEMMA InTimeKept ==
  ASSUME TypeOK, Stopping, InTime, SummedOnTime, FlushFollows, PipeKinds, [PromptNext]_vars
  PROVE  InTime'
  <1>0. /\ now \in Nat /\ idleSince \in Nat /\ lastEvent \in Nat /\ RecvTimeout \in Nat
    BY Times, Constants
  <1>1. CASE Restart \/ RecvEvent
    <2>1. now' = now /\ lastEvent' = now
      BY <1>1 DEF Restart, RecvEvent, A!Observe, A!clocks
    <2> QED BY <1>0, <2>1 DEF InTime
  <1>2. CASE PromptTick
    <2>1. SUFFICES ASSUME Fresh' # {} PROVE now' <= lastEvent' + RecvTimeout
      BY DEF InTime
    <2>2. outbox = {}
      BY <1>2, TickStep DEF Stopping
    <2>3. WP!InMemory = {}
      BY <1>2, TickStep DEF FlushFollows, WP!FlushBehind
    <2>4. Fresh' = Fresh
      BY <1>2, TickStep DEF Fresh, Summed, WP!InMemory, WP!InChannel, WP!InBatch
    <2>5. Summed # {}
      BY <2>1, <2>2, <2>3, <2>4, EmptyPlaces DEF Fresh
    <2>6. agg = "waiting" /\ idleSince = lastEvent
      BY <1>2, <2>5, TickStep DEF SummedOnTime
    <2> QED BY <1>0, <1>2, <2>6, TickStep
  <1>3. CASE ~Restart /\ ~RecvEvent /\ ~PromptTick
    <2>1. Fresh' \subseteq Fresh
      BY <1>3, FreshKept, PromptIsNext
    <2>2. UNCHANGED <<now, lastEvent>>
      BY <1>3, ClockCases DEF clockVars, StartWaiting, RecvTimedOut, RecvDisconnected, RefreshNames,
         DrainRows, NotYet, SubmitRow, FlushWriter, AggregatorExits, A!UpdateProcNames,
         A!MaybeFlush, A!FlushNow, A!Drain, A!clocks
    <2> QED BY <2>1, <2>2 DEF InTime
  <1> QED BY <1>1, <1>2, <1>3

LEMMA TInvInit ==
  ASSUME Init
  PROVE  TInv
  <1>1. HInv
    BY HInvInit
  <1>2. Summed = {} /\ EventsIn(outbox) = {} /\ WP!InMemory = {}
    BY NothingAtStart DEF AllRows
  <1>3. Fresh = {}
    BY <1>2, EmptyPlaces DEF Fresh
  <1> QED BY <1>1, <1>2, <1>3 DEF TInv, InTime, SummedOnTime, FlushFollows, WP!FlushBehind

LEMMA TInvKept ==
  ASSUME TInv, [PromptNext]_vars, FlushInterval <= RecvTimeout, "begin" \notin WriterFaults
  PROVE  TInv'
  <1>1. [Next]_vars
    BY PromptIsNext
  <1>2. HInv /\ HInv'
    BY <1>1, HInvKept DEF TInv
  <1>3. /\ TypeOK /\ Components /\ Stopping /\ Apart /\ QueuedOnce /\ Drained /\ TypeOK'
        /\ InTime /\ SummedOnTime /\ FlushFollows
    BY <1>2 DEF TInv, HInv, Pipeline
  <1>4. PipeKinds
    BY <1>1, <1>3, PipeSteps
  <1>5. InTime' /\ SummedOnTime' /\ FlushFollows'
    BY <1>1, <1>3, <1>4, InTimeKept, SummedOnTimeKept, FlushFollowsKept
  <1> QED BY <1>2, <1>5 DEF TInv

\* What a kill can cost: when no event was observed for longer than a receive
\* timeout, the aggregator and the writer hold none that is not settled.  The
\* flush after the timeout is due, for the last flush was no later than the
\* last event; and the Flush message behind the rows empties the batch.
THEOREM QuietIsDurable ==
  ASSUME FlushInterval <= RecvTimeout, "begin" \notin WriterFaults
  PROVE  PromptSpec => []QuietMeansDurable
  <1>1. Init => TInv
    BY TInvInit
  <1>2. TInv /\ [PromptNext]_vars => TInv'
    BY TInvKept
  <1>3. TInv => QuietMeansDurable
    <2> SUFFICES ASSUME TInv, now - lastEvent > RecvTimeout
                 PROVE  \A p \in 3 .. 6 : OnTheWay[p] = {}
      BY DEF QuietMeansDurable
    <2>1. now \in Nat /\ lastEvent \in Nat /\ RecvTimeout \in Nat
      BY Times, Constants DEF TInv, HInv
    <2>2. Fresh = {}
      BY <2>1 DEF TInv, InTime
    <2>3. EventsIn(WP!InMemory) = EventsIn(WP!InChannel) \cup EventsIn(WP!InBatch)
      BY EventsInUnion DEF WP!InMemory
    <2>4. OnTheWay = <<Hand, Queue, Summed, EventsIn(outbox),
                       EventsIn(WP!InChannel), EventsIn(WP!InBatch)>>
      BY SameNames DEF OnTheWay, Hand, Queue, Summed
    <2>5. /\ OnTheWay[3] = {} /\ OnTheWay[4] = {} /\ OnTheWay[5] = {} /\ OnTheWay[6] = {}
      BY <2>2, <2>3, <2>4 DEF Fresh
    <2>6. 3 .. 6 = {3, 4, 5, 6}
      OBVIOUS
    <2> QED BY <2>5, <2>6
  <1> QED BY <1>1, <1>2, <1>3, PTL DEF PromptSpec

=============================================================================
