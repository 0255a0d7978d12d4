---------------------------- MODULE FlowAggregator ----------------------------
(***************************************************************************)
(* The flow aggregator, src/src/capture/flow.rs: it sums the bytes of the  *)
(* network events per flow and direction, and drains the sums into one row *)
(* of table flows per flow, stamped with the start of the flush window.    *)
(*                                                                         *)
(* A sum of bytes is modelled by the set of the events that were summed, a *)
(* FlowKey by a record whose fields "pid" and "ip" the rows refer to.      *)
(* Instant is a clock that only advances; the wall clock, ahead of it by   *)
(* "skew", may be set forward and back.                                    *)
(***************************************************************************)
EXTENDS Integers, FiniteSets

CONSTANTS
  FlowKeys,       \* the FlowKeys of the traffic, records with "pid" and "ip"
  ProcNames,      \* process names
  Domains,        \* domain names
  None,           \* no name: "pid:N" for a process, NULL for a domain
  FlushInterval,  \* FlowAggregator::flush_interval, in ticks
  MaxEvents,      \* bound of the model: events in a behaviour
  MaxTime,        \* bound of the model: ticks of the clock
  MaxSkew         \* bound of the model: how far the wall clock is set

ASSUME AggregatorAssumption ==
  /\ FlushInterval \in Nat \ {0}
  /\ MaxEvents \in Nat /\ MaxTime \in Nat /\ MaxSkew \in Nat
  /\ None \notin ProcNames \cup Domains

VARIABLES
  now,        \* the clock of Instant::now
  skew,       \* the wall clock of now_ms, less now
  flows,      \* flows: the events summed so far, per FlowKey and direction
  procNames,  \* proc_names: pid -> name
  domains,    \* domains: ip -> name
  lastFlush,  \* last_flush
  observed,   \* history: the events observed
  drained,    \* history: rows drained since the start
  setBack     \* history: the wall clock was set back

hints == <<procNames, domains>>
clocks == <<now, skew, setBack>>
vars == <<clocks, flows, procNames, domains, lastFlush, observed, drained>>

Pids == {f.pid : f \in FlowKeys}
Ips == {f.ip : f \in FlowKeys}

Events == [id : 1 .. MaxEvents, flow : FlowKeys, dir : {"in", "out"}]
FlowStats == [in : SUBSET Events, out : SUBSET Events]
NoBytes == [in |-> {}, out |-> {}]

Buckets == 0 .. ((MaxTime + MaxSkew) \div FlushInterval)
RowKeys == [bucket : Buckets, flow : FlowKeys]
RowData == [name : ProcNames \cup {None}, domain : Domains \cup {None},
            in : SUBSET Events, out : SUBSET Events]

\* Events in a stats record, or in the columns of a row.
Sum(stats) == stats.in \cup stats.out

\* The keys of the HashMap.
Tracked == {f \in FlowKeys : Sum(flows[f]) # {}}

-----------------------------------------------------------------------------
\* A map is extended, never replaced: a name outlives its process.
Extend(map, with) ==
  [x \in DOMAIN map \cup DOMAIN with |-> IF x \in DOMAIN with THEN with[x] ELSE map[x]]

UpdateProcNames(snapshot) ==
  /\ procNames' = Extend(procNames, snapshot)
  /\ UNCHANGED <<clocks, flows, domains, lastFlush, observed, drained>>

UpdateDomain(ip, domain) ==
  /\ domains' = Extend(domains, [i \in {ip} |-> domain])
  /\ UNCHANGED <<clocks, flows, procNames, lastFlush, observed, drained>>

\* Variant: insert() for entry().or_default(), new stats in place of the old.
ObserveAfresh(e) ==
  /\ flows' = [flows EXCEPT ![e.flow] = [NoBytes EXCEPT ![e.dir] = {e}]]
  /\ observed' = observed \cup {e}
  /\ UNCHANGED <<clocks, hints, lastFlush, drained>>

Observe(e) ==
  /\ flows' = [flows EXCEPT ![e.flow][e.dir] = @ \cup {e}]
  /\ observed' = observed \cup {e}
  /\ UNCHANGED <<clocks, hints, lastFlush, drained>>

\* Variant: a comparison off by one.
ShouldFlushLate == now - lastFlush > FlushInterval

ShouldFlush == now - lastFlush >= FlushInterval

Lookup(map, x) == IF x \in DOMAIN map THEN map[x] ELSE None

\* Variant: windows longer than the flush interval.
LongWindow == (now + skew) \div (2 * FlushInterval)

Window == (now + skew) \div FlushInterval

RowOf(f) ==
  [key  |-> [bucket |-> Window, flow |-> f],
   data |-> [name |-> Lookup(procNames, f.pid), domain |-> Lookup(domains, f.ip),
             in |-> flows[f].in, out |-> flows[f].out]]

RowsNow == {RowOf(f) : f \in Tracked}

\* Variants: rows built without draining the map; the time of the next flush
\* kept in place of the last; the time of the last flush not kept.
DrainWithoutReset ==
  /\ drained' = drained \cup RowsNow
  /\ lastFlush' = now
  /\ UNCHANGED <<clocks, flows, hints, observed>>

DrainNextFlush ==
  /\ drained' = drained \cup RowsNow
  /\ flows' = [f \in FlowKeys |-> NoBytes]
  /\ lastFlush' = now + FlushInterval
  /\ UNCHANGED <<clocks, hints, observed>>

DrainUntimed ==
  /\ drained' = drained \cup RowsNow
  /\ flows' = [f \in FlowKeys |-> NoBytes]
  /\ UNCHANGED <<clocks, lastFlush, hints, observed>>

\* drain_into_rows: HashMap::drain yields the rows in no particular order.
Drain ==
  /\ drained' = drained \cup RowsNow
  /\ flows' = [f \in FlowKeys |-> NoBytes]
  /\ lastFlush' = now
  /\ UNCHANGED <<clocks, hints, observed>>

\* The part of maybe_flush and flush_now before the rows go to the writer.
MaybeFlush == ShouldFlush /\ Drain
FlushNow == Drain

-----------------------------------------------------------------------------
\* The aggregator by itself, called in any order.

Init ==
  /\ now = 0
  /\ flows = [f \in FlowKeys |-> NoBytes]
  /\ procNames = <<>>
  /\ domains = <<>>
  /\ lastFlush = 0
  /\ observed = {} /\ drained = {}
  /\ skew \in 0 .. MaxSkew /\ setBack = FALSE

\* The events in the sums of the map and of the rows.
InSums ==
  (UNION {Sum(flows[f]) : f \in FlowKeys}) \cup (UNION {Sum(r.data) : r \in drained})

Snapshots == UNION {[P -> ProcNames] : P \in SUBSET Pids}

Tick ==
  /\ now < MaxTime
  /\ now' = now + 1
  /\ UNCHANGED <<skew, setBack, flows, hints, lastFlush, observed, drained>>

SetWallClock(to) ==
  /\ skew' = to
  /\ setBack' = (setBack \/ to < skew)
  /\ UNCHANGED <<now, flows, hints, lastFlush, observed, drained>>

Next ==
  \/ \E e \in Events : e.id = Cardinality(observed) + 1 /\ Observe(e)
  \/ \E snapshot \in Snapshots : UpdateProcNames(snapshot)
  \/ \E ip \in Ips, domain \in Domains : UpdateDomain(ip, domain)
  \/ MaybeFlush
  \/ FlushNow
  \/ Tick
  \/ \E to \in 0 .. MaxSkew : SetWallClock(to)

Spec == Init /\ [][Next]_vars
-----------------------------------------------------------------------------
\* Properties.

TypeOK ==
  /\ now \in 0 .. MaxTime /\ skew \in 0 .. MaxSkew /\ setBack \in BOOLEAN
  /\ flows \in [FlowKeys -> FlowStats]
  /\ DOMAIN procNames \subseteq Pids /\ \A p \in DOMAIN procNames : procNames[p] \in ProcNames
  /\ DOMAIN domains \subseteq Ips /\ \A i \in DOMAIN domains : domains[i] \in Domains
  /\ lastFlush \in 0 .. now
  /\ observed \subseteq Events
  /\ drained \subseteq [key : RowKeys, data : RowData]

\* Bytes are conserved and never attributed to another flow or direction: every
\* event ever observed, and nothing else, is in a sum, in one only, and in that
\* of its own flow and direction, whether the sum is still in the map or
\* already in one of the rows handed out.
BytesConserved ==
  /\ InSums = observed
  /\ \A f \in FlowKeys : \A e \in Sum(flows[f]) :
       e.flow = f /\ e \in flows[f][e.dir]
  /\ \A r \in drained : \A e \in Sum(r.data) :
       e.flow = r.key.flow /\ e \in r.data[e.dir]
  /\ \A r \in drained, f \in FlowKeys : Sum(r.data) \cap Sum(flows[f]) = {}
  /\ \A r, s \in drained : r # s => Sum(r.data) \cap Sum(s.data) = {}
  /\ \A s \in {flows[f] : f \in FlowKeys} \cup {r.data : r \in drained} :
       s.in \cap s.out = {}

\* A flush on the timer never produces a second row for the window and flow of
\* a row handed out before, which the writer's INSERT OR IGNORE would discard:
\* last_flush, set by every drain, keeps timed flushes a whole window apart, as
\* long as the wall clock that names the windows is not set back.
TimedFlushOpensNewWindow ==
  [][MaybeFlush /\ ~setBack => \A r \in RowsNow, s \in drained : r.key # s.key]_vars
=============================================================================
