------------------------- MODULE FlowAggregatorProofs -------------------------
(***************************************************************************)
(* Proofs about FlowAggregator, for any flows, any flush interval and any  *)
(* number of events.                                                       *)
(***************************************************************************)
EXTENDS FlowAggregator, FiniteSetTheorems, TLAPS

-----------------------------------------------------------------------------
\* Facts about windows: division by the flush interval.

LEMMA WindowBounds ==
  ASSUME NEW t \in Nat, NEW i \in Nat \ {0}
  PROVE  /\ t \div i \in Nat
         /\ (t \div i) * i <= t
         /\ t < (t \div i) * i + i
  OBVIOUS

LEMMA Scaled ==
  ASSUME NEW p \in Nat, NEW q \in Nat, NEW i \in Nat \ {0}, p <= q
  PROVE  p * i <= q * i
  OBVIOUS

LEMMA WindowMonotone ==
  ASSUME NEW t \in Nat, NEW u \in Nat, NEW i \in Nat \ {0}, t <= u
  PROVE  t \div i <= u \div i
  <1> DEFINE p == t \div i
  <1> DEFINE q == u \div i
  <1>1. /\ p \in Nat /\ p * i <= t
        /\ q \in Nat /\ u < q * i + i
    BY WindowBounds
  <1> HIDE DEF p, q
  <1>2. ASSUME q < p PROVE FALSE
    <2>1. (q + 1) * i <= p * i
      BY <1>1, <1>2, Scaled
    <2>2. (q + 1) * i = q * i + i
      BY <1>1
    <2>3. p * i \in Nat /\ q * i \in Nat
      BY <1>1
    <2> QED BY <1>1, <2>1, <2>2, <2>3
  <1>3. p <= q
    BY <1>1, <1>2
  <1> QED BY <1>3 DEF p, q

\* A window that began no later than t is over when an interval has passed.
LEMMA WindowOver ==
  ASSUME NEW t \in Nat, NEW u \in Nat, NEW i \in Nat \ {0}, NEW p \in Nat,
         p * i <= t, u - t >= i
  PROVE  p # u \div i
  <1>1. u < (u \div i) * i + i
    BY WindowBounds
  <1> DEFINE q == u \div i
  <1>2. q \in Nat /\ u < q * i + i
    BY <1>1, WindowBounds
  <1> HIDE DEF q
  <1>3. ASSUME p = q PROVE FALSE
    <2>1. p * i \in Nat
      OBVIOUS
    <2> QED BY <1>2, <1>3, <2>1
  <1> QED BY <1>3 DEF q

-----------------------------------------------------------------------------
\* Facts about stats records.

LEMMA ObservedStats ==
  ASSUME NEW r \in FlowStats, NEW e \in Events
  PROVE  LET s == [r EXCEPT ![e.dir] = @ \cup {e}] IN
         /\ s \in FlowStats
         /\ Sum(s) = Sum(r) \cup {e}
         /\ \A d \in Events : d \in s[d.dir] <=> d \in r[d.dir] \/ d = e
         /\ e \notin Sum(r) /\ r.in \cap r.out = {} => s.in \cap s.out = {}
  BY DEF FlowStats, Events, Sum

LEMMA StatsAreEvents ==
  ASSUME NEW r \in FlowStats
  PROVE  Sum(r) \subseteq Events
  BY DEF FlowStats, Sum

LEMMA NoBytesEmpty == NoBytes \in FlowStats /\ Sum(NoBytes) = {} /\ NoBytes.in = {} /\ NoBytes.out = {}
  BY DEF NoBytes, FlowStats, Sum

LEMMA ExtendTyped ==
  ASSUME NEW f, NEW g, NEW S, NEW T, DOMAIN f \subseteq S, DOMAIN g \subseteq S,
         \A x \in DOMAIN f : f[x] \in T, \A x \in DOMAIN g : g[x] \in T
  PROVE  DOMAIN Extend(f, g) \subseteq S /\ \A x \in DOMAIN Extend(f, g) : Extend(f, g)[x] \in T
  BY DEF Extend

\* The rows a drain makes.
LEMMA RowsNowTyped ==
  ASSUME TypeOK
  PROVE  RowsNow \subseteq [key : RowKeys, data : RowData]
  <1> SUFFICES ASSUME NEW f \in Tracked PROVE RowOf(f) \in [key : RowKeys, data : RowData]
    BY DEF RowsNow
  <1>1. f \in FlowKeys /\ flows[f] \in FlowStats
    BY DEF Tracked, TypeOK
  <1>2. Window \in Buckets
    <2>1. now + skew \in Nat /\ now + skew <= MaxTime + MaxSkew /\ MaxTime + MaxSkew \in Nat
      BY AggregatorAssumption DEF TypeOK
    <2>2. FlushInterval \in Nat \ {0}
      BY AggregatorAssumption
    <2>3. /\ (now + skew) \div FlushInterval \in Nat
          /\ (MaxTime + MaxSkew) \div FlushInterval \in Nat
      BY <2>1, <2>2, WindowBounds
    <2>4. (now + skew) \div FlushInterval <= (MaxTime + MaxSkew) \div FlushInterval
      BY <2>1, <2>2, WindowMonotone
    <2> QED BY <2>3, <2>4 DEF Window, Buckets
  <1>3. /\ Lookup(procNames, f.pid) \in ProcNames \cup {None}
        /\ Lookup(domains, f.ip) \in Domains \cup {None}
    BY DEF TypeOK, Lookup
  <1> QED BY <1>1, <1>2, <1>3 DEF RowOf, RowKeys, RowData, FlowStats

\* A row holds what was in the map.
LEMMA RowOfSum ==
  ASSUME NEW f
  PROVE  /\ Sum(RowOf(f).data) = Sum(flows[f])
         /\ RowOf(f).data.in = flows[f].in /\ RowOf(f).data.out = flows[f].out
         /\ RowOf(f).key = [bucket |-> Window, flow |-> f]
  BY DEF RowOf, Sum

LEMMA RowInRowsNow ==
  ASSUME NEW r \in RowsNow
  PROVE  \E f \in FlowKeys :
           /\ Sum(r.data) = Sum(flows[f])
           /\ r.data.in = flows[f].in /\ r.data.out = flows[f].out
           /\ r.key.bucket = (now + skew) \div FlushInterval /\ r.key.flow = f
           /\ r = RowOf(f)
  <1>1. PICK f \in Tracked : r = RowOf(f)
    BY DEF RowsNow
  <1>2. /\ r.key = [bucket |-> Window, flow |-> f]
        /\ Sum(r.data) = Sum(flows[f])
        /\ r.data.in = flows[f].in /\ r.data.out = flows[f].out
    BY <1>1, RowOfSum
  <1>3. r.key.bucket = Window /\ r.key.flow = f
    BY <1>2
  <1> QED BY <1>1, <1>2, <1>3 DEF Window, Tracked

\* Where an observed event is.
LEMMA Members ==
  ASSUME NEW map, NEW rows, NEW e
  PROVE  e \in (UNION {Sum(map[f]) : f \in FlowKeys}) \cup (UNION {Sum(r.data) : r \in rows})
           <=> \/ \E f \in FlowKeys : e \in Sum(map[f])
               \/ \E r \in rows : e \in Sum(r.data)
  <1>1. e \in UNION {Sum(map[f]) : f \in FlowKeys} <=> \E f \in FlowKeys : e \in Sum(map[f])
    OBVIOUS
  <1>2. e \in UNION {Sum(r.data) : r \in rows} <=> \E r \in rows : e \in Sum(r.data)
    OBVIOUS
  <1> QED BY <1>1, <1>2

-----------------------------------------------------------------------------
\* The inductive invariant.  BytesConserved needs to know that the next event
\* is a new one (Numbered), TimedFlushOpensNewWindow that the windows of all rows drained
\* so far began, by a wall clock never set back, before the last flush.

Numbered ==
  /\ IsFiniteSet(observed)
  /\ \A e \in observed : e.id <= Cardinality(observed)

WindowsBegan ==
  ~setBack => \A r \in drained : r.key.bucket * FlushInterval <= lastFlush + skew

\* What does not depend on how the events are numbered (see HeadlessProofs).
Sums ==
  /\ TypeOK
  /\ BytesConserved
  /\ WindowsBegan

IInv == Sums /\ Numbered

LEMMA InitIInv == Init => IInv
  <1> SUFFICES ASSUME Init PROVE IInv
    OBVIOUS
  <1>1. \A f \in FlowKeys : flows[f] = NoBytes
    BY DEF Init
  <1>2. TypeOK
    <2>1. now \in 0 .. MaxTime /\ skew \in 0 .. MaxSkew /\ lastFlush \in 0 .. now
      BY AggregatorAssumption DEF Init
    <2>2. setBack \in BOOLEAN /\ flows \in [FlowKeys -> FlowStats]
      BY NoBytesEmpty DEF Init
    <2>3. DOMAIN procNames = {} /\ DOMAIN domains = {} /\ drained = {} /\ observed = {}
      BY DEF Init
    <2> QED BY <2>1, <2>2, <2>3 DEF TypeOK
  <1>3. InSums = {} /\ observed = {}
    BY <1>1, NoBytesEmpty DEF Init, InSums
  <1>4. BytesConserved
    BY <1>1, <1>3, NoBytesEmpty DEF Init, BytesConserved
  <1>5. Numbered
    BY <1>3, FS_EmptySet DEF Numbered
  <1>6. WindowsBegan
    BY DEF Init, WindowsBegan
  <1> QED BY <1>2, <1>4, <1>5, <1>6 DEF IInv, Sums

\* An event not observed before goes to one sum.
LEMMA ObserveKeepsSums ==
  ASSUME Sums, NEW e \in Events, e \notin InSums, Observe(e)
  PROVE  Sums' /\ observed' = observed \cup {e}
  <1> DEFINE g == e.flow
  <1> DEFINE stats == [flows[g] EXCEPT ![e.dir] = @ \cup {e}]
  <1>1. /\ flows \in [FlowKeys -> FlowStats] /\ g \in FlowKeys
        /\ flows' = [flows EXCEPT ![g] = stats]
        /\ observed' = observed \cup {e}
        /\ UNCHANGED <<now, skew, setBack, procNames, domains, lastFlush, drained>>
    BY DEF Sums, TypeOK, Events, Observe, hints, clocks
  <1>3. e \notin Sum(flows[g]) /\ \A r \in drained : e \notin Sum(r.data)
    BY <1>1, Members DEF InSums
  <1>4. flows[g].in \cap flows[g].out = {}
    BY <1>1 DEF Sums, BytesConserved
  <1>5. /\ stats \in FlowStats
        /\ Sum(stats) = Sum(flows[g]) \cup {e}
        /\ \A d \in Events : d \in stats[d.dir] <=> d \in flows[g][d.dir] \/ d = e
        /\ stats.in \cap stats.out = {}
    BY <1>1, <1>3, <1>4, ObservedStats
  <1> HIDE DEF stats
  <1>6. flows'[g] = stats /\ \A f \in FlowKeys : f # g => flows'[f] = flows[f]
    BY <1>1
  <1>7. TypeOK'
    BY <1>1, <1>5 DEF Sums, TypeOK
  <1>9. InSums' = InSums \cup {e}
    BY <1>1, <1>5, <1>6 DEF InSums
  <1>8. BytesConserved'
    <2>1. ASSUME NEW f \in FlowKeys, NEW d \in Sum(flows'[f])
          PROVE  d.flow = f /\ d \in flows'[f][d.dir]
      <3>1. CASE f = g
        <4>1. d \in Events /\ (d \in Sum(flows[g]) \/ d = e)
          BY <1>1, <1>5, <1>6, <2>1, <3>1, StatsAreEvents
        <4> QED BY <1>1, <1>5, <1>6, <3>1, <4>1 DEF Sums, BytesConserved
      <3>2. CASE f # g
        BY <1>6, <2>1, <3>2 DEF Sums, BytesConserved
      <3> QED BY <3>1, <3>2
    <2>2. ASSUME NEW r \in drained, NEW f \in FlowKeys
          PROVE  Sum(r.data) \cap Sum(flows'[f]) = {}
      BY <1>1, <1>3, <1>5, <1>6 DEF Sums, BytesConserved
    <2>3. ASSUME NEW f \in FlowKeys PROVE flows'[f].in \cap flows'[f].out = {}
      BY <1>5, <1>6 DEF Sums, BytesConserved
    <2>4. InSums' = observed'
      BY <1>1, <1>9 DEF Sums, BytesConserved
    <2> QED BY <1>1, <2>1, <2>2, <2>3, <2>4 DEF Sums, BytesConserved
  <1>10. WindowsBegan'
    BY <1>1 DEF Sums, WindowsBegan
  <1> QED BY <1>1, <1>7, <1>8, <1>10 DEF Sums

\* A drain moves every sum into a row of its own and leaves nothing behind.
LEMMA DrainKeepsSums ==
  ASSUME Sums, Drain
  PROVE  Sums' /\ observed' = observed
  <1>1. /\ drained' = drained \cup RowsNow
        /\ flows' = [f \in FlowKeys |-> NoBytes]
        /\ lastFlush' = now
        /\ UNCHANGED <<now, skew, setBack, procNames, domains, observed>>
    BY DEF Drain, hints, clocks
  <1>2. \A f \in FlowKeys : flows'[f] = NoBytes /\ Sum(flows'[f]) = {}
    BY <1>1, NoBytesEmpty
  <1>3. now \in Nat /\ lastFlush \in Nat /\ lastFlush <= now /\ now <= MaxTime /\ skew \in Nat
    BY AggregatorAssumption DEF Sums, TypeOK
  <1>4. \A r \in RowsNow : \E f \in FlowKeys :
          /\ r = RowOf(f)
          /\ Sum(r.data) = Sum(flows[f])
          /\ r.data.in = flows[f].in /\ r.data.out = flows[f].out
          /\ r.key.bucket = (now + skew) \div FlushInterval /\ r.key.flow = f
    BY RowInRowsNow
  <1>5. TypeOK'
    <2>1. RowsNow \subseteq [key : RowKeys, data : RowData]
      BY RowsNowTyped DEF Sums
    <2>2. flows' \in [FlowKeys -> FlowStats]
      BY <1>1, NoBytesEmpty
    <2>3. lastFlush' \in 0 .. now'
      BY <1>1, <1>3
    <2> QED BY <1>1, <2>1, <2>2, <2>3 DEF Sums, TypeOK
  <1>6. InSums' = InSums
    <2>1. ASSUME NEW e PROVE e \in InSums' <=> e \in InSums
      <3>1. e \in InSums' <=> \E r \in drained \cup RowsNow : e \in Sum(r.data)
        BY <1>1, <1>2, Members DEF InSums
      <3>2. (\E r \in RowsNow : e \in Sum(r.data)) <=> \E f \in FlowKeys : e \in Sum(flows[f])
        <4>1. \A f \in FlowKeys : e \in Sum(flows[f]) => RowOf(f) \in RowsNow
          BY DEF RowsNow, Tracked
        <4> QED BY <1>4, <4>1, RowOfSum
      <3>3. e \in InSums <=>
              \/ \E f \in FlowKeys : e \in Sum(flows[f])
              \/ \E r \in drained : e \in Sum(r.data)
        BY Members DEF InSums
      <3> QED BY <3>1, <3>2, <3>3
    <2> QED BY <2>1
  <1>7. BytesConserved'
    <2>1. \A f \in FlowKeys : \A e \in Sum(flows[f]) : e.flow = f /\ e \in flows[f][e.dir]
      BY DEF Sums, BytesConserved
    <2>2. ASSUME NEW r \in RowsNow, NEW e \in Sum(r.data)
          PROVE  e.flow = r.key.flow /\ e \in r.data[e.dir]
      <3>1. PICK f \in FlowKeys :
              /\ Sum(r.data) = Sum(flows[f])
              /\ r.data.in = flows[f].in /\ r.data.out = flows[f].out
              /\ r.key.flow = f
        BY <1>4
      <3>2. e.flow = f /\ e \in flows[f][e.dir] /\ e \in Events
        BY <2>1, <2>2, <3>1, StatsAreEvents DEF Sums, TypeOK
      <3>3. CASE e.dir = "in"
        BY <3>1, <3>2, <3>3
      <3>4. CASE e.dir = "out"
        BY <3>1, <3>2, <3>4
      <3> QED BY <3>2, <3>3, <3>4 DEF Events
    <2>3. ASSUME NEW r \in drained', NEW s \in drained', r # s
          PROVE  Sum(r.data) \cap Sum(s.data) = {}
      <3>1. \A p \in drained, q \in RowsNow : Sum(p.data) \cap Sum(q.data) = {}
        <4>1. \A p \in drained, f \in FlowKeys : Sum(p.data) \cap Sum(flows[f]) = {}
          BY DEF Sums, BytesConserved
        <4> QED BY <1>4, <4>1
      <3>2. ASSUME NEW p \in RowsNow, NEW q \in RowsNow, p # q
            PROVE  Sum(p.data) \cap Sum(q.data) = {}
        <4>1. PICK f \in FlowKeys : p = RowOf(f) /\ Sum(p.data) = Sum(flows[f])
          BY <1>4
        <4>2. PICK g \in FlowKeys : q = RowOf(g) /\ Sum(q.data) = Sum(flows[g])
          BY <1>4
        <4>3. f # g
          BY <3>2, <4>1, <4>2
        <4>4. \A e \in Sum(flows[f]) : e \notin Sum(flows[g])
          BY <2>1, <4>3
        <4> QED BY <4>1, <4>2, <4>4
      <3>3. \A p, q \in drained : p # q => Sum(p.data) \cap Sum(q.data) = {}
        BY DEF Sums, BytesConserved
      <3> QED BY <1>1, <2>3, <3>1, <3>2, <3>3
    <2>4. ASSUME NEW r \in drained' PROVE r.data.in \cap r.data.out = {}
      <3>1. \A f \in FlowKeys : flows[f].in \cap flows[f].out = {}
        BY DEF Sums, BytesConserved
      <3>2. \A p \in drained : p.data.in \cap p.data.out = {}
        BY DEF Sums, BytesConserved
      <3> QED BY <1>1, <1>4, <3>1, <3>2
    <2>5. \A r \in drained : \A e \in Sum(r.data) : e.flow = r.key.flow /\ e \in r.data[e.dir]
      BY DEF Sums, BytesConserved
    <2>6. \A f \in FlowKeys : flows'[f].in \cap flows'[f].out = {}
      BY <1>2, NoBytesEmpty
    <2>7. InSums' = observed'
      BY <1>1, <1>6 DEF Sums, BytesConserved
    <2> QED BY <1>1, <1>2, <2>2, <2>3, <2>4, <2>5, <2>6, <2>7 DEF BytesConserved
  <1>8. WindowsBegan'
    <2>1. ASSUME NEW r \in RowsNow PROVE r.key.bucket * FlushInterval <= now + skew
      <3>1. r.key.bucket = (now + skew) \div FlushInterval /\ now + skew \in Nat
        BY <1>3, <1>4
      <3> QED BY <3>1, AggregatorAssumption, WindowBounds
    <2>2. ASSUME ~setBack, NEW r \in drained PROVE r.key.bucket * FlushInterval <= now + skew
      <3>1. r.key.bucket \in Nat
        BY DEF Sums, TypeOK, RowKeys, Buckets
      <3> DEFINE b == r.key.bucket * FlushInterval
      <3>2. b \in Nat /\ b <= lastFlush + skew
        BY <2>2, <3>1, AggregatorAssumption DEF Sums, WindowsBegan
      <3> HIDE DEF b
      <3>3. b <= now + skew
        BY <1>3, <3>2
      <3> QED BY <3>3 DEF b
    <2> QED BY <1>1, <2>1, <2>2 DEF WindowsBegan
  <1> QED BY <1>1, <1>5, <1>7, <1>8 DEF Sums

\* The names and the clock do not touch the sums.
LEMMA HintsKeepSums ==
  ASSUME Sums, UNCHANGED <<flows, lastFlush, observed, drained, skew, setBack>>, TypeOK'
  PROVE  Sums' /\ observed' = observed
  <1>1. InSums' = InSums
    BY DEF InSums
  <1>2. BytesConserved'
    BY <1>1 DEF Sums, BytesConserved
  <1>3. WindowsBegan'
    BY DEF Sums, WindowsBegan
  <1> QED BY <1>1, <1>2, <1>3 DEF Sums

LEMMA NamesKeepSums ==
  ASSUME Sums, NEW snapshot, DOMAIN snapshot \subseteq Pids,
         \A p \in DOMAIN snapshot : snapshot[p] \in ProcNames,
         UpdateProcNames(snapshot)
  PROVE  Sums' /\ observed' = observed
  <1>1. DOMAIN procNames' \subseteq Pids /\ \A p \in DOMAIN procNames' : procNames'[p] \in ProcNames
    BY ExtendTyped DEF UpdateProcNames, clocks, Sums, TypeOK
  <1>2. TypeOK'
    BY <1>1 DEF UpdateProcNames, clocks, Sums, TypeOK
  <1> QED BY <1>2, HintsKeepSums DEF UpdateProcNames, clocks

LEMMA DomainKeepsSums ==
  ASSUME Sums, NEW ip \in Ips, NEW domain \in Domains, UpdateDomain(ip, domain)
  PROVE  Sums' /\ observed' = observed
  <1> DEFINE new == [i \in {ip} |-> domain]
  <1>1. DOMAIN new \subseteq Ips /\ \A i \in DOMAIN new : new[i] \in Domains
    OBVIOUS
  <1>2. domains' = Extend(domains, new)
    BY DEF UpdateDomain
  <1> HIDE DEF new
  <1>3. DOMAIN domains' \subseteq Ips /\ \A i \in DOMAIN domains' : domains'[i] \in Domains
    BY <1>1, <1>2, ExtendTyped DEF Sums, TypeOK
  <1>4. TypeOK'
    BY <1>3 DEF UpdateDomain, clocks, Sums, TypeOK
  <1> QED BY <1>4, HintsKeepSums DEF UpdateDomain, clocks

\* Setting the clock back is remembered; setting it forward moves no window
\* past the last flush.
LEMMA ClockSetKeepsSums ==
  ASSUME Sums, NEW to \in 0 .. MaxSkew, SetWallClock(to)
  PROVE  Sums' /\ observed' = observed
  <1>1. /\ skew' = to /\ setBack' = (setBack \/ to < skew)
        /\ UNCHANGED <<now, flows, procNames, domains, lastFlush, observed, drained>>
    BY DEF SetWallClock, hints
  <1>2. TypeOK'
    BY <1>1 DEF Sums, TypeOK
  <1>3. InSums' = InSums
    BY <1>1 DEF InSums
  <1>4. BytesConserved'
    <2>1. BytesConserved
      BY DEF Sums
    <2>2. flows' = flows /\ drained' = drained /\ InSums' = observed'
      BY <1>1, <1>3 DEF Sums, BytesConserved
    <2> QED BY <2>1, <2>2, SMTT(30) DEF BytesConserved
  <1>5. WindowsBegan'
    <2> SUFFICES ASSUME ~setBack', NEW r \in drained
                 PROVE  r.key.bucket * FlushInterval <= lastFlush + to
      BY <1>1 DEF WindowsBegan
    <2>1. ~setBack /\ ~(to < skew)
      BY <1>1
    <2>2. to \in Nat /\ skew \in Nat /\ lastFlush \in Nat /\ r.key.bucket \in Nat
      BY AggregatorAssumption DEF Sums, TypeOK, RowKeys, Buckets
    <2> DEFINE b == r.key.bucket * FlushInterval
    <2>3. b \in Nat /\ b <= lastFlush + skew
      BY <2>1, <2>2, AggregatorAssumption DEF Sums, WindowsBegan
    <2> HIDE DEF b
    <2>4. b <= lastFlush + to
      BY <2>1, <2>2, <2>3
    <2> QED BY <2>4 DEF b
  <1> QED BY <1>1, <1>2, <1>4, <1>5 DEF Sums

\* A new aggregator beside the rows of one that is gone.
LEMMA FreshStartKeepsSums ==
  ASSUME Sums, flows' = [f \in FlowKeys |-> NoBytes], procNames' = <<>>, domains' = <<>>,
         lastFlush' = now, observed' = observed \ UNION {Sum(flows[f]) : f \in FlowKeys},
         UNCHANGED <<clocks, drained>>
  PROVE  Sums'
  <1>1. \A f \in FlowKeys : flows'[f] = NoBytes /\ Sum(flows'[f]) = {}
    BY NoBytesEmpty
  <1>2. now \in Nat /\ lastFlush \in Nat /\ lastFlush <= now /\ skew \in Nat
    BY AggregatorAssumption DEF Sums, TypeOK
  <1>3. UNCHANGED <<now, skew, setBack>>
    BY DEF clocks
  <1>4. TypeOK'
    <2>1. flows' \in [FlowKeys -> FlowStats]
      BY NoBytesEmpty
    <2>2. DOMAIN procNames' = {} /\ DOMAIN domains' = {} /\ lastFlush' \in 0 .. now'
      BY <1>2, <1>3
    <2> QED BY <1>3, <2>1, <2>2 DEF Sums, TypeOK
  <1>5. BytesConserved'
    <2>1. ASSUME NEW e PROVE e \in InSums' <=> e \in observed'
      <3>1. e \in InSums' <=> \E r \in drained : e \in Sum(r.data)
        BY <1>1, Members DEF InSums
      <3>2. e \in observed <=> \/ \E f \in FlowKeys : e \in Sum(flows[f])
                               \/ \E r \in drained : e \in Sum(r.data)
        BY Members DEF Sums, BytesConserved, InSums
      <3>3. \A f \in FlowKeys, r \in drained : ~(e \in Sum(flows[f]) /\ e \in Sum(r.data))
        BY DEF Sums, BytesConserved
      <3>4. e \in observed' <=> e \in observed /\ ~ \E f \in FlowKeys : e \in Sum(flows[f])
        OBVIOUS
      <3> QED BY <3>1, <3>2, <3>3, <3>4
    <2>2. InSums' = observed'
      BY <2>1
    <2> QED BY <1>1, <2>2, NoBytesEmpty DEF Sums, BytesConserved
  <1>6. WindowsBegan'
    <2> SUFFICES ASSUME ~setBack, NEW r \in drained
                 PROVE  r.key.bucket * FlushInterval <= now + skew
      BY <1>3 DEF WindowsBegan
    <2>1. r.key.bucket \in Nat
      BY DEF Sums, TypeOK, RowKeys, Buckets
    <2> DEFINE b == r.key.bucket * FlushInterval
    <2>2. b \in Nat /\ b <= lastFlush + skew
      BY <2>1, AggregatorAssumption DEF Sums, WindowsBegan
    <2> HIDE DEF b
    <2>3. b <= now + skew
      BY <1>2, <2>2
    <2> QED BY <2>3 DEF b
  <1> QED BY <1>4, <1>5, <1>6 DEF Sums

\* The numbering: the next event is a new one.
LEMMA NextEventIsNew ==
  ASSUME IInv, NEW e, e.id = Cardinality(observed) + 1
  PROVE  e \notin observed
  <1>1. Cardinality(observed) \in Nat
    BY FS_CardinalityType DEF IInv, Numbered
  <1> QED BY <1>1 DEF IInv, Numbered

LEMMA NumberedKept ==
  ASSUME IInv, NEW e \in Events, e.id = Cardinality(observed) + 1,
         observed' = observed \cup {e}
  PROVE  Numbered'
  <1>1. IsFiniteSet(observed') /\ Cardinality(observed') = Cardinality(observed) + 1
    BY NextEventIsNew, FS_AddElement DEF IInv, Numbered
  <1>2. Cardinality(observed) \in Nat /\ \A d \in observed : d.id <= Cardinality(observed)
    BY FS_CardinalityType DEF IInv, Numbered
  <1>3. \A d \in observed : d.id \in Nat
    BY DEF IInv, Sums, TypeOK, Events
  <1>4. \A d \in observed \cup {e} : d.id <= Cardinality(observed) + 1
    <2> DEFINE n == Cardinality(observed)
    <2>1. n \in Nat /\ e.id = n + 1 /\ \A d \in observed : d.id <= n
      BY <1>2
    <2> HIDE DEF n
    <2>2. \A d \in observed : d.id <= n + 1
      BY <1>3, <2>1
    <2>3. e.id <= n + 1
      BY <2>1
    <2> QED BY <2>2, <2>3 DEF n
  <1> QED BY <1>1, <1>4 DEF Numbered

LEMMA IInvKept ==
  ASSUME IInv, [Next]_vars
  PROVE  IInv'
  <1>0. Sums
    BY DEF IInv
  <1>00. observed' = observed => Numbered'
    BY DEF IInv, Numbered
  <1>1. ASSUME NEW e \in Events, e.id = Cardinality(observed) + 1, Observe(e)
        PROVE  IInv'
    <2>1. e \notin InSums
      BY <1>0, <1>1, NextEventIsNew DEF Sums, BytesConserved
    <2>2. Sums' /\ observed' = observed \cup {e}
      BY <1>0, <1>1, <2>1, ObserveKeepsSums
    <2> QED BY <1>1, <2>2, NumberedKept DEF IInv
  <1>2. CASE MaybeFlush \/ FlushNow
    BY <1>0, <1>00, <1>2, DrainKeepsSums DEF MaybeFlush, FlushNow, IInv
  <1>3. ASSUME NEW snapshot \in Snapshots, UpdateProcNames(snapshot) PROVE IInv'
    <2>1. DOMAIN snapshot \subseteq Pids /\ \A p \in DOMAIN snapshot : snapshot[p] \in ProcNames
      BY DEF Snapshots
    <2> QED BY <1>0, <1>00, <1>3, <2>1, NamesKeepSums DEF IInv
  <1>4. ASSUME NEW ip \in Ips, NEW domain \in Domains, UpdateDomain(ip, domain) PROVE IInv'
    BY <1>0, <1>00, <1>4, DomainKeepsSums DEF IInv
  <1>5. CASE Tick
    <2>1. TypeOK'
      BY <1>5, AggregatorAssumption DEF Tick, hints, IInv, Sums, TypeOK
    <2> QED BY <1>0, <1>00, <1>5, <2>1, HintsKeepSums DEF Tick, IInv
  <1>6. CASE UNCHANGED vars
    <2>1. TypeOK' /\ UNCHANGED <<flows, lastFlush, observed, drained, skew, setBack>>
      BY <1>6 DEF vars, clocks, hints, IInv, Sums, TypeOK
    <2> QED BY <1>0, <1>00, <2>1, HintsKeepSums DEF IInv
  <1>7. ASSUME NEW to \in 0 .. MaxSkew, SetWallClock(to) PROVE IInv'
    BY <1>0, <1>00, <1>7, ClockSetKeepsSums DEF IInv
  <1> QED BY <1>1, <1>2, <1>3, <1>4, <1>5, <1>6, <1>7 DEF Next

\* The inductive invariant holds of every behaviour.
THEOREM Inductive == Spec => []IInv
  <1> QED BY InitIInv, IInvKept, PTL DEF Spec

\* Type correctness of the aggregator.
THEOREM TypeCorrect == Spec => []TypeOK
  <1>1. IInv => TypeOK
    BY DEF IInv, Sums
  <1> QED BY <1>1, Inductive, PTL

\* Whatever the order of events, names and flushes, bytes are neither lost nor
\* counted twice nor attributed to another flow or direction.
THEOREM BytesAreConserved == Spec => []BytesConserved
  <1>1. IInv => BytesConserved
    BY DEF IInv, Sums
  <1> QED BY <1>1, Inductive, PTL

NewWindow == MaybeFlush /\ ~setBack => \A r \in RowsNow, s \in drained : r.key # s.key

LEMMA SumsNewWindow == Sums => NewWindow
  <1> SUFFICES ASSUME Sums, MaybeFlush, ~setBack, NEW r \in RowsNow, NEW s \in drained
               PROVE  r.key # s.key
    BY DEF NewWindow
  <1>1. r.key.bucket = (now + skew) \div FlushInterval
    BY RowInRowsNow
  <1>2. /\ now \in Nat /\ skew \in Nat /\ lastFlush \in Nat
        /\ now - lastFlush >= FlushInterval /\ FlushInterval \in Nat \ {0}
        /\ s.key.bucket \in Nat
    BY AggregatorAssumption DEF Sums, TypeOK, RowKeys, Buckets, MaybeFlush, ShouldFlush
  <1>3. s.key.bucket * FlushInterval <= lastFlush + skew
    BY DEF Sums, WindowsBegan
  <1>4. /\ (now + skew) - (lastFlush + skew) >= FlushInterval
        /\ now + skew \in Nat /\ lastFlush + skew \in Nat
    BY <1>2
  <1>5. s.key.bucket # (now + skew) \div FlushInterval
    BY <1>2, <1>3, <1>4, WindowOver
  <1> QED BY <1>1, <1>5

\* A timed flush never meets the window of a row drained before, as long as the
\* wall clock is not set back.
THEOREM TimedFlushesNeverMeet == Spec => TimedFlushOpensNewWindow
  <1>1. IInv => NewWindow
    BY SumsNewWindow DEF IInv
  <1> QED BY <1>1, Inductive, PTL DEF TimedFlushOpensNewWindow, NewWindow

=============================================================================
