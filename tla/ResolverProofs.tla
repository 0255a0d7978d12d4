---------------------------- MODULE ResolverProofs ----------------------------
(***************************************************************************)
(* Proofs about Resolver, for any addresses, names, queue and cache sizes  *)
(* and lifetimes, whether or not the worker's runtime is driven.           *)
(*                                                                         *)
(* The argument.  insert() over a live entry inherits the entry's deadline,*)
(* so a deadline by itself bounds nothing.  What does is that an entry is  *)
(* given at most max_ttl by time_to_live, and that the worker looks up only*)
(* addresses without a live name: the entry it writes over, if live, is a  *)
(* failure, and the new one inherits a deadline that is no later than the  *)
(* one its own negative_ttl would give it.                                 *)
(***************************************************************************)
EXTENDS Resolver, FiniteSetTheorems, TLAPS

\* What an entry of the cache is worth.
EntryOK(e) ==
  /\ e.expires <= e.asOf + PositiveTtl
  /\ e.name = NoName => e.expires <= e.asOf + NegativeTtl
  /\ e.asOf <= now

CacheOK == \A ip \in DOMAIN cache : EntryOK(cache[ip])

\* The worker is at a lookup only for an address without a live name.
LooksUpUnknown ==
  worker.pc = "lookup" /\ Live(worker.ip) => cache[worker.ip].name = NoName

IInv ==
  /\ TypeOK
  /\ IsFiniteSet(DOMAIN cache)
  /\ CacheOK
  /\ LooksUpUnknown
  /\ BoundedStaleness

LEMMA Constants ==
  /\ PublicIps \subseteq Ips /\ NoName \notin Names
  /\ RequestCapacity \in Nat /\ ResultCapacity \in Nat /\ PositiveTtl \in Nat
  /\ CacheCapacity \in Nat /\ PositiveTtl > 0 /\ RequestCapacity > 0
  /\ ResultCapacity > 0 /\ CacheCapacity > 0
  /\ NegativeTtl \in Nat /\ LookupTimeout \in Nat /\ MaxTime \in Nat
BY ResolverAssumption DEF ResolverAssumption

\* The states of the worker, told apart by pc.
LEMMA WorkerFacts ==
  ASSUME worker \in WorkerStates
  PROVE  /\ worker.pc = "lookup" => worker.ip \in PublicIps /\ worker.since \in Nat
         /\ worker.pc = "reply" =>
              /\ worker.ip \in PublicIps /\ worker.name \in Names \cup {NoName}
              /\ worker.asOf \in Nat /\ worker.since \in Nat
BY DEF WorkerStates, Idle

\* The entry that insert() writes.
LEMMA EntryFacts ==
  ASSUME TypeOK, CacheOK, NEW ip \in PublicIps, NEW name \in Names \cup {NoName},
         Live(ip) => cache[ip].name = NoName
  PROVE  Entry(ip, name) \in Entries /\ EntryOK(Entry(ip, name))
<1>1. now \in Nat
  BY Constants DEF TypeOK
<1>2. now + Ttl(name) \in Nat /\ (name = NoName => now + Ttl(name) <= now + NegativeTtl)
  BY <1>1, Constants DEF Ttl
<1>3. Live(ip) => /\ cache[ip].expires \in Nat
                  /\ cache[ip].expires <= now + NegativeTtl
  BY <1>1, Constants DEF Live, TypeOK, Entries, CacheOK, EntryOK
<1>4. HardLimit \in Nat /\ HardLimit = now + PositiveTtl
  BY <1>1, Constants DEF HardLimit
<1>5. /\ ExpiresAt(ip, name) \in Nat
      /\ ExpiresAt(ip, name) <= now + PositiveTtl
      /\ name = NoName => ExpiresAt(ip, name) <= now + NegativeTtl
  BY <1>1, <1>2, <1>3, <1>4, Constants DEF ExpiresAt
<1>6. Entry(ip, name) \in Entries
  BY <1>1, <1>5 DEF Entry, Entries
<1> QED
  BY <1>1, <1>5, <1>6, Constants DEF Entry, EntryOK

\* insert() leaves the cache within its capacity and its entries sound.
LEMMA PutFacts ==
  ASSUME TypeOK, IsFiniteSet(DOMAIN cache), CacheOK, now' = now,
         NEW ip \in PublicIps, NEW name \in Names \cup {NoName},
         Live(ip) => cache[ip].name = NoName,
         Put(ip, name)
  PROVE  /\ DOMAIN cache' \subseteq PublicIps
         /\ IsFiniteSet(DOMAIN cache') /\ Cardinality(DOMAIN cache') <= CacheCapacity
         /\ \A i \in DOMAIN cache' : cache'[i] \in Entries
         /\ CacheOK'
<1> DEFINE alive == {i \in DOMAIN cache : Live(i)}
           full == [i \in alive \cup {ip} |-> IF i = ip THEN Entry(ip, name) ELSE cache[i]]
<1>1. Entry(ip, name) \in Entries /\ EntryOK(Entry(ip, name))
  BY EntryFacts
<1>2. DOMAIN full = alive \cup {ip} /\ DOMAIN full \subseteq PublicIps
  BY DEF TypeOK
<1>3. \A i \in DOMAIN full : full[i] \in Entries /\ EntryOK(full[i])
  BY <1>1 DEF TypeOK, CacheOK
<1>4. /\ IsFiniteSet(alive)
      /\ Cardinality(alive) \in Nat
      /\ Cardinality(alive) <= Cardinality(DOMAIN cache)
      /\ Cardinality(DOMAIN cache) \in Nat
  <2>1. alive \subseteq DOMAIN cache
    OBVIOUS
  <2> QED
    BY <2>1, FS_Subset, FS_CardinalityType
<1>5. /\ IsFiniteSet(DOMAIN full)
      /\ Cardinality(DOMAIN full) \in Nat
      /\ Cardinality(DOMAIN full) <= CacheCapacity + 1
  <2>1. /\ IsFiniteSet(alive \cup {ip})
        /\ Cardinality(alive \cup {ip}) = IF ip \in alive THEN Cardinality(alive)
                                          ELSE Cardinality(alive) + 1
    BY <1>4, FS_AddElement
  <2> HIDE DEF alive, full
  <2>2. Cardinality(DOMAIN cache) <= CacheCapacity
    BY DEF TypeOK
  <2>3. /\ Cardinality(alive \cup {ip}) \in Nat
        /\ Cardinality(alive \cup {ip}) <= CacheCapacity + 1
    BY <2>1, <2>2, <1>4, Constants
  <2> QED
    BY <2>1, <2>3, <1>2
<1> HIDE DEF alive, full
<1>6. CASE Cardinality(DOMAIN full) <= CacheCapacity
  <2>1. cache' = full
    BY <1>6 DEF Put, alive, full
  <2> QED
    BY <1>6, <2>1, <1>2, <1>3, <1>5 DEF CacheOK, EntryOK
<1>7. CASE ~(Cardinality(DOMAIN full) <= CacheCapacity)
  <2>1. PICK victim \in DOMAIN full : cache' = Restrict(full, DOMAIN full \ {victim})
    BY <1>7 DEF Put, alive, full
  <2>2. /\ DOMAIN cache' = DOMAIN full \ {victim}
        /\ \A i \in DOMAIN cache' : cache'[i] = full[i]
    BY <2>1 DEF Restrict
  <2>3. /\ IsFiniteSet(DOMAIN cache')
        /\ Cardinality(DOMAIN cache') = Cardinality(DOMAIN full) - 1
    BY <2>2, <1>5, FS_RemoveElement
  <2> QED
    BY <2>2, <2>3, <1>2, <1>3, <1>5, Constants DEF CacheOK, EntryOK
<1> QED
  BY <1>6, <1>7

-----------------------------------------------------------------------------
\* The steps of the queues leave worker and cache alone.
LEMMA RequestStep ==
  ASSUME IInv, NEW ip \in Ips, Request(ip)
  PROVE  IInv'
<1>1. /\ requests' \in Seq(PublicIps) /\ Len(requests') <= RequestCapacity
  BY Constants DEF IInv, TypeOK, Request
<1> QED
  BY <1>1 DEF IInv, TypeOK, Request, CacheOK, EntryOK, LooksUpUnknown, Live, BoundedStaleness

LEMMA TakeResultStep ==
  ASSUME IInv, TakeResult
  PROVE  IInv'
<1>1. /\ results' \in Seq(Results) /\ Len(results') <= ResultCapacity
      /\ Head(results) \in Results
  BY Constants DEF IInv, TypeOK, TakeResult
<1>2. answered' \subseteq PublicIps
  BY <1>1 DEF IInv, TypeOK, TakeResult, Results
<1> QED
  BY <1>1, <1>2 DEF IInv, TypeOK, TakeResult, CacheOK, EntryOK, LooksUpUnknown, Live,
                    BoundedStaleness

LEMMA InvalidateStep ==
  ASSUME IInv, NEW ip \in Ips, Invalidate(ip)
  PROVE  IInv'
<1>1. /\ DOMAIN cache' = DOMAIN cache \ {ip}
      /\ \A i \in DOMAIN cache' : cache'[i] = cache[i]
  BY DEF Invalidate, Restrict
<1>2. IsFiniteSet(DOMAIN cache') /\ Cardinality(DOMAIN cache') <= CacheCapacity
  <2>1. /\ IsFiniteSet(DOMAIN cache') /\ Cardinality(DOMAIN cache') \in Nat
        /\ Cardinality(DOMAIN cache) \in Nat
        /\ Cardinality(DOMAIN cache') <= Cardinality(DOMAIN cache)
    BY <1>1, FS_Subset, FS_CardinalityType DEF IInv
  <2> QED
    BY <2>1, Constants DEF IInv, TypeOK
<1>3. TypeOK'
  BY <1>1, <1>2 DEF IInv, TypeOK, Invalidate
<1> QED
  BY <1>1, <1>2, <1>3 DEF IInv, Invalidate, CacheOK, EntryOK, LooksUpUnknown, Live,
                          BoundedStaleness

-----------------------------------------------------------------------------
\* The worker's steps.
LEMMA TakeRequestStep ==
  ASSUME IInv, TakeRequest
  PROVE  IInv'
<1> DEFINE ip == Head(requests)
<1>1. /\ requests' \in Seq(PublicIps) /\ Len(requests') <= RequestCapacity
      /\ ip \in PublicIps
  BY Constants DEF IInv, TypeOK, TakeRequest
<1>2. now \in Nat
  BY Constants DEF IInv, TypeOK
<1> HIDE DEF ip
<1>3. CASE Known(ip)
  <2>1. /\ cache[ip] \in Entries /\ EntryOK(cache[ip])
        /\ cache[ip].name # NoName /\ now < cache[ip].expires
    BY <1>3 DEF IInv, TypeOK, CacheOK, Known, Live
  <2>2. worker' = Replying(ip, cache[ip].name, cache[ip].asOf)
    BY <1>3 DEF TakeRequest, ip
  <2>3. worker' \in WorkerStates /\ worker'.pc = "reply"
    BY <2>1, <2>2, <1>1, <1>2 DEF WorkerStates, Replying, Entries
  <2>4. worker'.since - worker'.asOf < PositiveTtl
    BY <2>1, <2>2, <1>2, Constants DEF Replying, EntryOK, Entries
  <2> QED
    BY <1>1, <2>3, <2>4 DEF IInv, TypeOK, TakeRequest, CacheOK, EntryOK,
                            LooksUpUnknown, BoundedStaleness
<1>4. CASE ~Known(ip)
  <2>1. worker' = LookingUp(ip)
    BY <1>4 DEF TakeRequest, ip
  <2>2. worker' \in WorkerStates /\ worker'.pc = "lookup" /\ worker'.ip = ip
    BY <2>1, <1>1, <1>2 DEF WorkerStates, LookingUp
  <2>3. LooksUpUnknown'
    BY <1>4, <2>2 DEF LooksUpUnknown, TakeRequest, Known, Live
  <2> QED
    BY <1>1, <2>2, <2>3 DEF IInv, TypeOK, TakeRequest, CacheOK, EntryOK, BoundedStaleness
<1> QED
  BY <1>3, <1>4

LEMMA LookupEndsStep ==
  ASSUME IInv, NEW name \in Names \cup {NoName}, LookupEnds(name)
  PROVE  IInv'
<1>1. now \in Nat
  BY Constants DEF IInv, TypeOK
<1>2. /\ worker.ip \in PublicIps
      /\ Live(worker.ip) => cache[worker.ip].name = NoName
  BY WorkerFacts DEF IInv, TypeOK, LookupEnds, LooksUpUnknown
<1>3. /\ DOMAIN cache' \subseteq PublicIps
      /\ IsFiniteSet(DOMAIN cache') /\ Cardinality(DOMAIN cache') <= CacheCapacity
      /\ \A i \in DOMAIN cache' : cache'[i] \in Entries
      /\ CacheOK'
  BY <1>2, PutFacts DEF IInv, LookupEnds
<1>4. /\ worker' \in WorkerStates /\ worker'.pc = "reply"
      /\ worker'.since = worker'.asOf
  BY <1>1, <1>2 DEF LookupEnds, Replying, WorkerStates
<1>5. TypeOK'
  BY <1>3, <1>4 DEF IInv, TypeOK, LookupEnds
<1>6. BoundedStaleness'
  BY <1>1, <1>4, Constants DEF BoundedStaleness, LookupEnds, Replying
<1> QED
  BY <1>3, <1>4, <1>5, <1>6 DEF IInv, LooksUpUnknown

LEMMA ReplyStep ==
  ASSUME IInv, Reply
  PROVE  IInv'
<1>1. [ip |-> worker.ip, name |-> worker.name] \in Results
  BY WorkerFacts DEF IInv, TypeOK, Reply, Results
<1>2. results' \in Seq(Results) /\ Len(results') <= ResultCapacity
  BY <1>1, Constants DEF IInv, TypeOK, Reply
<1>3. worker' \in WorkerStates /\ worker'.pc = "idle"
  BY DEF Reply, Idle, WorkerStates
<1> QED
  BY <1>2, <1>3 DEF IInv, TypeOK, Reply, CacheOK, EntryOK, LooksUpUnknown, BoundedStaleness

\* Time only makes entries expire.
LEMMA TickStep ==
  ASSUME IInv, Tick
  PROVE  IInv'
<1>1. now \in Nat /\ now' = now + 1 /\ now' \in 0 .. MaxTime
  BY Constants DEF IInv, TypeOK, Tick
<1>2. TypeOK'
  BY <1>1 DEF IInv, TypeOK, Tick
<1>3. CacheOK'
  BY <1>1 DEF IInv, TypeOK, Entries, CacheOK, EntryOK, Tick
<1>4. LooksUpUnknown'
  BY <1>1 DEF IInv, TypeOK, Entries, LooksUpUnknown, Live, Tick
<1> QED
  BY <1>2, <1>3, <1>4 DEF IInv, BoundedStaleness, Tick

-----------------------------------------------------------------------------
LEMMA InitInv == Init => IInv
<1> SUFFICES ASSUME Init PROVE IInv
  OBVIOUS
<1>1. DOMAIN cache = {}
  BY DEF Init
<1>2. IsFiniteSet(DOMAIN cache) /\ Cardinality(DOMAIN cache) = 0
  BY <1>1, FS_EmptySet
<1>3. worker \in WorkerStates /\ worker.pc = "idle"
  BY DEF Init, Idle, WorkerStates
<1> QED
  BY <1>1, <1>2, <1>3, Constants DEF Init, IInv, TypeOK, CacheOK, LooksUpUnknown,
                                     BoundedStaleness

\* A resolver started anew.
LEMMA FreshStartKeepsIInv ==
  ASSUME IInv, requests' = <<>>, results' = <<>>, worker' = Idle, cache' = <<>>,
         UNCHANGED <<now, answered>>
  PROVE  IInv'
<1>1. DOMAIN cache' = {}
  OBVIOUS
<1>2. IsFiniteSet(DOMAIN cache') /\ Cardinality(DOMAIN cache') = 0
  BY <1>1, FS_EmptySet
<1>3. worker' \in WorkerStates /\ worker'.pc = "idle"
  BY DEF Idle, WorkerStates
<1> QED
  BY <1>1, <1>2, <1>3, Constants DEF IInv, TypeOK, CacheOK, LooksUpUnknown, BoundedStaleness

LEMMA NextInv == IInv /\ [Next]_vars => IInv'
<1> SUFFICES ASSUME IInv, [Next]_vars PROVE IInv'
  OBVIOUS
<1>1. CASE \E ip \in Ips : Request(ip) \/ Invalidate(ip)
  BY <1>1, RequestStep, InvalidateStep
<1>2. CASE TakeResult
  BY <1>2, TakeResultStep
<1>3. CASE Worker
  BY <1>3, TakeRequestStep, LookupEndsStep, ReplyStep DEF Worker
<1>4. CASE Tick
  BY <1>4, TickStep
<1>5. CASE UNCHANGED vars
  BY <1>5 DEF vars, IInv, TypeOK, CacheOK, EntryOK, LooksUpUnknown, Live, BoundedStaleness
<1> QED
  BY <1>1, <1>2, <1>3, <1>4, <1>5 DEF Next

\* What the theorems below rest on, in every behaviour of the resolver.
THEOREM Inductive == Spec => []IInv
BY InitInv, NextInv, PTL DEF Spec

\* Queues and cache stay within their capacities, every variable in its type.
THEOREM TypeCorrect == Spec => []TypeOK
<1>1. IInv => TypeOK
  BY DEF IInv
<1> QED
  BY <1>1, Inductive, PTL

\* A name the worker hands out is younger than max_ttl, whatever was cached,
\* replaced or evicted before: put_positive, put_negative and get of cache.rs.
THEOREM StalenessIsBounded == Spec => []BoundedStaleness
<1>1. IInv => BoundedStaleness
  BY DEF IInv
<1> QED
  BY <1>1, Inductive, PTL

\* A failed lookup is forgotten after negative_ttl, although insert() keeps the
\* deadline of the live entry it replaces.
THEOREM FailuresAreForgotten == Spec => []FailureForgottenInTime
<1>1. IInv => FailureForgottenInTime
  BY DEF IInv, CacheOK, EntryOK, FailureForgottenInTime
<1> QED
  BY <1>1, Inductive, PTL
=============================================================================
