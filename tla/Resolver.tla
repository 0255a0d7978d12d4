------------------------------ MODULE Resolver ------------------------------
(***************************************************************************)
(* Reverse DNS, src/src/dns/mod.rs and src/src/dns/cache.rs.               *)
(*                                                                         *)
(* request() offers an address to a bounded queue; one worker task takes   *)
(* the addresses one by one, answers from the cache or looks them up, and  *)
(* sends the result over a second bounded queue to the aggregator thread.  *)
(* The cache is a moka cache with a lifetime per entry, modelled from the  *)
(* calls cache.rs makes.  A result without a name has the name NoName.     *)
(***************************************************************************)
EXTENDS Integers, Sequences, FiniteSets, Functions

CONSTANTS
  Ips, PublicIps,    \* addresses, and those is_public_ip() accepts
  Names, NoName,     \* PTR names, and the absence of one
  RequestCapacity,   \* capacity of mpsc::channel::<ResolveRequest>
  ResultCapacity,    \* capacity of mpsc::channel::<ResolveResult>
  PositiveTtl,       \* CacheConfig::max_ttl, in ticks
  NegativeTtl,       \* CacheConfig::negative_ttl, in ticks
  CacheCapacity,     \* CacheConfig::max_capacity
  LookupTimeout,     \* ResolverConfig2::timeout, in ticks
  Driven,            \* some thread is inside block_on of the worker's runtime
  MaxTime            \* bound of the model: ticks of the clock

ASSUME ResolverAssumption ==
  /\ PublicIps \subseteq Ips
  /\ NoName \notin Names
  /\ {RequestCapacity, ResultCapacity, PositiveTtl, CacheCapacity} \subseteq Nat \ {0}
  /\ {NegativeTtl, LookupTimeout, MaxTime} \subseteq Nat
  /\ Driven \in BOOLEAN

VARIABLES
  now,       \* the clock
  requests,  \* queue of ResolveRequest
  results,   \* queue of ResolveResult
  worker,    \* where the worker task is, with the request in its hands
  cache,     \* ip -> [name, expires, asOf]; asOf: when the name was looked up
  answered   \* history: addresses whose result reached the aggregator

vars == <<now, requests, results, worker, cache, answered>>

Idle == [pc |-> "idle"]
LookingUp(ip) == [pc |-> "lookup", ip |-> ip, since |-> now]
Replying(ip, name, asOf) ==
  [pc |-> "reply", ip |-> ip, name |-> name, asOf |-> asOf, since |-> now]

-----------------------------------------------------------------------------
\* The cache.

\* Variant: entries never expire.
LiveForever(ip) == ip \in DOMAIN cache

Live(ip) == ip \in DOMAIN cache /\ now < cache[ip].expires

\* DnsExpiry::expire_after_create chooses the lifetime of a new entry.
Ttl(name) == IF name = NoName THEN NegativeTtl ELSE PositiveTtl

\* The builder's time_to_live: no insert keeps an entry longer than max_ttl.
HardLimit == now + PositiveTtl

\* Expiry's default expire_after_update keeps the time an entry has left when
\* insert() replaces it while it is live; the earlier of two limits counts.
ExpiresAt(ip, name) ==
  LET chosen == IF Live(ip) THEN cache[ip].expires ELSE now + Ttl(name)
  IN IF chosen <= HardLimit THEN chosen ELSE HardLimit

Entry(ip, name) == [name |-> name, expires |-> ExpiresAt(ip, name), asOf |-> now]

\* A full cache gives up an entry, perhaps the one just offered.
Put(ip, name) ==
  LET alive == {i \in DOMAIN cache : Live(i)}
      full  == [i \in alive \cup {ip} |-> IF i = ip THEN Entry(ip, name) ELSE cache[i]]
  IN IF Cardinality(DOMAIN full) <= CacheCapacity
     THEN cache' = full
     ELSE \E victim \in DOMAIN full : cache' = Restrict(full, DOMAIN full \ {victim})

Invalidate(ip) ==
  /\ Live(ip)
  /\ cache' = Restrict(cache, DOMAIN cache \ {ip})
  /\ UNCHANGED <<now, requests, results, worker, answered>>

-----------------------------------------------------------------------------
\* The aggregator's side.

\* Variant: an unbounded queue.
RequestUnbounded(ip) ==
  /\ requests' = IF ip \in PublicIps THEN Append(requests, ip) ELSE requests
  /\ UNCHANGED <<now, results, worker, cache, answered>>

\* try_send: an address that finds the queue full is forgotten.
Request(ip) ==
  /\ requests' = IF ip \in PublicIps /\ Len(requests) < RequestCapacity
                 THEN Append(requests, ip) ELSE requests
  /\ UNCHANGED <<now, results, worker, cache, answered>>

TakeResult ==
  /\ results # <<>>
  /\ results' = Tail(results)
  /\ answered' = answered \cup {Head(results).ip}
  /\ UNCHANGED <<now, requests, worker, cache>>

-----------------------------------------------------------------------------
\* The worker task.

\* Variant: the worker does not ask the cache.
KnownNever(ip) == FALSE

\* Only a cached name is an answer: a cached failure is looked up again.
Known(ip) == Live(ip) /\ cache[ip].name # NoName

TakeRequest ==
  LET ip == Head(requests) IN
  /\ worker = Idle
  /\ requests # <<>>
  /\ requests' = Tail(requests)
  /\ worker' = IF Known(ip)
               THEN Replying(ip, cache[ip].name, cache[ip].asOf)
               ELSE LookingUp(ip)
  /\ UNCHANGED <<now, results, cache, answered>>

\* reverse_lookup under tokio::time::timeout: a name, or none for a timeout,
\* an error or an answer without PTR record.
LookupEnds(name) ==
  /\ worker.pc = "lookup"
  /\ Put(worker.ip, name)
  /\ worker' = Replying(worker.ip, name, now)
  /\ UNCHANGED <<now, requests, results, answered>>

\* Variant: try_send for results.
ReplyOrDrop ==
  /\ worker.pc = "reply"
  /\ results' = IF Len(results) < ResultCapacity
                THEN Append(results, [ip |-> worker.ip, name |-> worker.name])
                ELSE results
  /\ worker' = Idle
  /\ UNCHANGED <<now, requests, cache, answered>>

Reply ==
  /\ worker.pc = "reply"
  /\ Len(results) < ResultCapacity
  /\ results' = Append(results, [ip |-> worker.ip, name |-> worker.name])
  /\ worker' = Idle
  /\ UNCHANGED <<now, requests, cache, answered>>

\* The runtime is a current-thread one: a task moves only inside block_on.
Worker ==
  /\ Driven
  /\ \/ TakeRequest
     \/ \E name \in Names \cup {NoName} : LookupEnds(name)
     \/ Reply

\* The timeout bounds a lookup.
LookupHasTime == worker.pc = "lookup" => now - worker.since < LookupTimeout

Tick ==
  /\ now < MaxTime
  /\ LookupHasTime
  /\ now' = now + 1
  /\ UNCHANGED <<requests, results, worker, cache, answered>>

-----------------------------------------------------------------------------
Init ==
  /\ now = 0
  /\ requests = <<>>
  /\ results = <<>>
  /\ worker = Idle
  /\ cache = <<>>
  /\ answered = {}

Next ==
  \/ \E ip \in Ips : Request(ip) \/ Invalidate(ip)
  \/ TakeResult
  \/ Worker
  \/ Tick

Spec == Init /\ [][Next]_vars

\* The aggregator polls the results on every turn of its loop, which takes at
\* most its receive timeout; the worker runs whenever its runtime is driven.
Fairness == WF_vars(Worker) /\ WF_vars(TakeResult)

FairSpec == Spec /\ Fairness

-----------------------------------------------------------------------------
\* Properties.

Results == [ip : PublicIps, name : Names \cup {NoName}]

WorkerStates ==
  {Idle} \cup [pc : {"lookup"}, ip : PublicIps, since : Nat]
         \cup [pc : {"reply"}, ip : PublicIps, name : Names \cup {NoName},
               asOf : Nat, since : Nat]

Entries == [name : Names \cup {NoName}, expires : Nat, asOf : Nat]

TypeOK ==
  /\ now \in 0 .. MaxTime
  /\ requests \in Seq(PublicIps) /\ Len(requests) <= RequestCapacity
  /\ results \in Seq(Results) /\ Len(results) <= ResultCapacity
  /\ worker \in WorkerStates
  /\ DOMAIN cache \subseteq PublicIps /\ Cardinality(DOMAIN cache) <= CacheCapacity
  /\ \A ip \in DOMAIN cache : cache[ip] \in Entries
  /\ answered \subseteq PublicIps

\* A name the worker hands out was looked up less than max_ttl before it was
\* taken: hits and replacements never prolong the life of a name.
BoundedStaleness ==
  worker.pc = "reply" => worker.since - worker.asOf < PositiveTtl

\* A failure is never remembered longer than negative_ttl, although insert()
\* over a live entry inherits that entry's lifetime: the worker does not look
\* up, hence cannot fail, while a name is live.
FailureForgottenInTime ==
  \A ip \in DOMAIN cache :
    cache[ip].name = NoName => cache[ip].expires <= cache[ip].asOf + NegativeTtl

\* Every address that got into the queue has its result delivered: one slow or
\* failing lookup, a full result queue or an eviction does not lose it.
RequestsAnswered ==
  \A ip \in PublicIps : (ip \in Range(requests)) ~> (ip \in answered)
=============================================================================
