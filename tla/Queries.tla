------------------------------- MODULE Queries -------------------------------
(***************************************************************************)
(* The read side of the database, src/src/store/query.rs: the SQL of each  *)
(* query as an operator on the rows of table flows.                        *)
(*                                                                         *)
(* A row has a "key" with its ts and its ip, and "data" with the name of   *)
(* the process, the domain, and the bytes, those of both directions.       *)
(***************************************************************************)
EXTENDS Integers, FiniteSets, FiniteSetsExt

CONSTANT NoDomain  \* the NULL of column domain

Bytes(rows) == MapThenSumSet(LAMBDA r : r.data.bytes, rows)

\* WHERE ts >= since
Since(rows, since) == {r \in rows : r.key.ts >= since}

\* SELECT key, SUM(bytes) ... GROUP BY key: the function gives each row its key.
GroupBy(key) ==
  [k \in {key[r] : r \in DOMAIN key} |-> Bytes({r \in DOMAIN key : key[r] = k})]

\* Variant: a GROUP BY domain that leaves out the rows without one.
ByDomainOnly(rows, since) ==
  GroupBy([r \in {s \in Since(rows, since) : s.data.domain # NoDomain} |-> r.data.domain])

\* COALESCE(domain, remote_ip): a row whose name is not known yet counts for
\* its address.
ByDomain(rows, since) ==
  GroupBy([r \in Since(rows, since) |->
             IF r.data.domain = NoDomain THEN r.key.ip ELSE r.data.domain])

ByProcess(rows, since) == GroupBy([r \in Since(rows, since) |-> r.data.name])

RateSeries(rows, since, bucket) ==
  GroupBy([r \in Since(rows, since) |-> (r.key.ts \div bucket) * bucket])

TotalSince(rows, since) == Bytes(Since(rows, since))

\* ORDER BY bytes DESC: the keys of the first n groups, for ties fall either way.
Largest(groups, n) ==
  {S \in SUBSET DOMAIN groups :
     /\ Cardinality(S) = Min({n, Cardinality(DOMAIN groups)})
     /\ \A k \in S, l \in DOMAIN groups \ S : groups[k] >= groups[l]}

\* Variant: a limit off by one.
TopBelow(groups, limit) == Largest(groups, limit - 1)

\* LIMIT limit
Top(groups, limit) == Largest(groups, limit)
=============================================================================
