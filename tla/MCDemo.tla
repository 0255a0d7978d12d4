-------------------------------- MODULE MCDemo --------------------------------
\* Model-checking instance of Demo.
EXTENDS Demo

CONSTANTS meta, flows, chrome, demo_proc, steam, ip1, ip2, ip3, d1

MCMigrations == <<meta, flows>>

MCFakeRows ==
  <<[ip |-> ip1, age |-> 1, data |-> [name |-> chrome, domain |-> d1, bytes |-> 2]]>>

MCAggregatorRow ==
  [ip |-> ip2, data |-> [name |-> demo_proc, domain |-> NoDomain, bytes |-> 1]]

MCOtherRows ==
  {[ip |-> ip3, data |-> [name |-> steam, domain |-> NoDomain, bytes |-> b]] : b \in {1, 3}}

\* The demo is started twice, everybody else once.
MCMaxOpens == [o \in Openers |-> IF o \in {"demo", "demoQuery"} THEN 2 ELSE 1]
=============================================================================
