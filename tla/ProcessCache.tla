----------------------------- MODULE ProcessCache -----------------------------
(***************************************************************************)
(* Names for processes: the scan of src/src/capture/process.rs, its caller *)
(* in the aggregator thread (src/src/lib.rs), and the names that rows get  *)
(* from it (src/src/capture/flow.rs), while processes start and exit.      *)
(*                                                                         *)
(* EnumProcesses yields the pids of one moment; each is then opened and    *)
(* asked for its name by itself, and may have exited by then, or have been *)
(* given to another process.  An event is the pid with its program; which  *)
(* flow, address and sizes are no concern of this module.                  *)
(***************************************************************************)
EXTENDS Integers, FiniteSets

CONSTANTS
  Pids,           \* pids of user processes
  Idle,           \* pid 0, the System Idle Process: always enumerated
  Programs,       \* what processes run: a program is its name
  Protected,      \* programs whose processes may not be opened
  NoName,         \* "pid:N"
  InitialBuffer,  \* pids that fit into the first buffer
  MaxBuffer,      \* pids that fit into the largest (4 MiB)
  MaxChanges,     \* bound of the model: starts and exits
  MaxEvents       \* bound of the model: events captured

ASSUME ProcessAssumption ==
  /\ Idle \notin Pids
  /\ Protected \subseteq Programs /\ NoName \notin Programs
  /\ InitialBuffer \in Nat \ {0}
  /\ MaxBuffer \in Nat /\ InitialBuffer <= MaxBuffer
  /\ MaxChanges \in Nat /\ MaxEvents \in Nat

VARIABLES
  os,        \* pid -> program of its process, NoName without one
  changes,   \* number of starts and exits
  phase,     \* the aggregator thread: "events", "enumerate", "resolve", "drain"
  first,     \* its initial refresh, whose result it does not use, has not ended
  buffer,    \* pids that fit into the buffer of the next EnumProcesses
  todo,      \* enumerated pids not resolved yet
  out,       \* the names found so far: pid -> program
  byPid,     \* by_pid of the ProcessCache
  procNames, \* proc_names of the FlowAggregator
  arrived,   \* events in the channel
  flows,     \* events in the aggregator's sums
  captured,  \* number of events captured
  listed,    \* history: pids whose process was enumerated last and is alive
  settled,   \* history: pids whose process was enumerated by a refresh that the
             \* aggregator used and lived on to its end at least, and lives
  held,      \* history: pid -> the programs it ever belonged to
  rows       \* history: the events drained, with the name they got

osVars == <<os, changes, held>>
scanVars == <<buffer, todo, out, byPid>>
eventVars == <<arrived, flows, captured, rows>>
vars == <<osVars, phase, first, scanVars, procNames, eventVars, listed, settled>>

NoNames == [p \in {} |-> NoName]

Extend(map, with) ==
  [x \in DOMAIN map \cup DOMAIN with |-> IF x \in DOMAIN with THEN with[x] ELSE map[x]]

Alive == {p \in Pids : os[p] # NoName}

-----------------------------------------------------------------------------
\* The system: a pid is free again as soon as its process has exited.

Change(p, to) ==
  /\ changes < MaxChanges
  /\ changes' = changes + 1
  /\ os' = [os EXCEPT ![p] = to]
  /\ listed' = listed \ {p}
  /\ settled' = settled \ {p}
  /\ UNCHANGED <<phase, first, scanVars, procNames, eventVars>>

Start(p) ==
  /\ os[p] = NoName
  /\ \E program \in Programs :
       Change(p, program) /\ held' = [held EXCEPT ![p] = @ \cup {program}]

Exit(p) == os[p] # NoName /\ Change(p, NoName) /\ UNCHANGED held

Traffic(p) ==
  /\ os[p] # NoName
  /\ captured < MaxEvents
  /\ captured' = captured + 1
  /\ arrived' = arrived \cup {[pid |-> p, program |-> os[p]]}
  /\ UNCHANGED <<osVars, phase, first, scanVars, procNames, flows, rows, listed, settled>>

-----------------------------------------------------------------------------
\* refresh(): snapshot_unsafe and what becomes of its result.

Written == Cardinality(Alive) + 1

\* The pids in the buffer; no names yet.
Collect(pids) ==
  /\ phase' = "resolve"
  /\ todo' = pids \ {Idle}
  /\ out' = NoNames
  /\ listed' = Alive
  /\ UNCHANGED <<first, buffer, byPid, settled>>

\* The initial refresh is followed by the loop, the others by maybe_flush.
Leave ==
  /\ phase' = IF first THEN "events" ELSE "drain"
  /\ first' = FALSE
  /\ todo' = {}

\* An error: the cache and the aggregator's names stay as they were.
Fails == Leave /\ UNCHANGED <<buffer, out, byPid, listed, settled>>

\* Variants: the buffer that is full is taken for complete, is not made
\* larger, or without limit.
EnumerateFull ==
  /\ phase = "enumerate"
  /\ \E pids \in SUBSET (Alive \cup {Idle}) :
       /\ Cardinality(pids) = IF Written < buffer THEN Written ELSE buffer
       /\ Collect(pids)
  /\ UNCHANGED <<osVars, procNames, eventVars>>

EnumerateAgain ==
  /\ phase = "enumerate"
  /\ \/ Written < buffer /\ Collect(Alive \cup {Idle})
     \/ Written >= buffer /\ UNCHANGED <<phase, first, scanVars, listed, settled>>
  /\ UNCHANGED <<osVars, procNames, eventVars>>

EnumerateUnlimited ==
  /\ phase = "enumerate"
  /\ \/ Written < buffer /\ Collect(Alive \cup {Idle})
     \/ /\ Written >= buffer
        /\ buffer' = 2 * buffer
        /\ UNCHANGED <<phase, first, todo, out, byPid, listed, settled>>
  /\ UNCHANGED <<osVars, procNames, eventVars>>

\* A buffer that came back full may have been too small: doubled up to a limit.
Enumerate ==
  /\ phase = "enumerate"
  /\ \/ Written < buffer /\ Collect(Alive \cup {Idle})
     \/ /\ Written >= buffer /\ 2 * buffer <= MaxBuffer
        /\ buffer' = 2 * buffer
        /\ UNCHANGED <<phase, first, todo, out, byPid, listed, settled>>
     \/ Written >= buffer /\ 2 * buffer > MaxBuffer /\ Fails
     \/ Fails
  /\ UNCHANGED <<osVars, procNames, eventVars>>

\* Variant: the names found are put to the pids by position.
ResolveShifted ==
  /\ phase = "resolve"
  /\ \E p \in todo, q \in Pids :
       /\ todo' = todo \ {p}
       /\ out' = IF os[q] \in Programs \ Protected THEN Extend(out, [x \in {p} |-> os[q]]) ELSE out
  /\ UNCHANGED <<osVars, phase, first, buffer, byPid, procNames, eventVars, listed, settled>>

\* query_process_name: whoever has the pid now, if it may be opened.
Resolve ==
  /\ phase = "resolve"
  /\ \E p \in todo :
       /\ todo' = todo \ {p}
       /\ out' = IF os[p] \in Programs \ Protected THEN Extend(out, [x \in {p} |-> os[p]]) ELSE out
  /\ UNCHANGED <<osVars, phase, first, buffer, byPid, procNames, eventVars, listed, settled>>

\* by_pid is replaced, proc_names extended.
Resolved ==
  /\ phase = "resolve"
  /\ todo = {}
  /\ Leave
  /\ byPid' = out
  /\ \/ first /\ UNCHANGED <<procNames, settled>>
     \/ ~first /\ procNames' = Extend(procNames, byPid') /\ settled' = settled \cup listed
  /\ UNCHANGED <<osVars, buffer, out, eventVars, listed>>

-----------------------------------------------------------------------------
\* The rest of the aggregator's loop.

Observe ==
  /\ phase = "events"
  /\ \E e \in arrived : arrived' = arrived \ {e} /\ flows' = flows \cup {e}
  /\ UNCHANGED <<osVars, phase, first, scanVars, procNames, captured, rows, listed, settled>>

\* recv_timeout found nothing, or the channel closed.
Refresh ==
  /\ phase = "events"
  /\ arrived = {}
  /\ phase' = "enumerate"
  /\ buffer' = InitialBuffer
  /\ UNCHANGED <<osVars, first, todo, out, byPid, procNames, eventVars, listed, settled>>

NameOf(p) == IF p \in DOMAIN procNames THEN procNames[p] ELSE NoName

\* maybe_flush drains only when it is time.
Drain ==
  /\ phase = "drain"
  /\ phase' = "events"
  /\ \/ /\ rows' = rows \cup {[event |-> e, name |-> NameOf(e.pid)] : e \in flows}
        /\ flows' = {}
     \/ UNCHANGED <<rows, flows>>
  /\ UNCHANGED <<osVars, first, scanVars, procNames, arrived, captured, listed, settled>>

AggThread == Enumerate \/ Resolve \/ Resolved \/ Observe \/ Refresh \/ Drain

Init ==
  /\ os \in [Pids -> Programs \cup {NoName}]
  /\ changes = 0
  /\ phase = "enumerate" /\ first = TRUE
  /\ buffer = InitialBuffer
  /\ todo = {} /\ out = NoNames /\ byPid = NoNames /\ procNames = NoNames
  /\ arrived = {} /\ flows = {} /\ captured = 0 /\ rows = {}
  /\ listed = {} /\ settled = {}
  /\ held = [p \in Pids |-> {os[p]} \cap Programs]

Next == AggThread \/ \E p \in Pids : Start(p) \/ Exit(p) \/ Traffic(p)

Spec == Init /\ [][Next]_vars

\* The aggregator thread runs on, whatever the processes do.
FairSpec == Spec /\ WF_vars(AggThread)
-----------------------------------------------------------------------------
\* Properties.

NamesFound == UNION {[P -> Programs \ Protected] : P \in SUBSET Pids}

TypeOK ==
  /\ os \in [Pids -> Programs \cup {NoName}] /\ changes \in 0 .. MaxChanges
  /\ phase \in {"events", "enumerate", "resolve", "drain"} /\ first \in BOOLEAN
  /\ buffer \in InitialBuffer .. MaxBuffer
  /\ todo \subseteq Pids
  /\ {out, byPid, procNames} \subseteq NamesFound
  /\ settled \subseteq Alive /\ listed \subseteq Alive

\* A process that was there when a used refresh enumerated and lived on to the
\* end of it has its own name from then on, as long as it may be opened: no
\* full buffer cuts it off, no pid reused during the scan covers it, and no
\* failing refresh later takes the name away.
SettledNamesAreCurrent ==
  \A p \in settled : os[p] \notin Protected => NameOf(p) = os[p]

\* A row carries a program's name other than its own, if at all, only after
\* its pid had belonged to that other program (flow.rs:70 keeps the name of a
\* pid that was given to a process which may not be opened).
WrongNameOnlyAfterReuse ==
  \A r \in rows : r.name \in held[r.event.pid] \cup {NoName}

\* A refresh comes to an end however the processes come and go: the buffer
\* grows until they fit or the limit is reached.
RefreshEnds == (phase = "enumerate") ~> (phase \in {"events", "drain"})
=============================================================================
