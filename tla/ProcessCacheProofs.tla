-------------------------- MODULE ProcessCacheProofs --------------------------
(***************************************************************************)
(* Proofs about ProcessCache, for any pids and programs, buffers of any    *)
(* size, and processes that start and exit at any point of a scan.         *)
(*                                                                         *)
(* The argument.  While names are being resolved, a process that was       *)
(* enumerated and still lives is yet to be resolved, or was found under    *)
(* its own name, or may not be opened; and whoever had settled before is   *)
(* among the enumerated.  So the map that is merged at the end speaks of   *)
(* every settled process, and says the truth.                              *)
(***************************************************************************)
EXTENDS ProcessCache, TLAPS

\* What is known of the enumerated processes while names are resolved.
ScanIsTrue ==
  phase = "resolve" =>
    /\ settled \subseteq listed
    /\ \A p \in listed :
         os[p] \notin Protected =>
           p \in todo \/ (p \in DOMAIN out /\ out[p] = os[p])

\* Every name was the program of its pid at some time.
NamesWereTrue ==
  /\ \A p \in Pids : os[p] # NoName => os[p] \in held[p]
  /\ \A p \in DOMAIN out : out[p] \in held[p]
  /\ \A p \in DOMAIN procNames : procNames[p] \in held[p]

IInv ==
  /\ TypeOK /\ ScanIsTrue /\ SettledNamesAreCurrent
  /\ NamesWereTrue /\ WrongNameOnlyAfterReuse
  /\ DOMAIN held = Pids
  /\ \A e \in arrived \cup flows : e.pid \in Pids
  /\ \A r \in rows : r.event.pid \in Pids

LEMMA IsMap ==
  ASSUME NEW f
  PROVE  f \in NamesFound <=> \E P \in SUBSET Pids : f \in [P -> Programs \ Protected]
BY DEF NamesFound

LEMMA MapFacts ==
  ASSUME NEW f \in NamesFound
  PROVE  /\ DOMAIN f \subseteq Pids
         /\ \A p \in DOMAIN f : f[p] \in Programs \ Protected
<1>1. PICK P \in SUBSET Pids : f \in [P -> Programs \ Protected]
  BY IsMap
<1> QED BY <1>1

LEMMA ExtendMap ==
  ASSUME NEW f \in NamesFound, NEW g \in NamesFound
  PROVE  /\ Extend(f, g) \in NamesFound
         /\ DOMAIN Extend(f, g) = DOMAIN f \cup DOMAIN g
         /\ \A p \in DOMAIN f \cup DOMAIN g :
              Extend(f, g)[p] = IF p \in DOMAIN g THEN g[p] ELSE f[p]
<1>1. /\ DOMAIN Extend(f, g) = DOMAIN f \cup DOMAIN g
      /\ \A p \in DOMAIN f \cup DOMAIN g :
           Extend(f, g)[p] = IF p \in DOMAIN g THEN g[p] ELSE f[p]
  BY DEF Extend
<1>2. \A p \in DOMAIN f \cup DOMAIN g : Extend(f, g)[p] \in Programs \ Protected
  BY <1>1, MapFacts
<1>3. DOMAIN f \cup DOMAIN g \in SUBSET Pids
  BY MapFacts
<1>4. Extend(f, g) \in [DOMAIN f \cup DOMAIN g -> Programs \ Protected]
  BY <1>1, <1>2 DEF Extend
<1> QED BY <1>1, <1>3, <1>4, IsMap

LEMMA SingleMap ==
  ASSUME NEW p \in Pids, NEW n \in Programs \ Protected
  PROVE  [x \in {p} |-> n] \in NamesFound
<1>1. [x \in {p} |-> n] \in [{p} -> Programs \ Protected] /\ {p} \in SUBSET Pids
  OBVIOUS
<1> QED BY <1>1, IsMap

LEMMA NoNamesMap == NoNames \in NamesFound /\ DOMAIN NoNames = {}
<1>1. NoNames \in [{} -> Programs \ Protected] /\ {} \in SUBSET Pids
  BY DEF NoNames
<1> QED BY <1>1, IsMap

LEMMA InitInv == Init => IInv
<1> SUFFICES ASSUME Init PROVE IInv OBVIOUS
<1>1. TypeOK
  <2>1. buffer \in InitialBuffer .. MaxBuffer
    BY ProcessAssumption DEF ProcessAssumption, Init
  <2>2. changes \in 0 .. MaxChanges
    BY ProcessAssumption DEF ProcessAssumption, Init
  <2> QED BY <2>1, <2>2, NoNamesMap DEF Init, TypeOK
<1>2. NamesWereTrue
  BY NoNamesMap DEF Init, NamesWereTrue
<1> QED
  BY <1>1, <1>2 DEF Init, IInv, ScanIsTrue, SettledNamesAreCurrent, WrongNameOnlyAfterReuse

\* A process starts or exits: what was known of its pid is forgotten.
LEMMA ChangeKeeps ==
  ASSUME IInv, NEW p \in Pids, NEW to \in Programs \cup {NoName}, Change(p, to),
         held' = [held EXCEPT ![p] = @ \cup ({to} \cap Programs)] \/ (to = NoName /\ held' = held)
  PROVE  IInv'
<1> USE DEF IInv
<1>1. /\ os' = [os EXCEPT ![p] = to] /\ os \in [Pids -> Programs \cup {NoName}]
      /\ listed' = listed \ {p} /\ settled' = settled \ {p}
      /\ changes' = changes + 1 /\ changes < MaxChanges /\ changes \in 0 .. MaxChanges
      /\ UNCHANGED <<phase, first, buffer, todo, out, byPid, procNames,
                     arrived, flows, captured, rows>>
  BY DEF Change, TypeOK, scanVars, eventVars
<1>2. /\ os' \in [Pids -> Programs \cup {NoName}]
      /\ \A q \in Pids : os'[q] = IF q = p THEN to ELSE os[q]
  BY <1>1
<1>3. /\ DOMAIN held' = Pids
      /\ \A q \in Pids : held[q] \subseteq held'[q]
      /\ to # NoName => to \in held'[p]
  OBVIOUS
<1>4. TypeOK'
  <2>1. settled' \subseteq Alive' /\ listed' \subseteq Alive'
    BY <1>1, <1>2 DEF TypeOK, Alive
  <2>2. changes' \in 0 .. MaxChanges
    BY <1>1, ProcessAssumption DEF ProcessAssumption
  <2> QED BY <1>1, <1>2, <2>1, <2>2 DEF TypeOK
<1>5. ScanIsTrue'
  BY <1>1, <1>2 DEF ScanIsTrue, TypeOK, Alive
<1>6. SettledNamesAreCurrent'
  BY <1>1, <1>2 DEF SettledNamesAreCurrent, NameOf, TypeOK, Alive
<1>7. NamesWereTrue'
  <2>1. DOMAIN out \subseteq Pids /\ DOMAIN procNames \subseteq Pids
    BY MapFacts DEF TypeOK
  <2> QED BY <1>1, <1>2, <1>3, <2>1 DEF NamesWereTrue
<1>8. WrongNameOnlyAfterReuse'
  BY <1>1, <1>3 DEF WrongNameOnlyAfterReuse
<1> QED BY <1>1, <1>3, <1>4, <1>5, <1>6, <1>7, <1>8

\* A step that touches neither the processes nor the names.
LEMMA ThreadKeeps ==
  ASSUME IInv, UNCHANGED <<os, changes, held, procNames, byPid, listed, settled>>,
         TypeOK', ScanIsTrue',
         \A p \in DOMAIN out' : out'[p] \in held[p],
         \A r \in rows' : r \in rows \/ (r.event.pid \in Pids /\ r.name = NameOf(r.event.pid)),
         \A e \in arrived' \cup flows' : e.pid \in Pids
  PROVE  IInv'
<1> USE DEF IInv
<1>1. SettledNamesAreCurrent'
  BY DEF SettledNamesAreCurrent, NameOf
<1>2. NamesWereTrue'
  BY DEF NamesWereTrue
<1>3. WrongNameOnlyAfterReuse'
  <2> SUFFICES ASSUME NEW r \in rows' PROVE r.name \in held[r.event.pid] \cup {NoName}
    BY DEF WrongNameOnlyAfterReuse
  <2>1. CASE r \in rows
    BY <2>1 DEF WrongNameOnlyAfterReuse
  <2>2. CASE r.event.pid \in Pids /\ r.name = NameOf(r.event.pid)
    BY <2>2 DEF NamesWereTrue, NameOf
  <2> QED BY <2>1, <2>2
<1> QED BY <1>1, <1>2, <1>3

\* The same, when no name is found and no row drained.
LEMMA QuietKeeps ==
  ASSUME IInv,
         UNCHANGED <<os, changes, held, procNames, byPid, listed, settled, out, rows>>,
         TypeOK', ScanIsTrue', \A e \in arrived' \cup flows' : e.pid \in Pids
  PROVE  IInv'
<1>1. \A p \in DOMAIN out' : out'[p] \in held[p]
  BY DEF IInv, NamesWereTrue
<1>2. \A r \in rows' : r \in rows \/ (r.event.pid \in Pids /\ r.name = NameOf(r.event.pid))
  BY DEF NameOf
<1> QED BY <1>1, <1>2, ThreadKeeps

\* A scan begins: everybody alive is enumerated, and yet to be resolved.
LEMMA CollectKeeps ==
  ASSUME IInv, Collect(Alive \cup {Idle}), UNCHANGED <<osVars, procNames, eventVars>>
  PROVE  IInv'
<1> USE DEF IInv
<1>1. /\ phase' = "resolve" /\ out' = NoNames /\ listed' = Alive
      /\ todo' = Alive
      /\ UNCHANGED <<os, changes, held, procNames, byPid, settled, first, buffer,
                     arrived, flows, captured, rows>>
  BY ProcessAssumption DEF ProcessAssumption, Collect, osVars, eventVars, Alive
<1>2. TypeOK'
  BY <1>1, NoNamesMap DEF TypeOK, Alive
<1>3. ScanIsTrue'
  BY <1>1 DEF ScanIsTrue, TypeOK
<1>4. SettledNamesAreCurrent'
  BY <1>1 DEF SettledNamesAreCurrent, NameOf
<1>5. NamesWereTrue'
  BY <1>1, NoNamesMap DEF NamesWereTrue
<1>6. WrongNameOnlyAfterReuse'
  BY <1>1 DEF WrongNameOnlyAfterReuse
<1> QED BY <1>1, <1>2, <1>3, <1>4, <1>5, <1>6

LEMMA ResolveKeeps ==
  ASSUME IInv, Resolve
  PROVE  IInv'
<1> USE DEF IInv
<1>1. PICK p \in todo :
        /\ phase = "resolve" /\ todo' = todo \ {p}
        /\ out' = IF os[p] \in Programs \ Protected
                  THEN Extend(out, [x \in {p} |-> os[p]]) ELSE out
  BY DEF Resolve
<1>2. /\ p \in Pids /\ out \in NamesFound
      /\ os \in [Pids -> Programs \cup {NoName}] /\ NoName \notin Programs
  BY <1>1, ProcessAssumption DEF TypeOK, ProcessAssumption
<1>3. UNCHANGED <<os, changes, held, phase, first, buffer, byPid, procNames,
                  arrived, flows, captured, rows, listed, settled>>
  BY DEF Resolve, osVars, eventVars
<1>4. /\ out' \in NamesFound
      /\ \A q \in DOMAIN out' : IF q = p /\ os[p] \in Programs \ Protected
                                THEN out'[q] = os[p]
                                ELSE q \in DOMAIN out /\ out'[q] = out[q]
      /\ \A q \in DOMAIN out : q # p => q \in DOMAIN out' /\ out'[q] = out[q]
      /\ os[p] \in Programs \ Protected => p \in DOMAIN out'
  <2>1. CASE os[p] \in Programs \ Protected
    <3> DEFINE g == [x \in {p} |-> os[p]]
    <3>1. g \in NamesFound /\ DOMAIN g = {p} /\ g[p] = os[p]
      BY <1>2, <2>1, SingleMap
    <3>2. out' = Extend(out, g)
      BY <1>1, <2>1
    <3> HIDE DEF g
    <3>3. /\ DOMAIN Extend(out, g) = DOMAIN out \cup {p} /\ Extend(out, g) \in NamesFound
          /\ \A q \in DOMAIN out \cup {p} :
               Extend(out, g)[q] = IF q \in {p} THEN g[q] ELSE out[q]
      BY <1>2, <3>1, ExtendMap
    <3> QED BY <2>1, <3>1, <3>2, <3>3
  <2>2. CASE os[p] \notin Programs \ Protected
    BY <1>1, <1>2, <2>2
  <2> QED BY <2>1, <2>2
<1>5. TypeOK'
  <2>1. todo' \subseteq Pids /\ {out', byPid', procNames'} \subseteq NamesFound
    BY <1>1, <1>3, <1>4 DEF TypeOK
  <2> QED BY <1>3, <2>1 DEF TypeOK, Alive
<1>6. ScanIsTrue'
  <2> SUFFICES ASSUME NEW q \in listed, os[q] \notin Protected
               PROVE  q \in todo' \/ (q \in DOMAIN out' /\ out'[q] = os[q])
    BY <1>1, <1>3 DEF ScanIsTrue
  <2>1. q \in Pids /\ os[q] \in Programs \ Protected
    BY <1>2 DEF TypeOK, Alive
  <2> QED BY <1>1, <1>4, <2>1 DEF ScanIsTrue
<1>7. \A q \in DOMAIN out' : out'[q] \in held[q]
  BY <1>2, <1>4 DEF NamesWereTrue
<1>8. \A r \in rows' : r \in rows \/ (r.event.pid \in Pids /\ r.name = NameOf(r.event.pid))
  BY <1>3 DEF NameOf
<1>9. \A e \in arrived' \cup flows' : e.pid \in Pids
  BY <1>3
<1> HIDE DEF IInv
<1> QED BY <1>3, <1>5, <1>6, <1>7, <1>8, <1>9, ThreadKeeps

\* The end of a scan: the names found go over the names known.
LEMMA ResolvedKeeps ==
  ASSUME IInv, Resolved
  PROVE  IInv'
<1> USE DEF IInv
<1>1. /\ phase = "resolve" /\ todo = {} /\ todo' = {} /\ byPid' = out /\ first' = FALSE
      /\ phase' \in {"events", "drain"}
      /\ UNCHANGED <<os, changes, held, buffer, out, arrived, flows, captured, rows, listed>>
  BY DEF Resolved, Leave, osVars, eventVars
<1>2. out \in NamesFound /\ procNames \in NamesFound
  BY DEF TypeOK
<1>3. ScanIsTrue'
  BY <1>1 DEF ScanIsTrue
<1>4. CASE UNCHANGED <<procNames, settled>>
  <2>1. TypeOK'
    BY <1>1, <1>2, <1>4 DEF TypeOK, Alive
  <2>2. SettledNamesAreCurrent'
    BY <1>1, <1>4 DEF SettledNamesAreCurrent, NameOf
  <2>3. NamesWereTrue'
    BY <1>1, <1>4 DEF NamesWereTrue
  <2>4. WrongNameOnlyAfterReuse'
    BY <1>1 DEF WrongNameOnlyAfterReuse
  <2> QED BY <1>1, <1>3, <2>1, <2>2, <2>3, <2>4
<1>5. CASE procNames' = Extend(procNames, out) /\ settled' = settled \cup listed
  <2>1. /\ procNames' \in NamesFound
        /\ DOMAIN procNames' = DOMAIN procNames \cup DOMAIN out
        /\ \A p \in DOMAIN procNames \cup DOMAIN out :
             procNames'[p] = IF p \in DOMAIN out THEN out[p] ELSE procNames[p]
    BY <1>2, <1>5, ExtendMap
  <2>2. TypeOK'
    BY <1>1, <1>2, <1>5, <2>1 DEF TypeOK, Alive
  <2>3. SettledNamesAreCurrent'
    <3> SUFFICES ASSUME NEW p \in settled', os[p] \notin Protected
                 PROVE  p \in DOMAIN procNames' /\ procNames'[p] = os[p]
      BY <1>1 DEF SettledNamesAreCurrent, NameOf
    <3>1. p \in listed
      BY <1>1, <1>5 DEF ScanIsTrue
    <3>2. p \in DOMAIN out /\ out[p] = os[p]
      BY <1>1, <3>1 DEF ScanIsTrue
    <3> QED BY <2>1, <3>2
  <2>4. NamesWereTrue'
    BY <1>1, <2>1 DEF NamesWereTrue
  <2>5. WrongNameOnlyAfterReuse'
    BY <1>1 DEF WrongNameOnlyAfterReuse
  <2> QED BY <1>1, <1>3, <2>2, <2>3, <2>4, <2>5
<1> QED BY <1>1, <1>4, <1>5 DEF Resolved

LEMMA NextInv == IInv /\ [Next]_vars => IInv'
<1> SUFFICES ASSUME IInv, [Next]_vars PROVE IInv' OBVIOUS
<1> USE DEF IInv
<1>t. /\ os \in [Pids -> Programs \cup {NoName}] /\ NoName \notin Programs
      /\ InitialBuffer \in Nat /\ MaxBuffer \in Nat /\ InitialBuffer <= MaxBuffer
      /\ buffer \in InitialBuffer .. MaxBuffer
  BY ProcessAssumption DEF TypeOK, ProcessAssumption
<1>1. ASSUME NEW p \in Pids, Start(p) PROVE IInv'
  <2>1. PICK program \in Programs :
          Change(p, program) /\ held' = [held EXCEPT ![p] = @ \cup {program}]
    BY <1>1 DEF Start
  <2>2. {program} \cap Programs = {program}
    OBVIOUS
  <2>3. held' = [held EXCEPT ![p] = @ \cup ({program} \cap Programs)]
    BY <2>1, <2>2
  <2> QED BY <2>1, <2>3, ChangeKeeps
<1>2. ASSUME NEW p \in Pids, Exit(p) PROVE IInv'
  BY <1>2, ChangeKeeps DEF Exit
<1>3. ASSUME NEW p \in Pids, Traffic(p) PROVE IInv'
  <2>1. /\ arrived' = arrived \cup {[pid |-> p, program |-> os[p]]}
        /\ UNCHANGED <<os, changes, held, phase, first, buffer, todo, out, byPid, procNames,
                       flows, rows, listed, settled>>
    BY <1>3 DEF Traffic, osVars, scanVars
  <2>2. TypeOK' /\ ScanIsTrue'
    BY <2>1 DEF TypeOK, Alive, ScanIsTrue
  <2>3. \A e \in arrived' \cup flows' : e.pid \in Pids
    BY <2>1
  <2> HIDE DEF IInv
  <2> QED BY <2>1, <2>2, <2>3, QuietKeeps
<1>4. CASE Enumerate
  <2>1. CASE Collect(Alive \cup {Idle})
    BY <1>4, <2>1, CollectKeeps DEF Enumerate
  <2>2. CASE /\ 2 * buffer <= MaxBuffer /\ buffer' = 2 * buffer
             /\ UNCHANGED <<phase, first, todo, out, byPid, listed, settled>>
    <3>1. UNCHANGED <<os, changes, held, procNames, arrived, flows, captured, rows>>
      BY <1>4 DEF Enumerate, osVars, eventVars
    <3>2. TypeOK' /\ ScanIsTrue'
      BY <1>t, <2>2, <3>1 DEF TypeOK, Alive, ScanIsTrue
    <3>3. \A e \in arrived' \cup flows' : e.pid \in Pids
      BY <3>1
    <3> HIDE DEF IInv
    <3> QED BY <2>2, <3>1, <3>2, <3>3, QuietKeeps
  <2>3. CASE Fails
    <3>1. /\ UNCHANGED <<os, changes, held, procNames, arrived, flows, captured, rows,
                         buffer, out, byPid, listed, settled>>
          /\ phase' \in {"events", "drain"} /\ first' = FALSE /\ todo' = {}
      BY <1>4, <2>3 DEF Enumerate, Fails, Leave, osVars, eventVars
    <3>2. TypeOK' /\ ScanIsTrue'
      BY <3>1 DEF TypeOK, Alive, ScanIsTrue
    <3>3. \A e \in arrived' \cup flows' : e.pid \in Pids
      BY <3>1
    <3> HIDE DEF IInv
    <3> QED BY <3>1, <3>2, <3>3, QuietKeeps
  <2> QED BY <1>4, <2>1, <2>2, <2>3 DEF Enumerate
<1>5. CASE Resolve
  BY <1>5, ResolveKeeps
<1>6. CASE Resolved
  BY <1>6, ResolvedKeeps
<1>7. CASE Observe
  <2>1. PICK e \in arrived : arrived' = arrived \ {e} /\ flows' = flows \cup {e}
    BY <1>7 DEF Observe
  <2>2. UNCHANGED <<os, changes, held, phase, first, buffer, todo, out, byPid, procNames,
                    rows, listed, settled>>
    BY <1>7 DEF Observe, osVars, scanVars
  <2>3. TypeOK' /\ ScanIsTrue'
    BY <2>2 DEF TypeOK, Alive, ScanIsTrue
  <2>4. \A x \in arrived' \cup flows' : x.pid \in Pids
    BY <2>1
  <2> HIDE DEF IInv
  <2> QED BY <2>2, <2>3, <2>4, QuietKeeps
<1>8. CASE Refresh
  <2>1. /\ phase' = "enumerate" /\ buffer' = InitialBuffer
        /\ UNCHANGED <<os, changes, held, first, todo, out, byPid, procNames,
                       arrived, flows, captured, rows, listed, settled>>
    BY <1>8 DEF Refresh, osVars, eventVars
  <2>2. TypeOK' /\ ScanIsTrue'
    BY <1>t, <2>1 DEF TypeOK, Alive, ScanIsTrue
  <2>3. \A e \in arrived' \cup flows' : e.pid \in Pids
    BY <2>1
  <2> HIDE DEF IInv
  <2> QED BY <2>1, <2>2, <2>3, QuietKeeps
<1>9. CASE Drain
  <2>1. /\ phase' = "events" /\ flows' \subseteq flows
        /\ UNCHANGED <<os, changes, held, first, buffer, todo, out, byPid, procNames,
                       arrived, captured, listed, settled>>
    BY <1>9 DEF Drain, osVars, scanVars
  <2>2. TypeOK' /\ ScanIsTrue'
    BY <2>1 DEF TypeOK, Alive, ScanIsTrue
  <2>3. \A r \in rows' : r \in rows \/ \E e \in flows : r = [event |-> e, name |-> NameOf(e.pid)]
    BY <1>9 DEF Drain
  <2>4. \A r \in rows' : r \in rows \/ (r.event.pid \in Pids /\ r.name = NameOf(r.event.pid))
    BY <2>3 DEF NameOf
  <2>5. \A p \in DOMAIN out' : out'[p] \in held[p]
    BY <2>1 DEF NamesWereTrue
  <2>6. \A e \in arrived' \cup flows' : e.pid \in Pids
    BY <2>1
  <2> HIDE DEF IInv
  <2> QED BY <2>1, <2>2, <2>4, <2>5, <2>6, ThreadKeeps
<1>10. CASE UNCHANGED vars
  <2>1. UNCHANGED <<os, changes, held, phase, first, buffer, todo, out, byPid, procNames,
                    arrived, flows, captured, rows, listed, settled>>
    BY <1>10 DEF vars, osVars, scanVars, eventVars
  <2>2. TypeOK' /\ ScanIsTrue'
    BY <2>1 DEF TypeOK, Alive, ScanIsTrue
  <2>3. \A e \in arrived' \cup flows' : e.pid \in Pids
    BY <2>1
  <2> HIDE DEF IInv
  <2> QED BY <2>1, <2>2, <2>3, QuietKeeps
<1> QED
  BY <1>1, <1>2, <1>3, <1>4, <1>5, <1>6, <1>7, <1>8, <1>9, <1>10 DEF Next, AggThread

\* The inductive invariant holds of every behaviour.
THEOREM Inductive == Spec => []IInv
BY InitInv, NextInv, PTL DEF Spec

\* Buffers stay within their limit, and names are put to pids of user processes
\* that may be opened.
THEOREM TypeCorrect == Spec => []TypeOK
<1>1. IInv => TypeOK BY DEF IInv
<1> QED BY <1>1, Inductive, PTL

\* A process that a used refresh enumerated and that outlived the refresh goes
\* by its own name for the rest of its life, whatever other processes do.
THEOREM SettledNamesStayCurrent == Spec => []SettledNamesAreCurrent
<1>1. IInv => SettledNamesAreCurrent BY DEF IInv
<1> QED BY <1>1, Inductive, PTL

\* No row bears the name of a program that never had the row's pid.
THEOREM WrongNamesNeedReuse == Spec => []WrongNameOnlyAfterReuse
<1>1. IInv => WrongNameOnlyAfterReuse BY DEF IInv
<1> QED BY <1>1, Inductive, PTL
=============================================================================
