----------------------------- MODULE SchemaProofs -----------------------------
(***************************************************************************)
(* Proofs about Schema, for any number of openers, any list of migrations  *)
(* and any statement refused: an open never returns an incomplete file.    *)
(*                                                                         *)
(* The argument.  Nothing ever removes an object or changes a version that *)
(* is there, so what an opener has seen stays true whatever the others do, *)
(* killed or not.  An opener that is about to apply statement i has seen   *)
(* the objects of the statements before it, and one past the last has seen *)
(* them all.                                                               *)
(***************************************************************************)
EXTENDS Schema, TLAPS

\* An opener has seen what the statements behind it create.
AppliedAreThere ==
  \A o \in Openers : opener[o].pc = "apply" =>
    \A j \in DOMAIN Migrations : j < opener[o].next => Migrations[j] \in objects

PastAllMeansAll ==
  \A o \in Openers :
    opener[o].pc \in {"version", "insert", "open"} => objects = Range(Migrations)

OpenMeansVersion ==
  \A o \in Openers : opener[o].pc = "open" => version = SchemaVersion

IInv == SchemaTypeOK /\ AppliedAreThere /\ PastAllMeansAll /\ OpenMeansVersion

States ==
  {Closed, Failed, Opened, Reading, Inserting} \cup {Applying(i) : i \in 1 .. Len(Migrations) + 1}

\* What the places of an opener have in common.
LEMMA PlaceOf ==
  ASSUME NEW s \in States
  PROVE  /\ s.pc \in {"closed", "failed", "open", "version", "insert", "apply"}
         /\ s.pc = "apply" => s.next \in 1 .. Len(Migrations) + 1 /\ s = Applying(s.next)
BY DEF States, Closed, Failed, Opened, Reading, Inserting, Applying

\* DOMAIN and Range of the list of migrations.
LEMMA MigrationsList ==
  /\ Len(Migrations) \in Nat
  /\ DOMAIN Migrations = 1 .. Len(Migrations)
  /\ Range(Migrations) = {Migrations[i] : i \in 1 .. Len(Migrations)}
BY SchemaAssumption DEF SchemaAssumption, Range

\* A step of one opener that only adds to the file keeps the invariant, when
\* its new place is covered by the file.
LEMMA MoveKeeps ==
  ASSUME IInv, NEW o \in Openers, NEW to \in States, NEW excuse \in BOOLEAN,
         Move(o, to, excuse),
         objects \subseteq objects', objects' \subseteq Range(Migrations),
         file' \in BOOLEAN, opens' \in [Openers -> Nat],
         version' \in {0, SchemaVersion, SchemaVersion + 1},
         version = SchemaVersion => version' = version,
         to.pc = "apply" => \A j \in DOMAIN Migrations : j < to.next => Migrations[j] \in objects',
         to.pc \in {"version", "insert", "open"} => objects' = Range(Migrations),
         to.pc = "open" => version' = SchemaVersion
  PROVE  IInv'
<1> USE DEF IInv
<1>1. opener \in [Openers -> States] /\ excused \in [Openers -> BOOLEAN]
  BY DEF SchemaTypeOK, States
<1>2. opener' = [opener EXCEPT ![o] = to] /\ opener' \in [Openers -> States]
  BY <1>1 DEF Move
<1>3. \A p \in Openers : opener'[p] = IF p = o THEN to ELSE opener[p]
  BY <1>1, <1>2
<1>4. excused' \in [Openers -> BOOLEAN]
  BY <1>1 DEF Move, Busy
<1>5. SchemaTypeOK'
  BY <1>2, <1>4 DEF SchemaTypeOK, States
<1>6. AppliedAreThere'
  BY <1>3 DEF AppliedAreThere
<1>7. PastAllMeansAll'
  BY <1>3 DEF PastAllMeansAll
<1>8. OpenMeansVersion'
  BY <1>3 DEF OpenMeansVersion
<1> QED BY <1>5, <1>6, <1>7, <1>8

\* The places an opener moves to.
LEMMA PlacesAreStates ==
  /\ {Closed, Failed, Opened, Reading, Inserting} \subseteq States
  /\ Applying(1) \in States
  /\ \A i \in DOMAIN Migrations : Applying(i + 1) \in States
  /\ \A i \in Int : Applying(i).pc = "apply" /\ Applying(i).next = i
  /\ Closed.pc = "closed" /\ Failed.pc = "failed" /\ Opened.pc = "open"
  /\ Reading.pc = "version" /\ Inserting.pc = "insert"
BY MigrationsList DEF States, Closed, Failed, Opened, Reading, Inserting, Applying

LEMMA InitInv == SchemaInit => IInv
<1> SUFFICES ASSUME SchemaInit PROVE IInv OBVIOUS
<1>1. \A o \in Openers : opener[o] = Closed BY DEF SchemaInit
<1>2. SchemaTypeOK
  BY PlacesAreStates DEF SchemaInit, SchemaTypeOK, States
<1> QED
  BY <1>1, <1>2, PlacesAreStates
  DEF IInv, AppliedAreThere, PastAllMeansAll, OpenMeansVersion

LEMMA NextInv == IInv /\ [SchemaNext]_schemaVars => IInv'
<1> SUFFICES ASSUME IInv, [SchemaNext]_schemaVars PROVE IInv' OBVIOUS
<1> USE MigrationsList, PlacesAreStates
<1>t. /\ file \in BOOLEAN /\ opens \in [Openers -> Nat] /\ excused \in [Openers -> BOOLEAN]
      /\ version \in {0, SchemaVersion, SchemaVersion + 1}
      /\ objects \subseteq Range(Migrations)
      /\ SchemaVersion \in Nat \ {0}
  BY SchemaAssumption DEF IInv, SchemaTypeOK, SchemaAssumption
<1>p. \A o \in Openers : opener[o] \in States
  BY DEF IInv, SchemaTypeOK, States
<1>1. ASSUME NEW o \in Openers, Connect(o) PROVE IInv'
  <2>1. PICK to \in States : Move(o, to, Unopenable(o)) /\ to \in {Applying(1), Failed}
    BY <1>1 DEF Connect
  <2>2. to.pc \notin {"version", "insert", "open"}
    BY <2>1
  <2>3. to.pc = "apply" => to.next = 1
    BY <2>1
  <2>4. Unopenable(o) \in BOOLEAN
    BY DEF Unopenable
  <2>5. objects' = objects /\ version' = version /\ file' \in BOOLEAN
    BY <1>1, <1>t DEF Connect
  <2>6. opens' \in [Openers -> Nat]
    BY <1>1, <1>t DEF Connect
  <2>7. to.pc = "apply" =>
          \A j \in DOMAIN Migrations : j < to.next => Migrations[j] \in objects'
    BY <2>3
  <2> QED
    BY <1>t, <2>1, <2>2, <2>4, <2>5, <2>6, <2>7, MoveKeeps
<1>2. ASSUME NEW o \in Openers, Statement(o) PROVE IInv'
  <2> DEFINE i == opener[o].next
  <2>1. opener[o].pc = "apply" /\ i \in DOMAIN Migrations
    BY <1>2 DEF Statement
  <2>2. \A j \in DOMAIN Migrations : j < i => Migrations[j] \in objects
    BY <2>1 DEF IInv, AppliedAreThere
  <2>3. /\ version' = version /\ file' = file /\ opens' = opens
        /\ excused[o] \in BOOLEAN
    BY <1>2, <1>t DEF Statement
  <2>4. CASE objects' = objects \cup {Migrations[i]} /\ Move(o, Applying(i + 1), excused[o])
    <3>1. \A j \in DOMAIN Migrations : j < i + 1 => Migrations[j] \in objects'
      BY <2>1, <2>2, <2>4
    <3>2. /\ Applying(i + 1) \in States
          /\ Applying(i + 1).pc = "apply" /\ Applying(i + 1).next = i + 1
      BY <2>1
    <3>3. objects \subseteq objects' /\ objects' \subseteq Range(Migrations)
      BY <1>t, <2>1, <2>4
    <3> HIDE DEF i
    <3> QED
      BY <1>t, <2>3, <2>4, <3>1, <3>2, <3>3, MoveKeeps
  <2>5. CASE objects' = objects /\ Move(o, Failed, excused[o])
    BY <1>t, <2>3, <2>5, MoveKeeps
  <2> QED
    BY <1>2, <2>4, <2>5 DEF Statement
<1>3. ASSUME NEW o \in Openers, StatementsDone(o) PROVE IInv'
  <2>1. opener[o].pc = "apply" /\ opener[o].next \notin DOMAIN Migrations
    BY <1>3 DEF StatementsDone
  <2>2. opener[o].next \in 1 .. Len(Migrations) + 1
    BY <1>p, <2>1, PlaceOf
  <2>3. \A j \in DOMAIN Migrations : Migrations[j] \in objects
    BY <2>1, <2>2 DEF IInv, AppliedAreThere
  <2>4. objects' = Range(Migrations)
    BY <1>3, <1>t, <2>3 DEF StatementsDone, dbVars
  <2>5. /\ version' = version /\ file' = file /\ opens' = opens /\ objects' = objects
        /\ Move(o, Reading, excused[o]) /\ excused[o] \in BOOLEAN
    BY <1>3, <1>t DEF StatementsDone, dbVars
  <2> QED
    BY <1>t, <2>4, <2>5, MoveKeeps
<1>4. ASSUME NEW o \in Openers, ReadVersion(o) PROVE IInv'
  <2>1. objects' = Range(Migrations)
    BY <1>4 DEF ReadVersion, dbVars, IInv, PastAllMeansAll
  <2>2. /\ version' = version /\ file' = file /\ opens' = opens /\ objects' = objects
        /\ excused[o] \in BOOLEAN
    BY <1>4, <1>t DEF ReadVersion, dbVars
  <2>3. \/ Move(o, Inserting, excused[o]) \/ Move(o, Failed, excused[o])
        \/ Move(o, Opened, excused[o]) /\ version = SchemaVersion
    BY <1>4 DEF ReadVersion
  <2> QED
    BY <1>t, <2>1, <2>2, <2>3, MoveKeeps
<1>5. ASSUME NEW o \in Openers, InsertVersion(o) PROVE IInv'
  <2>1. objects' = Range(Migrations)
    BY <1>5 DEF InsertVersion, IInv, PastAllMeansAll
  <2>2. /\ file' = file /\ opens' = opens /\ objects' = objects /\ excused[o] \in BOOLEAN
    BY <1>5, <1>t DEF InsertVersion
  <2>3. \/ Move(o, Failed, excused[o]) /\ version' = version
        \/ Move(o, Opened, FALSE) /\ version = 0 /\ version' = SchemaVersion
    BY <1>5 DEF InsertVersion
  <2> QED
    BY <1>t, <2>1, <2>2, <2>3, MoveKeeps
<1>6. ASSUME NEW o \in Openers, Refused(o) PROVE IInv'
  <2>1. /\ version' = version /\ file' = file /\ opens' = opens /\ objects' = objects
    BY <1>6 DEF Refused, dbVars
  <2>2. \/ Move(o, Failed, TRUE)
        \/ Move(o, Inserting, TRUE) /\ objects = Range(Migrations)
    BY <1>6 DEF Refused, IInv, PastAllMeansAll
  <2> QED
    BY <1>t, <2>1, <2>2, MoveKeeps
<1>7. ASSUME NEW o \in Openers, Close(o) PROVE IInv'
  <2>1. /\ version' = version /\ file' = file /\ opens' = opens /\ objects' = objects
        /\ Move(o, Closed, FALSE)
    BY <1>7 DEF Close, dbVars
  <2> QED
    BY <1>t, <2>1, MoveKeeps
<1>8. CASE UNCHANGED schemaVars
  BY <1>8
  DEF schemaVars, dbVars, openVars, IInv, SchemaTypeOK, AppliedAreThere,
      PastAllMeansAll, OpenMeansVersion
<1> QED
  BY <1>1, <1>2, <1>3, <1>4, <1>5, <1>6, <1>7, <1>8 DEF SchemaNext, RunMigrations

\* The inductive invariant holds of every behaviour of the openers.
THEOREM Inductive == SchemaSpec => []IInv
BY InitInv, NextInv, PTL DEF SchemaSpec

\* Every opener is at a place of run_migrations, and the file holds nothing but
\* what the migrations create.
THEOREM TypeCorrect == SchemaSpec => []SchemaTypeOK
<1>1. IInv => SchemaTypeOK BY DEF IInv
<1> QED BY <1>1, Inductive, PTL

\* No connection is ever handed out on a half-initialized database: an open
\* that returns (writer.rs:147, query.rs:34) leaves every table and index and
\* the version of its own build there for good, whoever else opens the file or
\* is killed while opening it.
THEOREM OpensAreComplete == SchemaSpec => []OpenMeansComplete
<1>1. IInv => OpenMeansComplete
  BY DEF IInv, PastAllMeansAll, OpenMeansVersion, OpenMeansComplete
<1> QED BY <1>1, Inductive, PTL

-----------------------------------------------------------------------------
\* An open that met no excuse so far has nothing in its way: the file is of its
\* build, or has no version yet; a read-only one finds everything there.
ClearPath ==
  \A o \in Openers : Busy(o) /\ ~excused[o] =>
    /\ version \in {0, SchemaVersion}
    /\ o \in ReadOnly => objects = Range(Migrations) /\ version # 0
    /\ opener[o].pc = "insert" => version = 0 /\ o \notin ReadOnly

NoFileNoVersion == ~file => version = 0

BusyHasFile == \A o \in Openers : Busy(o) => file

JInv == IInv /\ ClearPath /\ NoFileNoVersion /\ BusyHasFile /\ UndisturbedOpenSucceeds

\* A move excuses every other open in progress, so that JInv is about the one
\* that moved.
LEMMA MoveClears ==
  ASSUME JInv, IInv', NEW o \in Openers, NEW to \in States, NEW excuse \in BOOLEAN,
         Move(o, to, excuse),
         NoFileNoVersion', file => file',
         to.pc \in {"apply", "version", "insert"} => file',
         to = Failed => excuse,
         to.pc \in {"apply", "version", "insert"} /\ ~excuse =>
           /\ version' \in {0, SchemaVersion}
           /\ o \in ReadOnly => objects' = Range(Migrations) /\ version' # 0
           /\ to.pc = "insert" => version' = 0 /\ o \notin ReadOnly
  PROVE  JInv'
<1>1. opener \in [Openers -> States] /\ opener' = [opener EXCEPT ![o] = to]
  BY DEF JInv, IInv, SchemaTypeOK, States, Move
<1>2. \A p \in Openers : opener'[p] = IF p = o THEN to ELSE opener[p]
  BY <1>1
<1>3. \A p \in Openers : p # o => excused'[p] = (excused[p] \/ Busy(p))
  BY DEF Move
<1>4. to \notin {Opened, Closed} => excused'[o] = excuse
  BY DEF Move
<1>5. \A p \in Openers : p # o /\ Busy(p)' => excused'[p]
  BY <1>2, <1>3 DEF Busy
<1>6. to.pc \in {"apply", "version", "insert", "failed"} => to \notin {Opened, Closed}
  BY PlacesAreStates
<1>7. ClearPath'
  BY <1>2, <1>4, <1>5, <1>6 DEF ClearPath, Busy
<1>8. to.pc = "failed" => to = Failed
  BY PlacesAreStates DEF States, Applying
<1>9. UndisturbedOpenSucceeds'
  BY <1>2, <1>3, <1>4, <1>6, <1>8 DEF JInv, UndisturbedOpenSucceeds
<1>10. BusyHasFile'
  BY <1>2 DEF JInv, BusyHasFile, Busy
<1> QED
  BY <1>7, <1>9, <1>10 DEF JInv

LEMMA ClearInit == SchemaInit => JInv
<1> SUFFICES ASSUME SchemaInit PROVE JInv
  OBVIOUS
<1>1. \A o \in Openers : opener[o] = Closed
  BY DEF SchemaInit
<1>2. version = 0 \/ file
  BY DEF SchemaInit
<1> QED
  BY <1>1, <1>2, InitInv, PlacesAreStates
  DEF JInv, ClearPath, NoFileNoVersion, BusyHasFile, UndisturbedOpenSucceeds, Busy

LEMMA ClearNext == JInv /\ [SchemaNext]_schemaVars => JInv'
<1> SUFFICES ASSUME JInv, [SchemaNext]_schemaVars PROVE JInv'
  OBVIOUS
<1> USE PlacesAreStates
<1>i. IInv'
  BY NextInv DEF JInv
<1>t. /\ excused \in [Openers -> BOOLEAN] /\ file \in BOOLEAN
      /\ SchemaVersion \in Nat \ {0}
  BY SchemaAssumption DEF JInv, IInv, SchemaTypeOK, SchemaAssumption
<1>c. \A o \in Openers : Busy(o) /\ ~excused[o] =>
        /\ version \in {0, SchemaVersion}
        /\ o \in ReadOnly => objects = Range(Migrations) /\ version # 0
        /\ opener[o].pc = "insert" => version = 0 /\ o \notin ReadOnly
  BY DEF JInv, ClearPath
<1>b. \A o \in Openers : Busy(o) => file
  BY DEF JInv, BusyHasFile
<1>1. ASSUME NEW o \in Openers, Connect(o) PROVE JInv'
  <2>1. PICK to \in States : Move(o, to, Unopenable(o)) /\ to = IF file' THEN Applying(1) ELSE Failed
    BY <1>1 DEF Connect
  <2>2. Unopenable(o) \in BOOLEAN
    BY DEF Unopenable
  <2>3. /\ objects' = objects /\ version' = version
        /\ file' = (file \/ o \notin ReadOnly)
    BY <1>1 DEF Connect
  <2>4. NoFileNoVersion'
    BY <2>3 DEF JInv, NoFileNoVersion
  <2>5. to = Failed => Unopenable(o)
    <3>1. to = Failed => ~file'
      BY <2>1, PlacesAreStates
    <3>2. ~file' => version = 0 /\ o \in ReadOnly
      BY <2>3 DEF JInv, NoFileNoVersion
    <3> QED
      BY <3>1, <3>2 DEF Unopenable
  <2>6. /\ to.pc \notin {"insert"}
        /\ ~Unopenable(o) =>
             /\ version' \in {0, SchemaVersion}
             /\ o \in ReadOnly => objects' = Range(Migrations) /\ version' # 0
    BY <2>1, <2>3 DEF Unopenable
  <2> QED
    BY <1>i, <1>t, <2>1, <2>2, <2>3, <2>4, <2>5, <2>6, MoveClears
<1>2. ASSUME NEW o \in Openers, Statement(o) PROVE JInv'
  <2>1. /\ Busy(o) /\ version' = version /\ file' = file /\ excused[o] \in BOOLEAN
        /\ opener[o].next \in DOMAIN Migrations
    BY <1>2, <1>t DEF Statement, Busy
  <2>2. NoFileNoVersion'
    BY <2>1 DEF JInv, NoFileNoVersion
  <2>3. Migrations[opener[o].next] \in Range(Migrations)
    BY <2>1 DEF Range
  <2>4. CASE /\ objects' = objects \cup {Migrations[opener[o].next]}
             /\ Move(o, Applying(opener[o].next + 1), excused[o])
    <3>1. Applying(opener[o].next + 1).pc = "apply"
      BY DEF Applying
    <3>2. objects = Range(Migrations) => objects' = Range(Migrations)
      BY <2>3, <2>4
    <3>3. Applying(opener[o].next + 1) # Failed
      BY <3>1
    <3> QED
      BY <1>b, <1>c, <1>i, <2>1, <2>2, <2>4, <3>1, <3>2, <3>3, MoveClears
  <2>5. CASE /\ o \in ReadOnly /\ Migrations[opener[o].next] \notin objects
             /\ Move(o, Failed, excused[o])
    <3>1. excused[o]
      BY <1>c, <2>1, <2>3, <2>5
    <3> QED
      BY <1>b, <1>i, <2>1, <2>2, <2>5, <3>1, MoveClears
  <2> QED
    BY <1>2, <2>4, <2>5 DEF Statement
<1>3. ASSUME NEW o \in Openers, StatementsDone(o) PROVE JInv'
  <2>1. /\ Busy(o) /\ version' = version /\ file' = file /\ objects' = objects
        /\ excused[o] \in BOOLEAN /\ Move(o, Reading, excused[o])
    BY <1>3, <1>t DEF StatementsDone, Busy, dbVars
  <2>2. NoFileNoVersion'
    BY <2>1 DEF JInv, NoFileNoVersion
  <2> QED
    BY <1>b, <1>c, <1>i, <2>1, <2>2, MoveClears
<1>4. ASSUME NEW o \in Openers, ReadVersion(o) PROVE JInv'
  <2>1. /\ Busy(o) /\ version' = version /\ file' = file /\ objects' = objects
        /\ excused[o] \in BOOLEAN
    BY <1>4, <1>t DEF ReadVersion, Busy, dbVars
  <2>2. NoFileNoVersion'
    BY <2>1 DEF JInv, NoFileNoVersion
  <2>3. CASE version = 0 /\ Move(o, Inserting, excused[o])
    BY <1>b, <1>c, <1>i, <2>1, <2>2, <2>3, MoveClears
  <2>4. CASE Move(o, Opened, excused[o])
    BY <1>b, <1>i, <2>1, <2>2, <2>4, MoveClears
  <2>5. CASE version \notin {0, SchemaVersion} /\ Move(o, Failed, excused[o])
    BY <1>b, <1>c, <1>i, <2>1, <2>2, <2>5, MoveClears
  <2> QED
    BY <1>4, <2>3, <2>4, <2>5 DEF ReadVersion
<1>5. ASSUME NEW o \in Openers, InsertVersion(o) PROVE JInv'
  <2>1. Busy(o) /\ opener[o].pc = "insert" /\ file' = file /\ excused[o] \in BOOLEAN
    BY <1>5, <1>t DEF InsertVersion, Busy
  <2>2. CASE o \notin ReadOnly /\ version' = SchemaVersion /\ Move(o, Opened, FALSE)
    <3>1. file
      BY <1>b, <2>1
    <3>2. NoFileNoVersion'
      BY <2>1, <3>1 DEF NoFileNoVersion
    <3> QED
      BY <1>i, <2>1, <2>2, <3>1, <3>2, MoveClears
  <2>3. CASE (version # 0 \/ o \in ReadOnly) /\ version' = version /\ Move(o, Failed, excused[o])
    <3>1. NoFileNoVersion'
      BY <2>1, <2>3 DEF JInv, NoFileNoVersion
    <3>2. excused[o]
      BY <1>c, <2>1, <2>3
    <3> QED
      BY <1>b, <1>i, <2>1, <2>3, <3>1, <3>2, MoveClears
  <2> QED
    BY <1>5, <2>2, <2>3 DEF InsertVersion
<1>6. ASSUME NEW o \in Openers, Refused(o) PROVE JInv'
  <2>1. NoFileNoVersion' /\ Busy(o) /\ file' = file
    BY <1>6 DEF JInv, NoFileNoVersion, Refused, Busy, dbVars
  <2>2. Move(o, Failed, TRUE) \/ Move(o, Inserting, TRUE)
    BY <1>6 DEF Refused
  <2> QED
    BY <1>b, <1>i, <2>1, <2>2, MoveClears
<1>7. ASSUME NEW o \in Openers, Close(o) PROVE JInv'
  <2>1. NoFileNoVersion' /\ file' = file /\ Move(o, Closed, FALSE)
    BY <1>7 DEF JInv, NoFileNoVersion, Close, dbVars
  <2> QED
    BY <1>b, <1>i, <2>1, MoveClears
<1>8. CASE UNCHANGED schemaVars
  BY <1>8, <1>i
  DEF schemaVars, dbVars, openVars, JInv, ClearPath, NoFileNoVersion,
      BusyHasFile, UndisturbedOpenSucceeds, Busy
<1> QED
  BY <1>1, <1>2, <1>3, <1>4, <1>5, <1>6, <1>7, <1>8 DEF SchemaNext, RunMigrations

\* What a killed process leaves behind is never in the way of the next open:
\* every statement of run_migrations can be repeated (schema.rs:58), and the
\* version is written last.
THEOREM LeftoversAreNoObstacle == SchemaSpec => []UndisturbedOpenSucceeds
<1>1. JInv => UndisturbedOpenSucceeds
  BY DEF JInv
<1> QED
  BY <1>1, ClearInit, ClearNext, PTL DEF SchemaSpec
=============================================================================
