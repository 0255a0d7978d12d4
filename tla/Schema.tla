-------------------------------- MODULE Schema --------------------------------
(***************************************************************************)
(* Opening the database, src/src/store/schema.rs: run_migrations, called   *)
(* by the writer's open_connection and by the read-only Query::open.       *)
(*                                                                         *)
(* Several processes may open one file at once, and each may be killed.    *)
(* No transaction spans the statements: each commits by itself.  The rows  *)
(* of the tables are no concern of this module.                            *)
(***************************************************************************)
EXTENDS Integers, Sequences, Functions

CONSTANTS
  Openers,        \* connections opened to the file
  ReadOnly,       \* those of Query::open
  Migrations,     \* MIGRATIONS: the objects its statements create
  SchemaVersion,  \* SCHEMA_VERSION
  MayFail,        \* those SQLite may refuse a statement, with SQLITE_BUSY for one
  MaxOpens        \* bound of the model: opens per opener

ASSUME SchemaAssumption ==
  /\ ReadOnly \subseteq Openers
  /\ Migrations \in Seq(Range(Migrations))
  /\ SchemaVersion \in Nat \ {0}
  /\ MayFail \subseteq Openers
  /\ MaxOpens \in [Openers -> Nat]

VARIABLES
  file,      \* the database file exists
  objects,   \* the tables and indexes in it
  version,   \* the row 'version' of schema_meta, 0 without one
  opener,    \* where each opener is in run_migrations
  opens,     \* history: opens begun by each opener
  excused    \* history: the open met another process at work on the file, a
             \* refused statement, or a file that it cannot open

dbVars == <<file, objects, version>>
openVars == <<opener, opens, excused>>
schemaVars == <<dbVars, openVars>>

Closed == [pc |-> "closed"]
Failed == [pc |-> "failed"]
Opened == [pc |-> "open"]
Applying(i) == [pc |-> "apply", next |-> i]
Reading == [pc |-> "version"]
Inserting == [pc |-> "insert"]

Busy(o) == opener[o].pc \in {"apply", "version", "insert"}

\* Whoever moves is an excuse for the opens in progress.
Move(o, to, excuse) ==
  /\ opener' = [opener EXCEPT ![o] = to]
  /\ excused' = [p \in Openers |->
       IF p = o THEN excuse /\ to \notin {Opened, Closed} ELSE excused[p] \/ Busy(p)]

\* What no open of o can make good.
Unopenable(o) ==
  \/ version \notin {0, SchemaVersion}
  \/ o \in ReadOnly /\ (objects # Range(Migrations) \/ version = 0)

\* Connection::open creates the file; a read-only connection needs one.  The
\* PRAGMAs of a run are refused, if at all, like its first statement.
Connect(o) ==
  /\ opener[o].pc \in {"closed", "failed"}
  /\ opens[o] < MaxOpens[o]
  /\ file' = (file \/ o \notin ReadOnly)
  /\ Move(o, IF file' THEN Applying(1) ELSE Failed, Unopenable(o))
  /\ opens' = [opens EXCEPT ![o] = @ + 1]
  /\ UNCHANGED <<objects, version>>

\* Variant: CREATE without IF NOT EXISTS.
StatementStrict(o) ==
  /\ opener[o].pc = "apply" /\ opener[o].next \in DOMAIN Migrations
  /\ LET new == Migrations[opener[o].next] IN
       /\ objects' = IF o \in ReadOnly THEN objects ELSE objects \cup {new}
       /\ Move(o, IF new \in objects \/ o \in ReadOnly THEN Failed
                  ELSE Applying(opener[o].next + 1), excused[o])
  /\ UNCHANGED <<file, version, opens>>

\* CREATE ... IF NOT EXISTS writes only what is missing, which a read-only
\* connection may not.
Statement(o) ==
  /\ opener[o].pc = "apply" /\ opener[o].next \in DOMAIN Migrations
  /\ LET i == opener[o].next IN
       \/ /\ o \notin ReadOnly \/ Migrations[i] \in objects
          /\ objects' = objects \cup {Migrations[i]}
          /\ Move(o, Applying(i + 1), excused[o])
       \/ /\ o \in ReadOnly /\ Migrations[i] \notin objects
          /\ Move(o, Failed, excused[o])
          /\ UNCHANGED objects
  /\ UNCHANGED <<file, version, opens>>

StatementsDone(o) ==
  /\ opener[o].pc = "apply" /\ opener[o].next \notin DOMAIN Migrations
  /\ Move(o, Reading, excused[o])
  /\ UNCHANGED <<dbVars, opens>>

\* Variant: another build's version passes.
ReadAnyVersion(o) ==
  /\ opener[o].pc = "version"
  /\ Move(o, IF version = 0 THEN Inserting ELSE Opened, excused[o])
  /\ UNCHANGED <<dbVars, opens>>

ReadVersion(o) ==
  /\ opener[o].pc = "version"
  /\ Move(o, IF version = 0 THEN Inserting
             ELSE IF version = SchemaVersion THEN Opened ELSE Failed, excused[o])
  /\ UNCHANGED <<dbVars, opens>>

\* key is the primary key of schema_meta: one version row at most.
InsertVersion(o) ==
  /\ opener[o].pc = "insert"
  /\ \/ /\ version = 0 /\ o \notin ReadOnly
        /\ version' = SchemaVersion
        /\ Move(o, Opened, FALSE)
     \/ /\ version # 0 \/ o \in ReadOnly
        /\ Move(o, Failed, excused[o])
        /\ UNCHANGED version
  /\ UNCHANGED <<file, objects, opens>>

\* A refused statement ends the run with an error, except the SELECT of the
\* version: .ok() takes its error for a row that is not there.
Refused(o) ==
  /\ o \in MayFail
  /\ \/ opener[o].pc \in {"apply", "insert"} /\ Move(o, Failed, TRUE)
     \/ opener[o].pc = "version" /\ Move(o, Inserting, TRUE)
  /\ UNCHANGED <<dbVars, opens>>

\* The end of a connection, by a drop or with its process.
Close(o) ==
  /\ opener[o].pc \notin {"closed", "failed"}
  /\ Move(o, Closed, FALSE)
  /\ UNCHANGED <<dbVars, opens>>

RunMigrations(o) ==
  \/ Statement(o) \/ StatementsDone(o) \/ ReadVersion(o) \/ InsertVersion(o)
  \/ Refused(o)

\* The file at first: none, complete, or of a build with another version.
SchemaInit ==
  /\ file \in BOOLEAN
  /\ objects = IF file THEN Range(Migrations) ELSE {}
  /\ version \in IF file THEN {SchemaVersion, SchemaVersion + 1} ELSE {0}
  /\ opener = [o \in Openers |-> Closed]
  /\ opens = [o \in Openers |-> 0]
  /\ excused = [o \in Openers |-> FALSE]

SchemaNext == \E o \in Openers : Connect(o) \/ RunMigrations(o) \/ Close(o)

SchemaSpec == SchemaInit /\ [][SchemaNext]_schemaVars
-----------------------------------------------------------------------------
\* Properties.

SchemaTypeOK ==
  /\ file \in BOOLEAN
  /\ objects \subseteq Range(Migrations)
  /\ version \in {0, SchemaVersion, SchemaVersion + 1}
  /\ opener \in [Openers -> {Closed, Failed, Opened, Reading, Inserting}
                              \cup {Applying(i) : i \in 1 .. Len(Migrations) + 1}]
  /\ opens \in [Openers -> Nat]
  /\ excused \in [Openers -> BOOLEAN]

\* query.rs:32: nobody works on a half-initialized database.  A connection that
\* was opened sees every table and index and its own schema version, also when
\* the file was created by a process killed half-way, or is being created by
\* one that runs at the same time.
OpenMeansComplete ==
  \A o \in Openers :
    opener[o].pc = "open" => objects = Range(Migrations) /\ version = SchemaVersion

\* What killed processes leave behind is never in the way: an open that no
\* other process disturbs and no statement of which is refused succeeds,
\* whatever it finds, unless the file is another build's or, for a read-only
\* open, not there or incomplete.
UndisturbedOpenSucceeds == \A o \in Openers : opener[o].pc = "failed" => excused[o]
=============================================================================
