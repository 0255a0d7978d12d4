----------------------------- MODULE WriterProofs -----------------------------
(***************************************************************************)
(* Proofs about Writer, for every number of clients, keys, rows, batch     *)
(* size and channel capacity, and any combination of SQLite faults.        *)
(***************************************************************************)
EXTENDS Writer, WellFoundedInduction, TLAPS

-----------------------------------------------------------------------------
\* Facts about messages and batches.

LEMMA RowMessage ==
  ASSUME NEW m \in Messages, m.type = "Row"
  PROVE  m.row \in Rows
  BY DEF Messages

LEMMA RowsInAreRows ==
  ASSUME NEW s \in Seq(Messages)
  PROVE  RowsIn(s) \subseteq Rows
  <1>1. \A i \in DOMAIN s : s[i] \in Messages
    OBVIOUS
  <1> QED BY <1>1, RowMessage DEF RowsIn

LEMMA EmptySequence ==
  ASSUME NEW S
  PROVE  <<>> \in Seq(S) /\ Len(<<>>) = 0
  OBVIOUS

LEMMA RangeOfRows ==
  ASSUME NEW S, NEW s \in Seq(S)
  PROVE  Range(s) \subseteq S
  BY DEF Range

LEMMA InsertedInRange ==
  ASSUME NEW rows
  PROVE  Inserted(rows) \subseteq Range(rows)
  BY DEF Inserted, Range

LEMMA RowsInAppend ==
  ASSUME NEW s \in Seq(Messages), NEW m \in Messages
  PROVE  RowsIn(Append(s, m)) = RowsIn(s) \cup (IF m.type = "Row" THEN {m.row} ELSE {})
  <1> DEFINE t == Append(s, m)
  <1>1. /\ DOMAIN t = DOMAIN s \cup {Len(s) + 1}
        /\ \A i \in DOMAIN s : t[i] = s[i]
        /\ t[Len(s) + 1] = m
        /\ Len(s) + 1 \notin DOMAIN s
    OBVIOUS
  <1> HIDE DEF t
  <1> QED BY <1>1 DEF RowsIn, t

LEMMA RowsInTail ==
  ASSUME NEW s \in Seq(Messages), s # <<>>
  PROVE  RowsIn(s) = RowsIn(Tail(s)) \cup (IF Head(s).type = "Row" THEN {Head(s).row} ELSE {})
  <1> DEFINE t == Tail(s)
  <1>1. /\ Head(s) = s[1] /\ 1 \in DOMAIN s
        /\ \A i \in DOMAIN t : i + 1 \in DOMAIN s /\ t[i] = s[i + 1]
        /\ \A i \in DOMAIN s : i # 1 => i - 1 \in DOMAIN t /\ t[i - 1] = s[i]
    OBVIOUS
  <1> HIDE DEF t
  <1>2. RowsIn(t) \cup (IF Head(s).type = "Row" THEN {Head(s).row} ELSE {}) \subseteq RowsIn(s)
    BY <1>1 DEF RowsIn
  <1>3. RowsIn(s) \subseteq RowsIn(t) \cup (IF Head(s).type = "Row" THEN {Head(s).row} ELSE {})
    BY <1>1 DEF RowsIn
  <1> QED BY <1>2, <1>3 DEF t

LEMMA RangeAppend ==
  ASSUME NEW S, NEW b \in Seq(S), NEW r \in S
  PROVE  Range(Append(b, r)) = Range(b) \cup {r}
  <1> DEFINE t == Append(b, r)
  <1>1. /\ DOMAIN t = DOMAIN b \cup {Len(b) + 1}
        /\ \A i \in DOMAIN b : t[i] = b[i]
        /\ t[Len(b) + 1] = r
    OBVIOUS
  <1> HIDE DEF t
  <1> QED BY <1>1 DEF Range, t

LEMMA EmptySets == RowsIn(<<>>) = {} /\ Range(<<>>) = {}
  BY DEF RowsIn, Range

-----------------------------------------------------------------------------
\* What the writer thread's steps do to the fate of rows keeps their type.

FatesTyped == Settled \subseteq Rows

LEMMA FlushBatchTyped ==
  ASSUME NEW rows \in Seq(Rows), FatesTyped, FlushBatch(rows), UNCHANGED dropped
  PROVE  batch' \in Seq(Rows) /\ FatesTyped'
  <1>1. Range(rows) \subseteq Rows /\ Inserted(rows) \subseteq Rows
    BY RangeOfRows, InsertedInRange
  <1>2. batch' \in Seq(Rows)
    BY EmptySequence DEF FlushBatch
  <1>3. FatesTyped'
    BY <1>1 DEF FlushBatch, CommitRows, LoseRows, FatesTyped, Settled, fateVars
  <1> QED BY <1>2, <1>3

LEMMA ExitTyped ==
  ASSUME NEW rest \in Seq(Messages), TypeOK, Exit(rest)
  PROVE  TypeOK'
  BY RangeOfRows, InsertedInRange, RowsInAreRows, WriterAssumption
     DEF Exit, CommitRows, LoseRows, TypeOK, Settled, fateVars, handleVars

LEMMA SendTyped ==
  ASSUME NEW msg \in Messages, channel \in Seq(Messages), Send(msg)
  PROVE  channel' \in Seq(Messages) /\ Len(channel') <= ChannelCapacity
  BY WriterAssumption DEF Send

LEMMA TypeInit == Init => TypeOK
  <1>1. <<>> \in Seq(Messages) /\ <<>> \in Seq(Rows) /\ Len(<<>>) <= ChannelCapacity
    BY WriterAssumption
  <1>2. ASSUME Init PROVE TypeOK
    <2>1. channel \in Seq(Messages) /\ Len(channel) <= ChannelCapacity /\ batch \in Seq(Rows)
      BY <1>1, <1>2 DEF Init
    <2>2. handle \in [Clients -> {"held", "waiting", "returned", "refused", "dropped"}]
      BY <1>2 DEF Init
    <2>3. mark \in [Clients -> Nat]
      BY <1>2 DEF Init
    <2> QED BY <1>2, <2>1, <2>2, <2>3 DEF Init, TypeOK, Settled
  <1> QED BY <1>2

LEMMA TypeKept ==
  ASSUME TypeOK, [Next]_vars
  PROVE  TypeOK'
  <1> USE WriterAssumption
  <1>1. ASSUME NEW c \in Clients, NEW k \in Keys, NEW d \in Data, Submit(c, k, d)
        PROVE  TypeOK'
    <2> DEFINE row == [id |-> sent + 1, key |-> k, data |-> d]
    <2>1. row \in Rows /\ [type |-> "Row", row |-> row] \in Messages
      BY DEF TypeOK, Rows, Messages
    <2> HIDE DEF row
    <2>2. CASE Send([type |-> "Row", row |-> row]) /\ UNCHANGED failed
      BY <1>1, <2>1, <2>2, SendTyped DEF Submit, TypeOK, Settled, fateVars, handleVars
    <2>3. CASE failed' = failed \cup {row} /\ UNCHANGED channel
      BY <1>1, <2>1, <2>3 DEF Submit, TypeOK, Settled, fateVars, handleVars
    <2> QED BY <1>1, <2>2, <2>3 DEF Submit, row
  <1>2. ASSUME NEW c \in Clients, Flush(c) PROVE TypeOK'
    <2>1. [type |-> "Flush"] \in Messages
      BY DEF Messages
    <2> QED BY <1>2, <2>1, SendTyped DEF Flush, TypeOK, Settled, fateVars, handleVars
  <1>3. ASSUME NEW c \in Clients, Shutdown(c) PROVE TypeOK'
    <2>1. [type |-> "Shutdown", from |-> c] \in Messages
      BY DEF Messages
    <2> QED BY <1>3, <2>1, SendTyped DEF Shutdown, TypeOK, Settled, fateVars
  <1>4. ASSUME NEW c \in Clients, Await(c) \/ DropHandle(c) PROVE TypeOK'
    BY <1>4 DEF Await, DropHandle, TypeOK, Settled, fateVars
  <1>5. CASE Prepare
    <2>1. RowsIn(channel) \subseteq Rows
      BY RowsInAreRows DEF TypeOK
    <2>2. CASE writer' = "running" /\ UNCHANGED <<channel, failed>>
      BY <1>5, <2>2 DEF Prepare, TypeOK, Settled, handleVars
    <2>3. CASE /\ writer' = "closed" /\ channel' = <<>>
               /\ failed' = failed \cup RowsIn(channel)
      BY <1>5, <2>1, <2>3 DEF Prepare, TypeOK, Settled, handleVars
    <2> QED BY <1>5, <2>2, <2>3 DEF Prepare
  <1>6. CASE RecvRow
    <2> DEFINE rows == Append(batch, Head(channel).row)
    <2>1. channel # <<>> /\ Head(channel) \in Messages /\ Head(channel).type = "Row"
      BY <1>6 DEF RecvRow, Receive, TypeOK
    <2>2. rows \in Seq(Rows)
      BY <2>1, RowMessage DEF TypeOK
    <2>3. Tail(channel) \in Seq(Messages) /\ Len(Tail(channel)) <= ChannelCapacity
      BY <2>1 DEF TypeOK
    <2>4. FatesTyped
      BY DEF TypeOK, FatesTyped
    <2>5. batch' \in Seq(Rows) /\ FatesTyped' /\ due' \in BOOLEAN
      <3> HIDE DEF rows
      <3>1. CASE FlushBatch(rows) /\ due' = FALSE
        BY <1>6, <2>2, <2>4, <3>1, FlushBatchTyped DEF RecvRow
      <3>2. CASE batch' = rows /\ UNCHANGED <<fateVars, due>>
        BY <1>6, <2>2, <2>4, <3>2 DEF RecvRow, FatesTyped, Settled, fateVars, TypeOK
      <3> QED BY <1>6, <3>1, <3>2 DEF RecvRow, rows
    <2> QED BY <1>6, <2>3, <2>5 DEF RecvRow, TypeOK, FatesTyped, handleVars
  <1>7. CASE RecvFlush
    <2>1. channel # <<>> /\ Tail(channel) \in Seq(Messages)
            /\ Len(Tail(channel)) <= ChannelCapacity
      BY <1>7 DEF RecvFlush, Receive, TypeOK
    <2>2. FatesTyped /\ batch \in Seq(Rows)
      BY DEF TypeOK, FatesTyped
    <2>3. batch' \in Seq(Rows) /\ FatesTyped'
      <3>1. CASE FlushBatch(batch)
        BY <1>7, <2>2, <3>1, FlushBatchTyped DEF RecvFlush
      <3>2. CASE UNCHANGED <<batch, fateVars>>
        BY <1>7, <2>2, <3>2 DEF RecvFlush, FatesTyped, Settled, fateVars
      <3> QED BY <1>7, <3>1, <3>2 DEF RecvFlush
    <2> QED BY <1>7, <2>1, <2>3 DEF RecvFlush, TypeOK, FatesTyped, handleVars
  <1>8. CASE RecvShutdown
    <2>1. Tail(channel) \in Seq(Messages)
      BY <1>8 DEF RecvShutdown, Receive, TypeOK
    <2> QED BY <1>8, <2>1, ExitTyped DEF RecvShutdown
  <1>9. CASE Timeout
    <2>1. batch' \in Seq(Rows) /\ FatesTyped'
      <3>1. FatesTyped /\ batch \in Seq(Rows) /\ FlushBatch(batch) /\ UNCHANGED dropped
        BY <1>9 DEF Timeout, TypeOK, FatesTyped
      <3> QED BY <3>1, FlushBatchTyped
    <2> QED BY <1>9, <2>1 DEF Timeout, TypeOK, FatesTyped, handleVars
  <1>10. CASE Disconnected
    BY <1>10, EmptySequence, ExitTyped DEF Disconnected
  <1>11. CASE SignalDone \/ DeadlinePasses
    BY <1>11 DEF SignalDone, DeadlinePasses, TypeOK, Settled, fateVars, handleVars
  <1>12. CASE UNCHANGED vars
    BY <1>12 DEF vars, TypeOK, Settled
  <1> QED
    BY <1>1, <1>2, <1>3, <1>4, <1>5, <1>6, <1>7, <1>8, <1>9, <1>10, <1>11, <1>12
       DEF Next, WriterThread, Finished

\* Type correctness: every step of a client or of the writer thread keeps the
\* channel within its capacity and every row well-formed.
THEOREM TypeCorrect == Spec => []TypeOK
  <1>1. Init => TypeOK
    BY TypeInit
  <1>2. TypeOK /\ [Next]_vars => TypeOK'
    BY TypeKept
  <1> QED BY <1>1, <1>2, PTL DEF Spec

-----------------------------------------------------------------------------
\* The inductive invariant.  FirstRowWins needs InOrder (the row kept must be
\* the older one), InOrder needs the numbering of the rows and OneFate needs
\* InOrder; SilentLossBehindShutdown needs to know what lies in the channel
\* behind a Shutdown message.

IdsBounded == \A r \in InMemory \cup Settled : r.id <= sent

\* A closed writer holds nothing, and nothing is in the batch before it runs.
ClosedIsEmpty ==
  /\ ~Open => channel = <<>> /\ batch = <<>>
  /\ writer = "starting" => batch = <<>>

\* The caller of a Shutdown message in the channel waits; the rows behind the
\* message were submitted after it.
ShutdownsMarked ==
  /\ \A c \in Clients : mark[c] <= sent
  /\ \A i \in DOMAIN channel : channel[i].type = "Shutdown" =>
       /\ handle[channel[i].from] = "waiting"
       /\ \A j \in DOMAIN channel :
            j > i /\ channel[j].type = "Row" => mark[channel[i].from] < channel[j].row.id

\* OneFate but for its first conjunct: a row may be forgotten altogether.
Separate ==
  /\ \A r, s \in InMemory \cup Settled : r.id = s.id => r = s
  /\ InChannel \cap InBatch = {}
  /\ InMemory \cap Settled = {}
  /\ table \cap (ignored \cup failed \cup dropped) = {}
  /\ ignored \cap (failed \cup dropped) = {}
  /\ failed \cap dropped = {}

\* What a kill of the process and a new start leave true (see HeadlessProofs).
KInv ==
  /\ TypeOK
  /\ IdsBounded
  /\ InOrder
  /\ Separate
  /\ FirstRowWins
  /\ ClosedIsEmpty
  /\ ShutdownsMarked

IInv ==
  /\ KInv
  /\ OneFate
  /\ SilentLossBehindShutdown
-----------------------------------------------------------------------------
\* What a step does to the rows, whatever thread takes it: the seven kinds of
\* step.  The invariants about sets of rows follow from the kind alone.

sinkVars == <<InMemory, table, ignored, failed, dropped, sent, Open>>

\* rows is what a transaction is made of.
OldestInMemory(rows) ==
  /\ rows \in Seq(Rows)
  /\ \A i, j \in DOMAIN rows : i < j => rows[i].id < rows[j].id
  /\ Range(rows) \subseteq InMemory
  /\ \A r \in Range(rows), s \in InMemory \ Range(rows) : r.id < s.id

Accepted ==
  \E row \in Rows :
    /\ Open /\ Open'
    /\ row.id = sent + 1
    /\ sent' = sent + 1
    /\ InMemory' = InMemory \cup {row}
    /\ UNCHANGED <<table, ignored, failed, dropped>>

Refused ==
  \E row \in Rows :
    /\ ~Open /\ ~Open'
    /\ row.id = sent + 1
    /\ sent' = sent + 1
    /\ InMemory = {} /\ InMemory' = {}
    /\ failed' = failed \cup {row}
    /\ UNCHANGED <<table, ignored, dropped>>

Quiet == UNCHANGED sinkVars

Written ==
  \E rows \in Seq(Rows) :
    /\ OldestInMemory(rows)
    /\ CommitRows(rows)
    /\ InMemory' = InMemory \ Range(rows)
    /\ UNCHANGED <<dropped, sent, Open>>

Unwritten ==
  \E rows \in Seq(Rows) :
    /\ OldestInMemory(rows)
    /\ LoseRows(rows)
    /\ InMemory' = InMemory \ Range(rows)
    /\ UNCHANGED <<dropped, sent, Open>>

Closed ==
  \E rows \in Seq(Rows) :
    /\ Open /\ ~Open'
    /\ OldestInMemory(rows)
    /\ CommitRows(rows) \/ LoseRows(rows)
    /\ InMemory' = {}
    /\ dropped' = dropped \cup (InMemory \ Range(rows))
    /\ UNCHANGED sent

Aborted ==
  /\ Open /\ ~Open'
  /\ InMemory' = {}
  /\ failed' = failed \cup InMemory
  /\ UNCHANGED <<table, ignored, dropped, sent>>

Kinds == Accepted \/ Refused \/ Quiet \/ Written \/ Unwritten \/ Closed \/ Aborted

LEMMA BatchIsOldest ==
  ASSUME KInv
  PROVE  OldestInMemory(batch)
  BY DEF KInv, TypeOK, InOrder, OldestInMemory, InMemory, InBatch

\* The batch with the row at the head of the channel.
LEMMA BatchAndHead ==
  ASSUME KInv, Receive("Row"), NEW rows, rows = Append(batch, Head(channel).row)
  PROVE  /\ Head(channel).row \in Rows
         /\ OldestInMemory(rows)
         /\ Range(rows) = InBatch \cup {Head(channel).row}
         /\ InChannel = RowsIn(Tail(channel)) \cup {Head(channel).row}
         /\ \A r \in RowsIn(Tail(channel)) : Head(channel).row.id < r.id
  <1> DEFINE row == Head(channel).row
  <1>1. /\ channel \in Seq(Messages) /\ channel # <<>> /\ batch \in Seq(Rows)
        /\ Head(channel) \in Messages /\ Head(channel).type = "Row"
    BY DEF Receive, KInv, TypeOK
  <1>2. row \in Rows
    BY <1>1, RowMessage
  <1>3. InChannel = RowsIn(Tail(channel)) \cup {row}
    BY <1>1, RowsInTail DEF InChannel
  <1>4. Range(rows) = InBatch \cup {row}
    BY <1>1, <1>2, RangeAppend DEF InBatch
  <1>5. /\ DOMAIN rows = DOMAIN batch \cup {Len(batch) + 1}
        /\ \A i \in DOMAIN batch : rows[i] = batch[i] /\ i < Len(batch) + 1
        /\ rows[Len(batch) + 1] = row
        /\ rows \in Seq(Rows)
    BY <1>1, <1>2
  <1>6. \A r \in RowsIn(Tail(channel)) : row.id < r.id
    <2>1. /\ \A i \in DOMAIN Tail(channel) :
                 i + 1 \in DOMAIN channel /\ Tail(channel)[i] = channel[i + 1] /\ 1 < i + 1
          /\ channel[1] = Head(channel) /\ 1 \in DOMAIN channel
      BY <1>1
    <2>2. \A i \in DOMAIN channel :
            1 < i /\ channel[i].type = "Row" => channel[1].row.id < channel[i].row.id
      BY <1>1, <2>1 DEF KInv, InOrder
    <2> QED BY <2>1, <2>2 DEF RowsIn
  <1>7. \A i, j \in DOMAIN rows : i < j => rows[i].id < rows[j].id
    <2> SUFFICES ASSUME NEW i \in DOMAIN rows, NEW j \in DOMAIN rows, i < j
                 PROVE  rows[i].id < rows[j].id
      OBVIOUS
    <2>1. i \in DOMAIN batch
      BY <1>1, <1>5
    <2>2. CASE j \in DOMAIN batch
      BY <1>5, <2>1, <2>2 DEF KInv, InOrder
    <2>3. CASE j = Len(batch) + 1
      <3>1. rows[i] \in InBatch /\ row \in InChannel
        BY <1>3, <1>5, <2>1 DEF InBatch, Range
      <3> QED BY <1>5, <2>3, <3>1 DEF KInv, InOrder
    <2> QED BY <1>5, <2>2, <2>3
  <1>8. \A r \in Range(rows), s \in InMemory \ Range(rows) : r.id < s.id
    <2>1. ASSUME NEW s \in InMemory \ Range(rows) PROVE s \in RowsIn(Tail(channel)) /\ s \in InChannel
      BY <1>3, <1>4, <2>1 DEF InMemory
    <2>2. \A r \in InBatch, s \in InChannel : r.id < s.id
      BY DEF KInv, InOrder
    <2> QED BY <1>4, <1>6, <2>1, <2>2
  <1>9. Range(rows) \subseteq InMemory
    BY <1>3, <1>4 DEF InMemory
  <1> QED BY <1>2, <1>3, <1>4, <1>5, <1>6, <1>7, <1>8, <1>9 DEF OldestInMemory

LEMMA FlushBatchKind ==
  ASSUME NEW rows \in Seq(Rows), OldestInMemory(rows), FlushBatch(rows),
         InChannel' = InMemory \ Range(rows),
         batch' = rows => InMemory' = InMemory,
         UNCHANGED <<dropped, sent, writer>>
  PROVE  Kinds
  <1>1. UNCHANGED Open
    BY DEF Open
  <1>2. batch' = <<>> => InMemory' = InMemory \ Range(rows)
    BY EmptySets DEF InMemory, InBatch
  <1>3. CASE batch' = <<>> /\ CommitRows(rows)
    BY <1>1, <1>2, <1>3 DEF Kinds, Written
  <1>4. CASE batch' = <<>> /\ LoseRows(rows)
    BY <1>1, <1>2, <1>4 DEF Kinds, Unwritten
  <1>5. CASE batch' = rows /\ UNCHANGED fateVars
    BY <1>1, <1>5 DEF Kinds, Quiet, sinkVars, fateVars
  <1> QED BY <1>3, <1>4, <1>5 DEF FlushBatch

LEMMA ExitKind ==
  ASSUME KInv, NEW rest \in Seq(Messages), Exit(rest), Open,
         RowsIn(rest) = InChannel
  PROVE  Kinds
  <1>1. ~Open' /\ InMemory' = {}
    BY EmptySets DEF Exit, Open, InMemory, InChannel, InBatch
  <1>2. batch \in Seq(Rows) /\ OldestInMemory(batch)
    BY BatchIsOldest DEF KInv, TypeOK
  <1>3. InMemory \ Range(batch) = RowsIn(rest)
    BY DEF KInv, Separate, InMemory, InBatch
  <1>4. CommitRows(batch) \/ LoseRows(batch)
    BY DEF Exit
  <1> QED BY <1>1, <1>2, <1>3, <1>4 DEF Exit, Kinds, Closed

\* Every step of the writer is of one of the seven kinds.
LEMMA StepKinds ==
  ASSUME KInv, [Next]_vars
  PROVE  Kinds
  <1> USE DEF KInv
  <1>1. ASSUME NEW c \in Clients, NEW k \in Keys, NEW d \in Data, Submit(c, k, d)
        PROVE  Kinds
    <2> DEFINE row == [id |-> sent + 1, key |-> k, data |-> d]
    <2> DEFINE msg == [type |-> "Row", row |-> row]
    <2>1. row \in Rows /\ msg \in Messages /\ row.id = sent + 1
      BY DEF TypeOK, Rows, Messages
    <2>2. /\ sent' = sent + 1
          /\ UNCHANGED <<batch, writer, table, ignored, dropped>>
          /\ (Send(msg) /\ UNCHANGED failed)
             \/ (~Open /\ failed' = failed \cup {row} /\ UNCHANGED channel)
      BY <1>1 DEF Submit
    <2>3. msg.type = "Row" /\ msg.row = row
      OBVIOUS
    <2> HIDE DEF row, msg
    <2>4. CASE Send(msg) /\ UNCHANGED failed
      <3>1. RowsIn(channel') = RowsIn(channel) \cup {row}
        BY <2>1, <2>3, <2>4, RowsInAppend DEF Send, TypeOK
      <3>2. InMemory' = InMemory \cup {row}
        BY <2>2, <3>1 DEF InMemory, InChannel, InBatch
      <3>3. Open /\ Open'
        BY <2>2, <2>4 DEF Send, Open
      <3> QED BY <2>1, <2>2, <2>4, <3>2, <3>3 DEF Kinds, Accepted
    <2>5. CASE ~Open /\ failed' = failed \cup {row} /\ UNCHANGED channel
      <3>1. InMemory = {}
        BY <2>5, EmptySets DEF ClosedIsEmpty, InMemory, InChannel, InBatch
      <3>2. InMemory' = InMemory /\ ~Open'
        BY <2>2, <2>5 DEF InMemory, InChannel, InBatch, Open
      <3> QED BY <2>1, <2>2, <2>5, <3>1, <3>2 DEF Kinds, Refused
    <2> QED BY <2>2, <2>4, <2>5
  <1>2. ASSUME NEW c \in Clients, Flush(c) \/ Shutdown(c) PROVE Kinds
    <2>1. UNCHANGED <<batch, writer, table, ignored, failed, dropped, sent>>
      BY <1>2 DEF Flush, Shutdown, fateVars
    <2>2. RowsIn(channel') = RowsIn(channel)
      <3>1. ASSUME NEW msg \in Messages, msg.type # "Row", Send(msg)
            PROVE  RowsIn(channel') = RowsIn(channel)
        BY <3>1, RowsInAppend DEF Send, TypeOK
      <3>2. /\ [type |-> "Flush"] \in Messages
            /\ [type |-> "Shutdown", from |-> c] \in Messages
            /\ [type |-> "Flush"].type # "Row"
            /\ [type |-> "Shutdown", from |-> c].type # "Row"
        BY DEF Messages
      <3>3. \/ UNCHANGED channel
            \/ Send([type |-> "Flush"])
            \/ Send([type |-> "Shutdown", from |-> c])
        BY <1>2 DEF Flush, Shutdown
      <3> QED BY <3>1, <3>2, <3>3
    <2> QED BY <2>1, <2>2 DEF Kinds, Quiet, sinkVars, InMemory, InChannel, InBatch, Open
  <1>3. ASSUME NEW c \in Clients, Await(c) \/ DropHandle(c) PROVE Kinds
    BY <1>3 DEF Await, DropHandle, Kinds, Quiet, sinkVars, InMemory, InChannel, InBatch,
                Open, fateVars
  <1>4. CASE Prepare
    <2>1. UNCHANGED <<batch, table, sent, ignored, dropped>> /\ Open /\ batch = <<>>
      BY <1>4 DEF Prepare, Open, ClosedIsEmpty
    <2>2. CASE writer' = "running" /\ UNCHANGED <<channel, failed>>
      BY <2>1, <2>2 DEF Kinds, Quiet, sinkVars, InMemory, InChannel, InBatch, Open
    <2>3. CASE /\ writer' = "closed" /\ channel' = <<>>
               /\ failed' = failed \cup RowsIn(channel)
      <3>1. InMemory = RowsIn(channel) /\ InMemory' = {} /\ ~Open'
        BY <2>1, <2>3, EmptySets DEF InMemory, InChannel, InBatch, Open
      <3> QED BY <2>1, <2>3, <3>1 DEF Kinds, Aborted
    <2> QED BY <1>4, <2>2, <2>3 DEF Prepare
  <1>5. CASE RecvRow
    <2> DEFINE rows == Append(batch, Head(channel).row)
    <2>1. Receive("Row") /\ channel' = Tail(channel) /\ UNCHANGED <<writer, sent, dropped>>
      BY <1>5 DEF RecvRow
    <2>2. /\ OldestInMemory(rows)
          /\ rows \in Seq(Rows)
          /\ Range(rows) = InBatch \cup {Head(channel).row}
          /\ InChannel = RowsIn(Tail(channel)) \cup {Head(channel).row}
          /\ \A r \in RowsIn(Tail(channel)) : Head(channel).row.id < r.id
          /\ Head(channel).row \in Rows
      BY <2>1, BatchAndHead DEF OldestInMemory
    <2>3. InChannel' = RowsIn(Tail(channel))
      BY <2>1 DEF InChannel
    <2>4. Head(channel).row \notin RowsIn(Tail(channel))
      BY <2>2 DEF Rows
    <2> HIDE DEF rows
    <2>5. InChannel' = InMemory \ Range(rows)
      BY <2>2, <2>3, <2>4 DEF Separate, InMemory
    <2>6. batch' = rows => InMemory' = InMemory
      BY <2>2, <2>3 DEF InMemory, InBatch
    <2>7. CASE FlushBatch(rows)
      BY <2>1, <2>2, <2>5, <2>6, <2>7, FlushBatchKind
    <2>8. CASE batch' = rows /\ UNCHANGED <<fateVars, due>>
      BY <2>1, <2>6, <2>8 DEF Kinds, Quiet, sinkVars, Open, fateVars
    <2> QED BY <1>5, <2>7, <2>8 DEF RecvRow, rows
  <1>6. CASE RecvFlush
    <2>1. /\ channel \in Seq(Messages) /\ channel # <<>> /\ Head(channel).type # "Row"
          /\ channel' = Tail(channel) /\ UNCHANGED <<writer, sent, dropped>>
      BY <1>6 DEF RecvFlush, Receive, TypeOK
    <2>2. InChannel' = InChannel
      BY <2>1, RowsInTail DEF InChannel
    <2>3. batch \in Seq(Rows) /\ OldestInMemory(batch)
      BY BatchIsOldest DEF TypeOK
    <2>4. InChannel' = InMemory \ Range(batch)
      BY <2>2 DEF Separate, InMemory, InBatch
    <2>5. batch' = batch => InMemory' = InMemory
      BY <2>2 DEF InMemory, InBatch
    <2>6. CASE FlushBatch(batch)
      BY <2>1, <2>3, <2>4, <2>5, <2>6, FlushBatchKind
    <2>7. CASE UNCHANGED <<batch, fateVars>>
      BY <2>1, <2>5, <2>7 DEF Kinds, Quiet, sinkVars, Open, fateVars
    <2> QED BY <1>6, <2>6, <2>7 DEF RecvFlush
  <1>7. CASE RecvShutdown
    <2>1. /\ channel \in Seq(Messages) /\ channel # <<>> /\ Head(channel).type # "Row"
          /\ Exit(Tail(channel)) /\ Open
      BY <1>7 DEF RecvShutdown, Receive, TypeOK, Open
    <2>2. RowsIn(Tail(channel)) = InChannel
      BY <2>1, RowsInTail DEF InChannel
    <2>3. Tail(channel) \in Seq(Messages)
      BY <2>1
    <2> QED BY <2>1, <2>2, <2>3, ExitKind
  <1>8. CASE Timeout
    <2>1. /\ FlushBatch(batch) /\ UNCHANGED <<channel, writer, sent, dropped>>
      BY <1>8 DEF Timeout
    <2>2. batch \in Seq(Rows) /\ OldestInMemory(batch)
      BY BatchIsOldest DEF TypeOK
    <2>3. InChannel' = InMemory \ Range(batch)
      BY <2>1 DEF Separate, InMemory, InBatch, InChannel
    <2>4. batch' = batch => InMemory' = InMemory
      BY <2>1 DEF InMemory, InBatch, InChannel
    <2> QED BY <2>1, <2>2, <2>3, <2>4, FlushBatchKind
  <1>9. CASE Disconnected
    <2>1. Exit(<<>>) /\ Open /\ RowsIn(<<>>) = InChannel /\ <<>> \in Seq(Messages)
      BY <1>9, EmptySequence DEF Disconnected, Open, InChannel
    <2> QED BY <2>1, ExitKind
  <1>10. CASE SignalDone \/ DeadlinePasses
    BY <1>10 DEF SignalDone, DeadlinePasses, Kinds, Quiet, sinkVars, InMemory, InChannel,
                 InBatch, Open, fateVars
  <1>11. CASE UNCHANGED vars
    BY <1>11 DEF vars, Kinds, Quiet, sinkVars, InMemory, InChannel, InBatch, Open
  <1> QED
    BY <1>1, <1>2, <1>3, <1>4, <1>5, <1>6, <1>7, <1>8, <1>9, <1>10, <1>11
       DEF Next, WriterThread, Finished
-----------------------------------------------------------------------------
\* The invariants about sets of rows, kept by every kind of step.

LEMMA LeastNat ==
  ASSUME NEW T \in SUBSET Nat, T # {}
  PROVE  \E x \in T : \A y \in T : x <= y
  <1> DEFINE R == OpToRel(<, Nat)
  <1>1. IsWellFoundedOn(R, Nat)
    BY NatLessThanWellFounded
  <1> HIDE DEF R
  <1>2. PICK x \in T : \A y \in T : ~ (<<y, x>> \in R)
    BY <1>1, WFMin
  <1>3. \A y \in T : ~ (y < x)
    BY <1>2 DEF R, OpToRel
  <1> QED BY <1>3

\* A row that is not inserted has an older one of its key, in the table or
\* among those inserted with it.
LEMMA IgnoredHasWinner ==
  ASSUME NEW rows \in Seq(Rows),
         \A i, j \in DOMAIN rows : i < j => rows[i].id < rows[j].id,
         NEW s \in Range(rows) \ Inserted(rows)
  PROVE  \/ \E r \in table : r.key = s.key
         \/ \E r \in Inserted(rows) : r.key = s.key /\ r.id < s.id
  <1> SUFFICES ASSUME \A r \in table : r.key # s.key
               PROVE  \E r \in Inserted(rows) : r.key = s.key /\ r.id < s.id
    OBVIOUS
  <1>1. PICK j \in DOMAIN rows : s = rows[j]
    BY DEF Range
  <1> DEFINE T == {h \in DOMAIN rows : rows[h].key = s.key}
  <1>2. T \in SUBSET Nat /\ j \in T
    BY <1>1
  <1>3. PICK h \in T : \A g \in T : h <= g
    BY <1>2, LeastNat
  <1>4. rows[h] \in Inserted(rows)
    <2>1. \A g \in 1 .. (h - 1) : rows[g].key # rows[h].key
      BY <1>3
    <2> QED BY <1>3, <2>1 DEF Inserted
  <1>5. h # j
    BY <1>1, <1>4
  <1>6. h < j
    BY <1>2, <1>3, <1>5
  <1> QED BY <1>1, <1>3, <1>4, <1>6

\* At most one of the rows inserted together has a given key.
LEMMA InsertedUnique ==
  ASSUME NEW rows \in Seq(Rows), NEW r \in Inserted(rows), NEW s \in Inserted(rows),
         r.key = s.key
  PROVE  r = s
  <1>1. PICK i \in DOMAIN rows : r = rows[i] /\ \A h \in 1 .. (i - 1) : rows[h].key # rows[i].key
    BY DEF Inserted
  <1>2. PICK j \in DOMAIN rows : s = rows[j] /\ \A h \in 1 .. (j - 1) : rows[h].key # rows[j].key
    BY DEF Inserted
  <1>3. ~(i < j) /\ ~(j < i)
    BY <1>1, <1>2
  <1>4. i = j
    BY <1>1, <1>2, <1>3
  <1> QED BY <1>1, <1>2, <1>4

LEMMA CommitKeepsFirst ==
  ASSUME FirstRowWins, NEW rows \in Seq(Rows), CommitRows(rows),
         \A i, j \in DOMAIN rows : i < j => rows[i].id < rows[j].id,
         \A r \in table, s \in Range(rows) : r.id < s.id
  PROVE  FirstRowWins'
  <1>1. \A r, s \in table' : r.key = s.key => r = s
    <2>1. \A r \in table, s \in Inserted(rows) : r.key # s.key
      BY DEF Inserted
    <2>2. \A r, s \in Inserted(rows) : r.key = s.key => r = s
      BY InsertedUnique
    <2> QED BY <2>1, <2>2 DEF CommitRows, FirstRowWins
  <1>2. ASSUME NEW s \in ignored' PROVE \E r \in table' : r.key = s.key /\ r.id < s.id
    <2>1. CASE s \in ignored
      BY <2>1 DEF CommitRows, FirstRowWins
    <2>2. CASE s \in Range(rows) \ Inserted(rows)
      BY <2>2, IgnoredHasWinner DEF CommitRows
    <2> QED BY <1>2, <2>1, <2>2 DEF CommitRows
  <1> QED BY <1>1, <1>2 DEF FirstRowWins

LEMMA FirstRowWinsKept ==
  ASSUME KInv, Kinds
  PROVE  FirstRowWins'
  <1> USE DEF KInv
  <1>1. \A rows \in Seq(Rows) : OldestInMemory(rows) =>
          /\ \A i, j \in DOMAIN rows : i < j => rows[i].id < rows[j].id
          /\ \A r \in table, s \in Range(rows) : r.id < s.id
    BY DEF OldestInMemory, InOrder, Settled
  <1>2. CASE UNCHANGED <<table, ignored>>
    BY <1>2 DEF FirstRowWins
  <1>3. CASE Written \/ Closed
    BY <1>1, <1>2, <1>3, CommitKeepsFirst DEF Written, Closed, LoseRows
  <1>4. Accepted \/ Refused \/ Quiet \/ Unwritten \/ Aborted => UNCHANGED <<table, ignored>>
    BY DEF Accepted, Refused, Quiet, Unwritten, Aborted, LoseRows, sinkVars
  <1> QED BY <1>2, <1>3, <1>4 DEF Kinds

\* The part of Separate that is about sets, and the part of InOrder.
Partition ==
  /\ \A r, s \in InMemory \cup Settled : r.id = s.id => r = s
  /\ InMemory \cap Settled = {}
  /\ table \cap (ignored \cup failed \cup dropped) = {}
  /\ ignored \cap (failed \cup dropped) = {}
  /\ failed \cap dropped = {}

SettledFirst == \A r \in Settled, s \in InMemory : r.id < s.id

\* Where the rows go: what is in memory and what is settled, per kind of step.
LEMMA Moves ==
  ASSUME KInv, Kinds
  PROVE  \/ \E row \in Rows :
              /\ row.id = sent + 1 /\ sent' = sent + 1
              /\ \/ InMemory' = InMemory \cup {row} /\ Settled' = Settled
                 \/ InMemory = {} /\ InMemory' = {} /\ Settled' = Settled \cup {row}
         \/ \E S \in SUBSET InMemory :
              /\ sent' = sent
              /\ InMemory' = InMemory \ S /\ Settled' = Settled \cup S
              /\ \A r \in S, s \in InMemory \ S : r.id < s.id
  <1>1. CASE Accepted
    BY <1>1 DEF Accepted, Settled
  <1>2. CASE Refused
    BY <1>2 DEF Refused, Settled
  <1>3. CASE Quiet
    <2>1. sent' = sent /\ InMemory' = InMemory \ {} /\ Settled' = Settled \cup {}
      BY <1>3 DEF Quiet, sinkVars, Settled
    <2> QED BY <2>1
  <1>4. ASSUME NEW rows \in Seq(Rows), CommitRows(rows) \/ LoseRows(rows), UNCHANGED dropped
        PROVE  Settled' = Settled \cup Range(rows)
    BY <1>4, InsertedInRange DEF CommitRows, LoseRows, Settled
  <1>5. CASE Written \/ Unwritten
    BY <1>4, <1>5 DEF Written, Unwritten, OldestInMemory
  <1>6. CASE Closed
    <2>1. PICK rows \in Seq(Rows) :
            /\ OldestInMemory(rows)
            /\ CommitRows(rows) \/ LoseRows(rows)
            /\ InMemory' = {} /\ sent' = sent
            /\ dropped' = dropped \cup (InMemory \ Range(rows))
      BY <1>6 DEF Closed
    <2>2. Settled' = Settled \cup InMemory
      BY <2>1, InsertedInRange DEF CommitRows, LoseRows, Settled, OldestInMemory
    <2> QED BY <2>1, <2>2
  <1>7. CASE Aborted
    BY <1>7 DEF Aborted, Settled
  <1> QED BY <1>1, <1>2, <1>3, <1>5, <1>6, <1>7 DEF Kinds

LEMMA OrderKept ==
  ASSUME KInv, Kinds
  PROVE  IdsBounded' /\ SettledFirst'
  <1>1. /\ sent \in Nat
        /\ \A r \in InMemory \cup Settled : r.id \in Nat /\ r.id <= sent
        /\ \A r \in Settled, s \in InMemory : r.id < s.id
    <2>1. InMemory \cup Settled \subseteq Rows
      BY RowsInAreRows, RangeOfRows DEF KInv, TypeOK, InMemory, InChannel, InBatch
    <2> QED BY <2>1 DEF KInv, TypeOK, IdsBounded, InOrder, Rows
  <1>2. ASSUME NEW row \in Rows, row.id = sent + 1, sent' = sent + 1,
               \/ InMemory' = InMemory \cup {row} /\ Settled' = Settled
               \/ InMemory = {} /\ InMemory' = {} /\ Settled' = Settled \cup {row}
        PROVE  IdsBounded' /\ SettledFirst'
    BY <1>1, <1>2 DEF IdsBounded, SettledFirst
  <1>3. ASSUME NEW S \in SUBSET InMemory, sent' = sent,
               InMemory' = InMemory \ S, Settled' = Settled \cup S,
               \A r \in S, s \in InMemory \ S : r.id < s.id
        PROVE  IdsBounded' /\ SettledFirst'
    BY <1>1, <1>3 DEF IdsBounded, SettledFirst
  <1> QED BY <1>2, <1>3, Moves

LEMMA PartitionKept ==
  ASSUME KInv, Kinds
  PROVE  Partition'
  <1>1. /\ sent \in Nat
        /\ \A r \in InMemory \cup Settled : r.id \in Nat /\ r.id <= sent
        /\ \A r, s \in InMemory \cup Settled : r.id = s.id => r = s
        /\ InMemory \cap Settled = {}
    <2>1. InMemory \cup Settled \subseteq Rows
      BY RowsInAreRows, RangeOfRows DEF KInv, TypeOK, InMemory, InChannel, InBatch
    <2> QED BY <2>1 DEF KInv, TypeOK, IdsBounded, Separate, Rows
  <1>2. /\ (\A r, s \in InMemory \cup Settled : r.id = s.id => r = s)'
        /\ (InMemory \cap Settled = {})'
    <2>1. ASSUME NEW row \in Rows, row.id = sent + 1, sent' = sent + 1,
                 \/ InMemory' = InMemory \cup {row} /\ Settled' = Settled
                 \/ InMemory = {} /\ InMemory' = {} /\ Settled' = Settled \cup {row}
          PROVE  <1>2!1 /\ <1>2!2
      <3>1. InMemory' \cup Settled' = InMemory \cup Settled \cup {row}
        BY <2>1
      <3>2. row \notin InMemory \cup Settled
        BY <1>1, <2>1
      <3> QED BY <1>1, <2>1, <3>1, <3>2
    <2>2. ASSUME NEW S \in SUBSET InMemory, sent' = sent,
                 InMemory' = InMemory \ S, Settled' = Settled \cup S
          PROVE  <1>2!1 /\ <1>2!2
      <3>1. InMemory' \cup Settled' = InMemory \cup Settled
        BY <2>2
      <3> QED BY <1>1, <2>2, <3>1
    <2> QED BY <2>1, <2>2, Moves
  <1>3. /\ (table \cap (ignored \cup failed \cup dropped) = {})'
        /\ (ignored \cap (failed \cup dropped) = {})'
        /\ (failed \cap dropped = {})'
    <2>1. /\ table \cap (ignored \cup failed \cup dropped) = {}
          /\ ignored \cap (failed \cup dropped) = {}
          /\ failed \cap dropped = {}
          /\ InMemory \cap (table \cup ignored \cup failed \cup dropped) = {}
      BY <1>1 DEF KInv, Separate, Settled
    <2>2. CASE Accepted \/ Quiet
      BY <2>1, <2>2 DEF Accepted, Quiet, sinkVars
    <2>3. CASE Refused
      <3>1. PICK row \in Rows :
              /\ row.id = sent + 1 /\ failed' = failed \cup {row}
              /\ UNCHANGED <<table, ignored, dropped>>
        BY <2>3 DEF Refused
      <3>2. row \notin table \cup ignored \cup dropped
        BY <1>1, <3>1 DEF Settled
      <3> QED BY <2>1, <3>1, <3>2
    <2>4. CASE Written \/ Unwritten \/ Closed
      <3>1. PICK rows \in Seq(Rows) :
              /\ Range(rows) \subseteq InMemory
              /\ CommitRows(rows) \/ LoseRows(rows)
              /\ dropped' = dropped \/ dropped' = dropped \cup (InMemory \ Range(rows))
        BY <2>4 DEF Written, Unwritten, Closed, OldestInMemory
      <3>2. Inserted(rows) \subseteq Range(rows)
        BY InsertedInRange
      <3> QED BY <2>1, <3>1, <3>2 DEF CommitRows, LoseRows
    <2>5. CASE Aborted
      BY <2>1, <2>5 DEF Aborted
    <2> QED BY <2>2, <2>3, <2>4, <2>5 DEF Kinds
  <1> QED BY <1>2, <1>3 DEF Partition

\* No row of a submit() call is forgotten: the first conjunct of OneFate.
AllThere == \A n \in 1 .. sent : \E r \in InMemory \cup Settled : r.id = n

LEMMA AllThereKept ==
  ASSUME KInv, Kinds, AllThere
  PROVE  AllThere'
  <1>1. sent \in Nat
    BY DEF KInv, TypeOK
  <1>2. ASSUME NEW row \in Rows, row.id = sent + 1, sent' = sent + 1,
               \/ InMemory' = InMemory \cup {row} /\ Settled' = Settled
               \/ InMemory = {} /\ InMemory' = {} /\ Settled' = Settled \cup {row}
        PROVE  AllThere'
    <2>1. InMemory' \cup Settled' = InMemory \cup Settled \cup {row}
      BY <1>2
    <2>2. \A n \in 1 .. sent' : n = sent + 1 \/ n \in 1 .. sent
      BY <1>1, <1>2
    <2> QED BY <1>2, <2>1, <2>2 DEF AllThere
  <1>3. ASSUME NEW S \in SUBSET InMemory, sent' = sent,
               InMemory' = InMemory \ S, Settled' = Settled \cup S
        PROVE  AllThere'
    <2>1. InMemory' \cup Settled' = InMemory \cup Settled
      BY <1>3
    <2> QED BY <1>3, <2>1 DEF AllThere
  <1> QED BY <1>2, <1>3, Moves
-----------------------------------------------------------------------------
\* The invariants about the order of messages, kept by every action.

BatchSorted == \A i, j \in DOMAIN batch : i < j => batch[i].id < batch[j].id

ChannelSorted ==
  \A i, j \in DOMAIN channel :
    i < j /\ channel[i].type = "Row" /\ channel[j].type = "Row"
      => channel[i].row.id < channel[j].row.id

BatchBeforeChannel == \A r \in InBatch, s \in InChannel : r.id < s.id

\* Channel and batch after a step: a message is appended, or the first one is
\* taken, or all are gone, or the channel stays; the batch is kept, emptied or
\* gets the row of the message taken.
MessageSent ==
  /\ UNCHANGED <<batch, writer>> /\ Open
  /\ \E msg \in Messages :
       /\ channel' = Append(channel, msg)
       /\ \/ msg.type = "Row" /\ msg.row.id = sent + 1 /\ UNCHANGED <<handle, mark>>
          \/ msg.type = "Flush" /\ UNCHANGED <<handle, mark>>
          \/ /\ msg.type = "Shutdown" /\ handle[msg.from] = "held"
             /\ handle' = [handle EXCEPT ![msg.from] = "waiting"]
             /\ mark' = [mark EXCEPT ![msg.from] = sent]

MessageTaken ==
  /\ writer = "running" /\ channel # <<>> /\ channel' = Tail(channel)
  /\ UNCHANGED <<writer, handle, mark>>
  /\ \/ batch' = <<>>
     \/ batch' = batch
     \/ Head(channel).type = "Row" /\ batch' = Append(batch, Head(channel).row)

AllGone == channel' = <<>> /\ batch' = <<>> /\ writer' = "closed" /\ UNCHANGED <<handle, mark>>

ChannelKept ==
  /\ UNCHANGED <<channel, mark>>
  /\ batch' = batch \/ batch' = <<>>
  /\ ~Open' => ~Open
  /\ writer' = "starting" => writer = "starting"
  /\ \A c \in Clients : handle[c] = "waiting" /\ Open => handle'[c] = "waiting"

ChannelSteps == MessageSent \/ MessageTaken \/ AllGone \/ ChannelKept

\* The rest of what the order of messages depends on.
MarksBounded == sent' \in Nat /\ sent <= sent' /\ \A c \in Clients : mark'[c] <= sent'

LEMMA ChannelStep ==
  ASSUME KInv, [Next]_vars
  PROVE  ChannelSteps /\ MarksBounded
  <1> USE DEF KInv
  <1>0. sent \in Nat /\ mark \in [Clients -> Nat] /\ \A c \in Clients : mark[c] <= sent
    BY DEF TypeOK, ShutdownsMarked
  <1>00. sent' = sent /\ mark' = mark => MarksBounded
    BY <1>0 DEF MarksBounded
  <1>1. ASSUME NEW c \in Clients, NEW k \in Keys, NEW d \in Data, Submit(c, k, d)
        PROVE  ChannelSteps /\ MarksBounded
    <2> DEFINE row == [id |-> sent + 1, key |-> k, data |-> d]
    <2> DEFINE msg == [type |-> "Row", row |-> row]
    <2>1. msg \in Messages /\ msg.type = "Row" /\ msg.row.id = sent + 1
      BY <1>0 DEF Rows, Messages
    <2>2. /\ sent' = sent + 1 /\ UNCHANGED <<batch, writer, handle, mark>>
          /\ Send(msg) \/ UNCHANGED channel
      BY <1>1 DEF Submit, handleVars
    <2> HIDE DEF msg
    <2>3. MarksBounded
      BY <1>0, <2>2 DEF MarksBounded
    <2>4. CASE Send(msg)
      BY <2>1, <2>2, <2>3, <2>4 DEF ChannelSteps, MessageSent, Send
    <2>5. CASE UNCHANGED channel
      BY <2>2, <2>3, <2>5 DEF ChannelSteps, ChannelKept, Open
    <2> QED BY <2>2, <2>4, <2>5
  <1>2. ASSUME NEW c \in Clients, Flush(c) PROVE ChannelSteps /\ MarksBounded
    <2>1. [type |-> "Flush"] \in Messages /\ [type |-> "Flush"].type = "Flush"
      BY DEF Messages
    <2>2. /\ UNCHANGED <<batch, writer, handle, mark, sent>>
          /\ Send([type |-> "Flush"]) \/ UNCHANGED channel
      BY <1>2 DEF Flush, handleVars
    <2>3. CASE Send([type |-> "Flush"])
      BY <1>00, <2>1, <2>2, <2>3 DEF ChannelSteps, MessageSent, Send
    <2>4. CASE UNCHANGED channel
      BY <1>00, <2>2, <2>4 DEF ChannelSteps, ChannelKept, Open
    <2> QED BY <2>2, <2>3, <2>4
  <1>3. ASSUME NEW c \in Clients, Shutdown(c) PROVE ChannelSteps /\ MarksBounded
    <2> DEFINE msg == [type |-> "Shutdown", from |-> c]
    <2>1. msg \in Messages /\ msg.type = "Shutdown" /\ msg.from = c
      BY DEF Messages
    <2>2. /\ sent' = sent /\ UNCHANGED <<batch, writer>> /\ handle[c] = "held"
          /\ \/ /\ Send(msg)
                /\ handle' = [handle EXCEPT ![c] = "waiting"]
                /\ mark' = [mark EXCEPT ![c] = sent]
             \/ /\ ~Open
                /\ handle' = [handle EXCEPT ![c] = "refused"]
                /\ UNCHANGED <<channel, mark>>
      BY <1>3 DEF Shutdown
    <2> HIDE DEF msg
    <2>3. CASE /\ Send(msg)
               /\ handle' = [handle EXCEPT ![c] = "waiting"]
               /\ mark' = [mark EXCEPT ![c] = sent]
      <3>1. MarksBounded
        BY <1>0, <2>2, <2>3 DEF MarksBounded
      <3>2. MessageSent
        BY <2>1, <2>2, <2>3 DEF MessageSent, Send
      <3> QED BY <3>1, <3>2 DEF ChannelSteps
    <2>4. CASE /\ ~Open
               /\ handle' = [handle EXCEPT ![c] = "refused"]
               /\ UNCHANGED <<channel, mark>>
      <3>1. ChannelKept
        BY <2>2, <2>4 DEF ChannelKept, Open
      <3> QED BY <1>00, <2>2, <2>4, <3>1 DEF ChannelSteps
    <2> QED BY <2>2, <2>3, <2>4
  <1>4. ASSUME NEW c \in Clients, Await(c) \/ DropHandle(c) PROVE ChannelSteps /\ MarksBounded
    <2>1. /\ UNCHANGED <<channel, batch, writer, sent, mark>>
          /\ \A o \in Clients : handle[o] = "waiting" /\ Open => handle'[o] = "waiting"
      BY <1>4 DEF Await, DropHandle, TypeOK, Open
    <2> QED BY <1>00, <2>1 DEF ChannelSteps, ChannelKept, Open
  <1>5. CASE Prepare
    <2>1. /\ UNCHANGED <<batch, handle, mark, sent>> /\ batch = <<>>
          /\ \/ writer' = "running" /\ UNCHANGED channel
             \/ writer' = "closed" /\ channel' = <<>>
      BY <1>5 DEF Prepare, handleVars, ClosedIsEmpty
    <2> QED BY <1>00, <2>1 DEF ChannelSteps, AllGone, ChannelKept, Open
  <1>6. CASE RecvRow
    <2>1. /\ Receive("Row") /\ channel' = Tail(channel)
          /\ UNCHANGED <<writer, handle, mark, sent>>
          /\ \/ batch' = <<>>
             \/ batch' = Append(batch, Head(channel).row)
      BY <1>6 DEF RecvRow, FlushBatch, handleVars
    <2> QED BY <1>00, <2>1 DEF Receive, ChannelSteps, MessageTaken
  <1>7. CASE RecvFlush
    <2>1. /\ Receive("Flush") /\ channel' = Tail(channel)
          /\ UNCHANGED <<writer, handle, mark, sent>>
          /\ batch' = <<>> \/ batch' = batch
      BY <1>7 DEF RecvFlush, FlushBatch, handleVars
    <2> QED BY <1>00, <2>1 DEF Receive, ChannelSteps, MessageTaken
  <1>8. CASE RecvShutdown \/ Disconnected
    <2>1. AllGone /\ sent' = sent /\ mark' = mark
      BY <1>8 DEF RecvShutdown, Disconnected, Exit, AllGone, handleVars
    <2> QED BY <1>00, <2>1 DEF ChannelSteps
  <1>9. CASE Timeout
    <2>1. /\ UNCHANGED <<channel, writer, handle, mark, sent>>
          /\ batch' = batch \/ batch' = <<>>
      BY <1>9 DEF Timeout, FlushBatch, handleVars
    <2> QED BY <1>00, <2>1 DEF ChannelSteps, ChannelKept, Open
  <1>10. CASE SignalDone \/ DeadlinePasses \/ UNCHANGED vars
    <2>1. /\ UNCHANGED <<channel, batch, handle, mark, sent>>
          /\ writer' = writer \/ (writer = "closed" /\ writer' = "done")
      BY <1>10 DEF SignalDone, DeadlinePasses, vars, handleVars
    <2> QED BY <1>00, <2>1 DEF ChannelSteps, ChannelKept, Open
  <1> QED
    BY <1>1, <1>2, <1>3, <1>4, <1>5, <1>6, <1>7, <1>8, <1>9, <1>10
       DEF Next, WriterThread, Finished

LEMMA TailShifts ==
  ASSUME channel \in Seq(Messages), channel # <<>>, channel' = Tail(channel)
  PROVE  /\ Head(channel) = channel[1] /\ 1 \in DOMAIN channel
         /\ \A i \in DOMAIN channel' : i + 1 \in DOMAIN channel /\ channel'[i] = channel[i + 1]
         /\ \A i \in DOMAIN channel' : 1 < i + 1 /\ i \in Nat
  OBVIOUS

LEMMA AppendExtends ==
  ASSUME channel \in Seq(Messages), NEW msg \in Messages, channel' = Append(channel, msg)
  PROVE  /\ \A i \in DOMAIN channel : channel'[i] = channel[i] /\ i < Len(channel) + 1
         /\ DOMAIN channel' = DOMAIN channel \cup {Len(channel) + 1}
         /\ channel'[Len(channel) + 1] = msg
  OBVIOUS

\* Ids of rows in the channel, by position.
LEMMA ChannelIds ==
  ASSUME KInv
  PROVE  /\ \A i \in DOMAIN channel : channel[i].type = "Row" =>
              channel[i].row \in InChannel /\ channel[i].row.id <= sent
                /\ channel[i].row.id \in Nat
         /\ \A c \in Clients : mark[c] \in Nat /\ mark[c] <= sent
         /\ sent \in Nat
  <1>1. \A i \in DOMAIN channel : channel[i].type = "Row" => channel[i].row \in InChannel
    BY DEF InChannel, RowsIn
  <1>2. InChannel \subseteq Rows
    BY RowsInAreRows DEF KInv, TypeOK, InChannel
  <1> QED BY <1>1, <1>2 DEF KInv, TypeOK, IdsBounded, ShutdownsMarked, InMemory, Rows

LEMMA ChannelSortedKept ==
  ASSUME KInv, ChannelSteps
  PROVE  ChannelSorted'
  <1>1. channel \in Seq(Messages) /\ ChannelSorted
    BY DEF KInv, TypeOK, InOrder, ChannelSorted
  <1>2. CASE MessageSent
    <2>1. PICK msg \in Messages :
            /\ channel' = Append(channel, msg)
            /\ msg.type = "Row" => msg.row.id = sent + 1
      BY <1>2 DEF MessageSent
    <2>2. /\ \A i \in DOMAIN channel : channel'[i] = channel[i] /\ i < Len(channel) + 1
          /\ DOMAIN channel' = DOMAIN channel \cup {Len(channel) + 1}
          /\ channel'[Len(channel) + 1] = msg
      BY <1>1, <2>1, AppendExtends
    <2> SUFFICES ASSUME NEW i \in DOMAIN channel', NEW j \in DOMAIN channel', i < j,
                        channel'[i].type = "Row", channel'[j].type = "Row"
                 PROVE  channel'[i].row.id < channel'[j].row.id
      BY DEF ChannelSorted
    <2>3. i \in DOMAIN channel
      BY <1>1, <2>2
    <2>4. CASE j \in DOMAIN channel
      BY <1>1, <2>2, <2>3, <2>4 DEF ChannelSorted
    <2>5. CASE j = Len(channel) + 1
      BY <2>1, <2>2, <2>3, <2>5, ChannelIds
    <2> QED BY <2>2, <2>4, <2>5
  <1>3. CASE MessageTaken
    BY <1>1, <1>3, TailShifts DEF MessageTaken, ChannelSorted
  <1>4. CASE AllGone
    BY <1>4 DEF AllGone, ChannelSorted
  <1>5. CASE ChannelKept
    BY <1>1, <1>5 DEF ChannelKept, ChannelSorted
  <1> QED BY <1>2, <1>3, <1>4, <1>5 DEF ChannelSteps

LEMMA BatchSortedKept ==
  ASSUME KInv, ChannelSteps
  PROVE  BatchSorted'
  <1>1. BatchSorted
    BY DEF KInv, InOrder, BatchSorted
  <1>2. CASE batch' = batch
    BY <1>1, <1>2 DEF BatchSorted
  <1>3. CASE batch' = <<>>
    BY <1>3 DEF BatchSorted
  <1>4. CASE MessageTaken /\ Head(channel).type = "Row" /\ batch' = Append(batch, Head(channel).row)
    BY <1>4, BatchAndHead DEF MessageTaken, Receive, OldestInMemory, BatchSorted
  <1> QED
    BY <1>2, <1>3, <1>4 DEF ChannelSteps, MessageSent, MessageTaken, AllGone, ChannelKept

LEMMA BatchBeforeChannelKept ==
  ASSUME KInv, ChannelSteps
  PROVE  BatchBeforeChannel'
  <1>1. BatchBeforeChannel /\ channel \in Seq(Messages)
    BY DEF KInv, TypeOK, InOrder, BatchBeforeChannel
  <1>2. CASE MessageSent
    <2>1. PICK msg \in Messages :
            /\ channel' = Append(channel, msg)
            /\ msg.type = "Row" => msg.row.id = sent + 1
            /\ batch' = batch
      BY <1>2 DEF MessageSent
    <2>2. InChannel' = InChannel \cup (IF msg.type = "Row" THEN {msg.row} ELSE {})
      BY <1>1, <2>1, RowsInAppend DEF InChannel
    <2>3. \A r \in InBatch : r.id \in Nat /\ r.id <= sent
      <3>1. InBatch \subseteq Rows
        BY RangeOfRows DEF KInv, TypeOK, InBatch
      <3> QED BY <3>1 DEF KInv, IdsBounded, InMemory, Rows
    <2>4. InBatch' = InBatch /\ sent \in Nat
      BY <2>1 DEF InBatch, KInv, TypeOK
    <2> QED BY <1>1, <2>1, <2>2, <2>3, <2>4 DEF BatchBeforeChannel
  <1>3. CASE MessageTaken
    <2>1. channel # <<>> /\ InChannel' \subseteq InChannel
      BY <1>1, <1>3, RowsInTail DEF MessageTaken, InChannel
    <2>2. CASE batch' = <<>>
      BY <2>2, EmptySets DEF BatchBeforeChannel, InBatch
    <2>3. CASE batch' = batch
      BY <1>1, <2>1, <2>3 DEF BatchBeforeChannel, InBatch
    <2>4. CASE Head(channel).type = "Row" /\ batch' = Append(batch, Head(channel).row)
      <3>1. /\ InBatch' = InBatch \cup {Head(channel).row}
            /\ InChannel' = RowsIn(Tail(channel))
            /\ \A r \in RowsIn(Tail(channel)) : Head(channel).row.id < r.id
        BY <1>3, <2>4, BatchAndHead DEF MessageTaken, Receive, InBatch, InChannel
      <3> QED BY <1>1, <2>1, <3>1 DEF BatchBeforeChannel
    <2> QED BY <1>3, <2>2, <2>3, <2>4 DEF MessageTaken
  <1>4. CASE AllGone
    BY <1>4, EmptySets DEF AllGone, BatchBeforeChannel, InBatch
  <1>5. CASE ChannelKept
    BY <1>1, <1>5, EmptySets DEF ChannelKept, BatchBeforeChannel, InBatch, InChannel
  <1> QED BY <1>2, <1>3, <1>4, <1>5 DEF ChannelSteps

LEMMA ClosedIsEmptyKept ==
  ASSUME KInv, ChannelSteps
  PROVE  ClosedIsEmpty'
  <1>1. ClosedIsEmpty
    BY DEF KInv
  <1>2. CASE MessageSent
    BY <1>1, <1>2 DEF MessageSent, ClosedIsEmpty, Open
  <1>3. CASE MessageTaken
    BY <1>3 DEF MessageTaken, ClosedIsEmpty, Open
  <1>4. CASE AllGone
    BY <1>4 DEF AllGone, ClosedIsEmpty
  <1>5. CASE ChannelKept
    BY <1>1, <1>5 DEF ChannelKept, ClosedIsEmpty
  <1> QED BY <1>2, <1>3, <1>4, <1>5 DEF ChannelSteps

\* A handle in a Shutdown message of the channel goes on waiting.
LEMMA ShutdownsMarkedKept ==
  ASSUME KInv, ChannelSteps, MarksBounded
  PROVE  ShutdownsMarked'
  <1>1. /\ channel \in Seq(Messages) /\ ClosedIsEmpty
        /\ handle \in [Clients -> {"held", "waiting", "returned", "refused", "dropped"}]
        /\ mark \in [Clients -> Nat]
    BY DEF KInv, TypeOK
  <1>2. /\ \A m \in Messages : m.type = "Shutdown" => m.from \in Clients
        /\ \A i \in DOMAIN channel : channel[i] \in Messages /\ i \in Nat
    BY <1>1 DEF Messages
  <1>3. \A i \in DOMAIN channel : channel[i].type = "Shutdown" =>
          /\ channel[i].from \in Clients
          /\ handle[channel[i].from] = "waiting"
          /\ \A j \in DOMAIN channel :
               j > i /\ channel[j].type = "Row" => mark[channel[i].from] < channel[j].row.id
    BY <1>2 DEF KInv, ShutdownsMarked
  <1> SUFFICES ASSUME NEW i \in DOMAIN channel', channel'[i].type = "Shutdown"
               PROVE  /\ handle'[channel'[i].from] = "waiting"
                      /\ \A j \in DOMAIN channel' :
                           j > i /\ channel'[j].type = "Row"
                             => mark'[channel'[i].from] < channel'[j].row.id
    BY DEF ShutdownsMarked, MarksBounded
  <1>4. CASE MessageSent
    <2>1. PICK msg \in Messages :
            /\ channel' = Append(channel, msg)
            /\ \/ msg.type = "Row" /\ msg.row.id = sent + 1 /\ UNCHANGED <<handle, mark>>
               \/ msg.type = "Flush" /\ UNCHANGED <<handle, mark>>
               \/ /\ msg.type = "Shutdown" /\ handle[msg.from] = "held"
                  /\ handle' = [handle EXCEPT ![msg.from] = "waiting"]
                  /\ mark' = [mark EXCEPT ![msg.from] = sent]
      BY <1>4 DEF MessageSent
    <2>2. /\ \A j \in DOMAIN channel : channel'[j] = channel[j] /\ j < Len(channel) + 1
          /\ DOMAIN channel' = DOMAIN channel \cup {Len(channel) + 1}
          /\ channel'[Len(channel) + 1] = msg
      BY <1>1, <2>1, AppendExtends
    <2>3. CASE i \in DOMAIN channel
      <3> DEFINE c == channel[i].from
      <3>1. channel'[i].from = c /\ c \in Clients /\ handle[c] = "waiting"
        BY <1>3, <2>2, <2>3
      <3>2. handle'[c] = "waiting" /\ mark'[c] = mark[c]
        BY <1>1, <2>1, <3>1
      <3>3. ASSUME NEW j \in DOMAIN channel', j > i, channel'[j].type = "Row"
            PROVE  mark[c] < channel'[j].row.id
        <4>1. CASE j \in DOMAIN channel
          BY <1>3, <2>2, <2>3, <3>3, <4>1
        <4>2. CASE j = Len(channel) + 1
          <5>1. channel'[j].row.id = sent + 1
            BY <2>1, <2>2, <3>3, <4>2
          <5> QED BY <3>1, <5>1, ChannelIds
        <4> QED BY <2>2, <4>1, <4>2
      <3> QED BY <3>1, <3>2, <3>3
    <2>4. CASE i = Len(channel) + 1
      <3>1. msg.type = "Shutdown" /\ msg.from \in Clients /\ channel'[i] = msg
        BY <1>2, <2>2, <2>4
      <3>2. handle'[msg.from] = "waiting"
        BY <1>1, <2>1, <3>1
      <3>3. \A j \in DOMAIN channel' : ~(j > i)
        BY <1>1, <2>2, <2>4
      <3> QED BY <3>1, <3>2, <3>3
    <2> QED BY <2>2, <2>3, <2>4
  <1>5. CASE MessageTaken
    <2>1. /\ \A j \in DOMAIN channel' :
               j \in Nat /\ j + 1 \in DOMAIN channel /\ channel'[j] = channel[j + 1]
          /\ UNCHANGED <<handle, mark>>
      BY <1>1, <1>5, TailShifts DEF MessageTaken
    <2>2. \A j \in DOMAIN channel' : j > i => j + 1 > i + 1
      BY <2>1
    <2> QED BY <1>3, <2>1, <2>2
  <1>6. CASE AllGone
    BY <1>6 DEF AllGone
  <1>7. CASE ChannelKept
    <2>1. channel' = channel /\ mark' = mark /\ i \in DOMAIN channel
      BY <1>7 DEF ChannelKept
    <2>2. Open
      BY <1>1, <2>1 DEF ClosedIsEmpty
    <2> QED BY <1>3, <1>7, <2>1, <2>2 DEF ChannelKept
  <1> QED BY <1>4, <1>5, <1>6, <1>7 DEF ChannelSteps

\* Whoever called shutdown() keeps its mark, and the rows an exit drops lie
\* behind the Shutdown message it received.
LEMMA SilentLossKept ==
  ASSUME KInv, SilentLossBehindShutdown, [Next]_vars
  PROVE  SilentLossBehindShutdown'
  <1>1. /\ channel \in Seq(Messages)
        /\ handle \in [Clients -> {"held", "waiting", "returned", "refused", "dropped"}]
        /\ mark \in [Clients -> Nat]
        /\ SilentLossBehindShutdown
    BY DEF KInv, TypeOK
  <1>2. ASSUME UNCHANGED dropped,
               \A c \in Clients : handle[c] \in {"waiting", "returned"} =>
                 handle'[c] \in {"waiting", "returned"} /\ mark'[c] = mark[c]
        PROVE  SilentLossBehindShutdown'
    BY <1>1, <1>2 DEF SilentLossBehindShutdown
  <1>3. ASSUME NEW c \in Clients,
               Shutdown(c) \/ Await(c) \/ DropHandle(c)
        PROVE  SilentLossBehindShutdown'
    <2>1. CASE Shutdown(c)
      BY <1>1, <1>2, <2>1 DEF Shutdown
    <2>2. CASE Await(c)
      BY <1>1, <1>2, <2>2 DEF Await
    <2>3. CASE DropHandle(c)
      BY <1>1, <1>2, <2>3 DEF DropHandle
    <2> QED BY <1>3, <2>1, <2>2, <2>3
  <1>4. CASE RecvShutdown
    <2>1. /\ channel # <<>> /\ Head(channel).type = "Shutdown"
          /\ dropped' = dropped \cup RowsIn(Tail(channel))
          /\ UNCHANGED <<handle, mark>>
      BY <1>4 DEF RecvShutdown, Receive, Exit, handleVars
    <2> DEFINE c == Head(channel).from
    <2>2. /\ Head(channel) = channel[1] /\ 1 \in DOMAIN channel
          /\ \A i \in DOMAIN Tail(channel) :
               i + 1 \in DOMAIN channel /\ Tail(channel)[i] = channel[i + 1] /\ i + 1 > 1
      BY <1>1, <2>1
    <2>3. c \in Clients
      BY <1>1, <2>1, <2>2 DEF Messages
    <2>4. /\ handle[c] = "waiting"
          /\ \A j \in DOMAIN channel :
               j > 1 /\ channel[j].type = "Row" => mark[c] < channel[j].row.id
      BY <2>1, <2>2 DEF KInv, ShutdownsMarked
    <2>5. \A r \in RowsIn(Tail(channel)) : mark[c] < r.id
      BY <2>2, <2>4 DEF RowsIn
    <2> QED BY <1>1, <2>1, <2>3, <2>4, <2>5 DEF SilentLossBehindShutdown
  <1>5. CASE Disconnected
    <2>1. UNCHANGED <<dropped, handle, mark>>
      BY <1>5, EmptySets DEF Disconnected, Exit, handleVars
    <2> QED BY <1>2, <2>1
  <1>6. CASE \/ \E c \in Clients :
                  (\E k \in Keys, d \in Data : Submit(c, k, d)) \/ Flush(c)
             \/ Prepare \/ RecvRow \/ RecvFlush \/ Timeout \/ SignalDone
             \/ DeadlinePasses \/ UNCHANGED vars
    <2>1. UNCHANGED <<dropped, handle, mark>>
      BY <1>6 DEF Submit, Flush, Prepare, RecvRow, RecvFlush, Timeout, SignalDone,
                  DeadlinePasses, vars, handleVars
    <2> QED BY <1>2, <2>1
  <1> QED BY <1>3, <1>4, <1>5, <1>6 DEF Next, WriterThread, Finished

-----------------------------------------------------------------------------
\* The theorems.

LEMMA IInvInit == Init => IInv
  <1> SUFFICES ASSUME Init PROVE IInv
    OBVIOUS
  <1>1. /\ InChannel = {} /\ InBatch = {} /\ InMemory = {} /\ Settled = {} /\ sent = 0
        /\ batch = <<>> /\ channel = <<>> /\ \A c \in Clients : mark[c] = 0
    BY EmptySets DEF Init, InChannel, InBatch, InMemory, Settled
  <1>2. TypeOK
    BY TypeInit
  <1>3. IdsBounded /\ InOrder
    BY <1>1 DEF IdsBounded, InOrder
  <1>4. OneFate /\ Separate /\ FirstRowWins
    BY <1>1 DEF Init, OneFate, Separate, FirstRowWins
  <1>5. ClosedIsEmpty /\ ShutdownsMarked /\ SilentLossBehindShutdown
    BY <1>1 DEF Init, ClosedIsEmpty, ShutdownsMarked, SilentLossBehindShutdown
  <1> QED BY <1>2, <1>3, <1>4, <1>5 DEF IInv, KInv

LEMMA KInvKept ==
  ASSUME KInv, [Next]_vars
  PROVE  KInv'
  <1>1. Kinds
    BY StepKinds
  <1>2. ChannelSteps /\ MarksBounded
    BY ChannelStep
  <1>3. TypeOK'
    BY TypeKept DEF KInv
  <1>4. InOrder'
    <2>1. BatchSorted' /\ ChannelSorted' /\ BatchBeforeChannel' /\ SettledFirst'
      BY <1>1, <1>2, BatchSortedKept, ChannelSortedKept, BatchBeforeChannelKept, OrderKept
    <2> QED BY <2>1 DEF InOrder, BatchSorted, ChannelSorted, BatchBeforeChannel, SettledFirst
  <1>5. Separate'
    <2>1. Partition'
      BY <1>1, PartitionKept
    <2>2. (InChannel \cap InBatch = {})'
      <3>1. InBatch' \subseteq Rows
        BY <1>3, RangeOfRows DEF TypeOK, InBatch
      <3> QED BY <1>4, <3>1 DEF InOrder, Rows
    <2> QED BY <2>1, <2>2 DEF Separate, Partition
  <1>6. IdsBounded' /\ FirstRowWins'
    BY <1>1, OrderKept, FirstRowWinsKept
  <1>7. ClosedIsEmpty' /\ ShutdownsMarked'
    BY <1>2, ClosedIsEmptyKept, ShutdownsMarkedKept
  <1> QED BY <1>3, <1>4, <1>5, <1>6, <1>7 DEF KInv

\* A call of submit() adds its row to the rows that the writer has taken or
\* refused; no other step does.
LEMMA SubmitAddsRow ==
  ASSUME KInv, NEW c \in Clients, NEW k \in Keys, NEW d \in Data, Submit(c, k, d)
  PROVE  LET row == [id |-> sent + 1, key |-> k, data |-> d]
         IN  /\ InMemory' \cup Settled' = InMemory \cup Settled \cup {row}
             /\ InMemory' \subseteq InMemory \cup {row}
  <1> DEFINE row == [id |-> sent + 1, key |-> k, data |-> d]
             msg == [type |-> "Row", row |-> row]
  <1>1. msg \in Messages /\ msg.type = "Row" /\ msg.row = row
    BY DEF KInv, TypeOK, Rows, Messages
  <1>2. /\ UNCHANGED <<batch, table, ignored, dropped>>
        /\ \/ Send(msg) /\ UNCHANGED failed
           \/ failed' = failed \cup {row} /\ UNCHANGED channel
    BY DEF Submit
  <1> HIDE DEF row, msg
  <1>3. CASE Send(msg) /\ UNCHANGED failed
    <2>1. InChannel' = InChannel \cup {row}
      BY <1>1, <1>3, RowsInAppend DEF Send, KInv, TypeOK, InChannel
    <2> QED BY <1>2, <1>3, <2>1 DEF InMemory, InBatch, Settled, row
  <1>4. CASE failed' = failed \cup {row} /\ UNCHANGED channel
    BY <1>2, <1>4 DEF InMemory, InChannel, InBatch, Settled, row
  <1> QED BY <1>2, <1>3, <1>4 DEF row

LEMMA OthersAddNone ==
  ASSUME KInv, [Next]_vars, sent' = sent
  PROVE  InMemory' \cup Settled' = InMemory \cup Settled /\ InMemory' \subseteq InMemory
  <1>1. sent \in Nat
    BY DEF KInv, TypeOK
  <1>2. PICK S \in SUBSET InMemory : InMemory' = InMemory \ S /\ Settled' = Settled \cup S
    BY <1>1, StepKinds, Moves
  <1> QED BY <1>2

\* What INSERT OR IGNORE ignores was in memory just before.
LEMMA IgnoredWereInMemory ==
  ASSUME KInv, [Next]_vars
  PROVE  ignored \subseteq ignored' /\ ignored' \subseteq ignored \cup InMemory
  <1>1. ASSUME NEW rows \in Seq(Rows), OldestInMemory(rows), CommitRows(rows) \/ LoseRows(rows)
        PROVE  ignored \subseteq ignored' /\ ignored' \subseteq ignored \cup InMemory
    BY <1>1 DEF CommitRows, LoseRows, OldestInMemory
  <1>2. CASE Accepted \/ Refused \/ Quiet \/ Aborted
    BY <1>2 DEF Accepted, Refused, Quiet, sinkVars, Aborted
  <1>3. CASE Written \/ Unwritten \/ Closed
    BY <1>1, <1>3 DEF Written, Unwritten, Closed
  <1> QED BY <1>2, <1>3, StepKinds DEF Kinds

\* A writer starts on the table that one that is gone has left.
LEMMA FreshStartKeepsKInv ==
  ASSUME KInv, channel' = <<>>, batch' = <<>>, due' = FALSE, writer' = "starting",
         handle' = [c \in Clients |-> "held"], mark' = [c \in Clients |-> 0],
         UNCHANGED <<fateVars, sent, dropped>>
  PROVE  KInv' /\ InMemory' = {} /\ Settled' = Settled
  <1>1. InChannel' = {} /\ InBatch' = {} /\ InMemory' = {} /\ Settled' = Settled /\ sent' = sent
        /\ \A c \in Clients : mark'[c] = 0
    BY EmptySets DEF InChannel, InBatch, InMemory, Settled, fateVars
  <1>2. TypeOK'
    <2>1. channel' \in Seq(Messages) /\ Len(channel') <= ChannelCapacity /\ batch' \in Seq(Rows)
      BY WriterAssumption
    <2>2. handle' \in [Clients -> {"held", "waiting", "returned", "refused", "dropped"}]
      OBVIOUS
    <2>3. mark' \in [Clients -> Nat]
      OBVIOUS
    <2> QED BY <1>1, <2>1, <2>2, <2>3 DEF KInv, TypeOK
  <1>3. sent \in Nat
    BY DEF KInv, TypeOK
  <1>4. IdsBounded' /\ InOrder' /\ Separate' /\ ClosedIsEmpty'
    BY <1>1 DEF KInv, IdsBounded, InOrder, Separate, ClosedIsEmpty, Open, fateVars
  <1>5. FirstRowWins'
    BY DEF KInv, FirstRowWins, fateVars
  <1>6. ShutdownsMarked'
    BY <1>1, <1>3 DEF ShutdownsMarked
  <1> QED BY <1>1, <1>2, <1>4, <1>5, <1>6 DEF KInv

-----------------------------------------------------------------------------
\* A caller that sends Flush after its rows finds them committed as soon as the
\* channel is empty, unless a BEGIN fails.

FlushBehind ==
  InMemory # {} =>
    \E i \in DOMAIN channel :
      /\ channel[i].type = "Flush"
      /\ \A j \in DOMAIN channel : channel[j].type = "Row" => j < i

LEMMA AppendedFlushIsBehind ==
  ASSUME KInv, NEW c \in Clients, Flush(c)
  PROVE  FlushBehind'
  <1>1. CASE Send([type |-> "Flush"])
    <2>1. [type |-> "Flush"] \in Messages
      BY DEF Messages
    <2>2. channel \in Seq(Messages)
      BY DEF KInv, TypeOK
    <2> DEFINE msg == [type |-> "Flush"]
    <2>3. channel' = Append(channel, msg) /\ msg.type = "Flush" /\ msg.type # "Row"
      BY <1>1 DEF Send
    <2> HIDE DEF msg
    <2>4. /\ DOMAIN channel' = DOMAIN channel \cup {Len(channel) + 1}
          /\ channel'[Len(channel) + 1] = msg
          /\ \A j \in DOMAIN channel' : j # Len(channel) + 1 => j < Len(channel) + 1
      BY <2>2, <2>3
    <2> QED BY <2>3, <2>4 DEF FlushBehind
  <1>2. CASE ~Open /\ UNCHANGED channel
    <2>1. batch' = batch /\ channel = <<>> /\ batch = <<>>
      BY <1>2 DEF Flush, KInv, ClosedIsEmpty
    <2>2. InMemory' = {}
      BY <1>2, <2>1, EmptySets DEF InMemory, InChannel, InBatch
    <2> QED BY <2>2 DEF FlushBehind
  <1> QED BY <1>1, <1>2 DEF Flush

LEMMA FlushStaysBehind ==
  ASSUME KInv, FlushBehind, [Next]_vars, sent' = sent, "begin" \notin Faults
  PROVE  FlushBehind'
  <1>0. channel \in Seq(Messages) /\ batch \in Seq(Rows)
    BY DEF KInv, TypeOK
  <1>1. InMemory' \subseteq InMemory
    BY OthersAddNone
  <1>2. CASE UNCHANGED channel
    BY <1>1, <1>2 DEF FlushBehind
  <1>3. CASE InMemory' = {}
    BY <1>3 DEF FlushBehind
  <1>4. CASE \E c \in Clients : Flush(c)
    BY <1>4, AppendedFlushIsBehind
  <1>5. CASE \E c \in Clients : Send([type |-> "Shutdown", from |-> c])
    <2>1. PICK c \in Clients : Send([type |-> "Shutdown", from |-> c])
      BY <1>5
    <2> DEFINE msg == [type |-> "Shutdown", from |-> c]
    <2>2. channel' = Append(channel, msg) /\ msg \in Messages /\ msg.type # "Row"
      BY <2>1 DEF Send, Messages
    <2> HIDE DEF msg
    <2>3. /\ DOMAIN channel' = DOMAIN channel \cup {Len(channel) + 1}
          /\ channel'[Len(channel) + 1] = msg
          /\ \A j \in DOMAIN channel : channel'[j] = channel[j]
      BY <1>0, <2>2
    <2> QED BY <1>1, <2>2, <2>3 DEF FlushBehind
  <1>6. CASE RecvRow \/ RecvFlush
    <2>1. channel # <<>> /\ channel' = Tail(channel)
      BY <1>6 DEF RecvRow, RecvFlush, Receive
    <2>2. /\ Head(channel) = channel[1] /\ 1 \in DOMAIN channel
          /\ \A i \in DOMAIN channel : i # 1 => i - 1 \in DOMAIN channel' /\ channel'[i - 1] = channel[i]
          /\ \A i \in DOMAIN channel' : i + 1 \in DOMAIN channel /\ channel'[i] = channel[i + 1]
      BY <1>0, <2>1
    <2>3. DOMAIN channel \subseteq Int /\ DOMAIN channel' \subseteq Nat \ {0}
      BY <1>0, <2>1
    <2>4. CASE InMemory # {}
      <3>1. PICK i \in DOMAIN channel :
              /\ channel[i].type = "Flush"
              /\ \A j \in DOMAIN channel : channel[j].type = "Row" => j < i
        BY <2>4 DEF FlushBehind
      <3>2. CASE i # 1
        <4>1. i - 1 \in DOMAIN channel' /\ channel'[i - 1].type = "Flush"
          BY <2>2, <3>1, <3>2
        <4>2. ASSUME NEW j \in DOMAIN channel', channel'[j].type = "Row"
              PROVE  j < i - 1
          <5>1. j + 1 < i
            BY <2>2, <3>1, <4>2
          <5> QED BY <2>3, <5>1
        <4> QED BY <4>1, <4>2 DEF FlushBehind
      <3>3. CASE i = 1
        <4>1. RecvFlush
          BY <1>6, <2>2, <3>1, <3>3 DEF RecvRow, RecvFlush, Receive
        <4>2. batch' = <<>>
          BY <4>1 DEF RecvFlush, FlushBatch
        <4>3. ASSUME NEW j \in DOMAIN channel', channel'[j].type = "Row"
              PROVE  FALSE
          <5>1. j + 1 < 1
            BY <2>2, <3>1, <3>3, <4>3
          <5> QED BY <2>3, <5>1
        <4>4. InMemory' = {}
          BY <4>2, <4>3, EmptySets DEF InMemory, InChannel, InBatch, RowsIn
        <4> QED BY <4>4 DEF FlushBehind
      <3> QED BY <3>2, <3>3
    <2>5. CASE InMemory = {}
      BY <1>1, <2>5 DEF FlushBehind
    <2> QED BY <2>4, <2>5
  <1>7. ASSUME NEW rest, Exit(rest)
        PROVE  InMemory' = {}
    BY <1>7, EmptySets DEF Exit, InMemory, InChannel, InBatch
  <1>8. CASE Prepare
    <2>1. batch' = <<>> /\ (channel' = channel \/ channel' = <<>>)
      BY <1>8 DEF Prepare, KInv, ClosedIsEmpty
    <2> QED BY <1>2, <1>3, <2>1, EmptySets DEF InMemory, InChannel, InBatch
  <1>9. CASE RecvShutdown \/ Disconnected
    BY <1>3, <1>7, <1>9 DEF RecvShutdown, Disconnected
  <1>10. CASE Timeout \/ SignalDone \/ DeadlinePasses \/ UNCHANGED vars \/ Finished
    BY <1>2, <1>10 DEF Timeout, SignalDone, DeadlinePasses, vars, Finished
  <1>11. ASSUME NEW c \in Clients, Shutdown(c) \/ Await(c) \/ DropHandle(c)
         PROVE  UNCHANGED channel \/ Send([type |-> "Shutdown", from |-> c])
    BY <1>11 DEF Shutdown, Await, DropHandle
  <1>12. \A c \in Clients, k \in Keys, d \in Data : ~Submit(c, k, d)
    <2>1. sent \in Nat
      BY DEF KInv, TypeOK
    <2> QED BY <2>1 DEF Submit
  <1> QED BY <1>2, <1>4, <1>5, <1>6, <1>8, <1>9, <1>10, <1>11, <1>12 DEF Next, WriterThread

-----------------------------------------------------------------------------
LEMMA IInvKept ==
  ASSUME IInv, [Next]_vars
  PROVE  IInv'
  <1>1. KInv' /\ SilentLossBehindShutdown'
    BY KInvKept, SilentLossKept DEF IInv
  <1>2. AllThere'
    <2>1. KInv /\ AllThere
      BY DEF IInv, OneFate, AllThere
    <2> QED BY <2>1, StepKinds, AllThereKept
  <1>3. OneFate'
    BY <1>1, <1>2 DEF KInv, Separate, AllThere, OneFate
  <1> QED BY <1>1, <1>3 DEF IInv

\* The inductive invariant holds of every behaviour.
THEOREM Inductive == Spec => []IInv
  <1>1. Init => IInv
    BY IInvInit
  <1>2. IInv /\ [Next]_vars => IInv'
    BY IInvKept
  <1> QED BY <1>1, <1>2, PTL DEF Spec

\* No row is duplicated, and none vanishes without one of its recorded fates.
THEOREM RowsHaveOneFate == Spec => []OneFate
  <1>1. IInv => OneFate
    BY DEF IInv
  <1> QED BY <1>1, Inductive, PTL

\* Rows are settled in the order of the calls of submit().
THEOREM RowsStayInOrder == Spec => []InOrder
  <1>1. IInv => InOrder
    BY DEF IInv, KInv
  <1> QED BY <1>1, Inductive, PTL

\* Of the rows of a primary key the table keeps the one submitted first.
THEOREM FirstRowAlwaysWins == Spec => []FirstRowWins
  <1>1. IInv => FirstRowWins
    BY DEF IInv, KInv
  <1> QED BY <1>1, Inductive, PTL

\* A row that vanishes without a logged error was submitted after a
\* shutdown() of another handle had been queued.
THEOREM NoOtherSilentLoss == Spec => []SilentLossBehindShutdown
  <1>1. IInv => SilentLossBehindShutdown
    BY DEF IInv
  <1> QED BY <1>1, Inductive, PTL

-----------------------------------------------------------------------------
\* Transactions.

Atomic ==
  table' # table => /\ table \subseteq table'
                    /\ InMemory \ InMemory' \subseteq table' \cup ignored' \cup dropped'
                    /\ batch' = <<>>

\* The sets of rows: a step that commits loses no row to an error.
LEMMA CommitLosesNone ==
  ASSUME Kinds, table' # table
  PROVE  /\ table \subseteq table'
         /\ InMemory \ InMemory' \subseteq table' \cup ignored' \cup dropped'
  <1>1. CASE Written \/ Closed
    <2>1. PICK rows \in Seq(Rows) :
            /\ CommitRows(rows) \/ LoseRows(rows)
            /\ \/ InMemory' = InMemory \ Range(rows)
               \/ dropped' = dropped \cup (InMemory \ Range(rows))
      BY <1>1 DEF Written, Closed
    <2>2. CommitRows(rows)
      BY <2>1 DEF LoseRows
    <2> QED BY <2>1, <2>2 DEF CommitRows
  <1>2. Accepted \/ Refused \/ Quiet \/ Unwritten \/ Aborted => table' = table
    BY DEF Accepted, Refused, Quiet, Unwritten, LoseRows, Aborted, sinkVars
  <1> QED BY <1>1, <1>2 DEF Kinds

\* The batch: no action writes to the table and keeps rows in hand.
LEMMA CommitEmptiesBatch ==
  ASSUME [Next]_vars, table' # table
  PROVE  batch' = <<>>
  <1>1. ASSUME NEW rows, FlushBatch(rows)
        PROVE  batch' = <<>> \/ UNCHANGED table
    BY <1>1 DEF FlushBatch, fateVars
  <1>2. CASE RecvRow \/ RecvFlush \/ Timeout
    BY <1>1, <1>2 DEF RecvRow, RecvFlush, Timeout, fateVars
  <1>3. CASE RecvShutdown \/ Disconnected
    BY <1>3 DEF RecvShutdown, Disconnected, Exit
  <1>4. CASE \/ \E c \in Clients :
                  \/ \E k \in Keys, d \in Data : Submit(c, k, d)
                  \/ Flush(c) \/ Shutdown(c) \/ Await(c) \/ DropHandle(c)
             \/ Prepare \/ SignalDone \/ DeadlinePasses \/ UNCHANGED vars
    BY <1>4 DEF Submit, Flush, Shutdown, Await, DropHandle, Prepare, SignalDone,
                DeadlinePasses, vars, fateVars
  <1> QED BY <1>2, <1>3, <1>4 DEF Next, WriterThread, Finished

\* The table grows in steps that empty the batch and fail none of its rows,
\* and never shrinks.
THEOREM CommitsAreAtomic == Spec => AtomicCommit
  <1>1. IInv /\ [Next]_vars => [Atomic]_vars
    BY StepKinds, CommitLosesNone, CommitEmptiesBatch DEF IInv, Atomic
  <1> QED BY <1>1, Inductive, PTL DEF Spec, AtomicCommit, Atomic

-----------------------------------------------------------------------------
\* The writer implements RowSink, with the rows of channel and batch as the
\* rows the sink has taken.

LEMMA WinnersAreInserted ==
  ASSUME NEW rows \in Seq(Rows),
         \A i, j \in DOMAIN rows : i < j => rows[i].id < rows[j].id
  PROVE  Sink!Winners(Range(rows)) = Inserted(rows)
  <1>1. \A i \in DOMAIN rows : i \in Nat /\ rows[i].id \in Nat /\ \A h \in DOMAIN rows :
          h \in 1 .. (i - 1) \/ h = i \/ i < h
    <2>1. \A i \in DOMAIN rows : rows[i] \in Rows
      OBVIOUS
    <2>2. DOMAIN rows = 1 .. Len(rows) /\ Len(rows) \in Nat
      OBVIOUS
    <2>3. \A i \in DOMAIN rows : rows[i].id \in Nat
      BY <2>1 DEF Rows
    <2> QED BY <2>2, <2>3
  <1>2. \A i \in DOMAIN rows : 1 .. (i - 1) \subseteq {h \in DOMAIN rows : h < i}
    OBVIOUS
  <1>3. ASSUME NEW r \in Inserted(rows) PROVE r \in Sink!Winners(Range(rows))
    <2>1. PICK i \in DOMAIN rows :
            /\ r = rows[i]
            /\ \A t \in table : t.key # rows[i].key
            /\ \A h \in 1 .. (i - 1) : rows[h].key # rows[i].key
      BY <1>3 DEF Inserted
    <2>2. ASSUME NEW h \in DOMAIN rows, rows[h].key = r.key PROVE r.id <= rows[h].id
      BY <1>1, <2>1, <2>2
    <2> QED BY <2>1, <2>2 DEF Sink!Winners, Range
  <1>4. ASSUME NEW r \in Sink!Winners(Range(rows)) PROVE r \in Inserted(rows)
    <2>1. PICK i \in DOMAIN rows : r = rows[i]
      BY <1>4 DEF Sink!Winners, Range
    <2>2. \A t \in table : t.key # rows[i].key
      BY <1>4, <2>1 DEF Sink!Winners
    <2>3. ASSUME NEW h \in 1 .. (i - 1), rows[h].key = rows[i].key PROVE FALSE
      <3>1. h \in DOMAIN rows /\ h < i
        BY <1>2, <2>3
      <3>2. r.id <= rows[h].id
        BY <1>4, <2>1, <2>3, <3>1 DEF Sink!Winners, Range
      <3> QED BY <1>1, <2>1, <3>1, <3>2
    <2> QED BY <2>1, <2>2, <2>3 DEF Inserted
  <1> QED BY <1>3, <1>4

LEMMA StepImplementsSink ==
  ASSUME KInv, Kinds
  PROVE  [Sink!Next]_(Sink!vars)
  <1>1. \A rows \in Seq(Rows) : OldestInMemory(rows) =>
          /\ Range(rows) \in SUBSET InMemory
          /\ Sink!Oldest(Range(rows))
          /\ Sink!Winners(Range(rows)) = Inserted(rows)
    BY WinnersAreInserted DEF OldestInMemory, Sink!Oldest
  <1>2. CASE Accepted
    <2>1. PICK row \in Rows :
            /\ Open /\ Open' /\ row.id = sent + 1 /\ sent' = sent + 1
            /\ InMemory' = InMemory \cup {row} /\ table' = table
      BY <1>2 DEF Accepted
    <2>2. row = [id |-> sent + 1, key |-> row.key, data |-> row.data]
          /\ row.key \in Keys /\ row.data \in Data
      BY <2>1 DEF Rows
    <2>3. Sink!Accept
      BY <2>1, <2>2 DEF Sink!Accept
    <2> QED BY <2>2, <2>3 DEF Sink!Next, Sink!Running
  <1>3. CASE Refused
    <2>1. Open' = Open
      BY <1>3 DEF Refused, Open
    <2> QED BY <1>3, <2>1 DEF Refused, Sink!Refuse, Sink!Next, Sink!Running
  <1>4. CASE Quiet
    BY <1>4 DEF Quiet, sinkVars, Sink!vars
  <1>5. CASE Written
    <2>1. PICK rows \in Seq(Rows) :
            /\ OldestInMemory(rows) /\ CommitRows(rows)
            /\ InMemory' = InMemory \ Range(rows)
            /\ UNCHANGED <<sent, Open>>
      BY <1>5 DEF Written
    <2>2. Sink!Commit(Range(rows))
      BY <1>1, <2>1 DEF Sink!Commit, CommitRows
    <2> QED BY <1>1, <2>1, <2>2 DEF Sink!Next, Sink!Running
  <1>6. CASE Unwritten
    <2>1. PICK rows \in Seq(Rows) :
            /\ OldestInMemory(rows) /\ LoseRows(rows)
            /\ InMemory' = InMemory \ Range(rows)
            /\ UNCHANGED <<sent, Open>>
      BY <1>6 DEF Unwritten
    <2>2. Sink!Fail(Range(rows))
      BY <2>1 DEF Sink!Fail, LoseRows
    <2> QED BY <1>1, <2>1, <2>2 DEF Sink!Next, Sink!Running
  <1>7. ASSUME Open, ~Open', InMemory' = {}, table' = table, sent' = sent
        PROVE  Sink!Next
    <2>1. {} \in SUBSET InMemory /\ Sink!Oldest({})
      <3>1. InMemory \subseteq Rows
        BY RowsInAreRows, RangeOfRows DEF KInv, TypeOK, InMemory, InChannel, InBatch
      <3> QED BY <3>1 DEF Sink!Oldest
    <2>2. Sink!Close({})
      BY <1>7 DEF Sink!Close, Sink!Winners
    <2> QED BY <2>1, <2>2 DEF Sink!Next, Sink!Running
  <1>8. CASE Closed
    <2>1. PICK rows \in Seq(Rows) :
            /\ Open /\ ~Open' /\ OldestInMemory(rows)
            /\ CommitRows(rows) \/ LoseRows(rows)
            /\ InMemory' = {} /\ sent' = sent
      BY <1>8 DEF Closed
    <2>2. CASE CommitRows(rows)
      <3>1. Sink!Close(Range(rows))
        BY <1>1, <2>1, <2>2 DEF Sink!Close, CommitRows
      <3> QED BY <1>1, <2>1, <3>1 DEF Sink!Next, Sink!Running
    <2>3. CASE LoseRows(rows)
      BY <1>7, <2>1, <2>3 DEF LoseRows
    <2> QED BY <2>1, <2>2, <2>3
  <1>9. CASE Aborted
    BY <1>7, <1>9 DEF Aborted
  <1> QED BY <1>2, <1>3, <1>4, <1>5, <1>6, <1>8, <1>9 DEF Kinds

\* Seen from its clients, the writer with its channel, batches and thread
\* behaves like the abstract sink.
THEOREM WriterImplementsSink == Spec => SinkSpec
  <1>1. Init => Sink!Init
    BY EmptySets DEF Init, Sink!Init, InMemory, InChannel, InBatch, Open
  <1>2. IInv /\ [Next]_vars => [Sink!Next]_(Sink!vars)
    BY StepKinds, StepImplementsSink DEF IInv
  <1> QED BY <1>1, <1>2, Inductive, PTL DEF Spec, SinkSpec, Sink!Spec

=============================================================================
