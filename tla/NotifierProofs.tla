--------------------------- MODULE NotifierProofs ---------------------------
(***************************************************************************)
(* What holds of the notification engine for every number of passes, rows, *)
(* devices, reminders and faults.                                          *)
(***************************************************************************)
EXTENDS Notifier, TLAPS, WellFoundedInduction

-----------------------------------------------------------------------------
(* The outbox's statements: what each of them preserves, and that the      *)
(* drain's "first" row exists.                                             *)

(* A nonempty set of naturals has a least element. *)
LEMMA LeastNatural ==
    ASSUME NEW S \in SUBSET Nat, S # {}
    PROVE  \E m \in S : \A n \in S : m <= n
<1>1. \E m \in S : \A n \in S : ~ (<<n, m>> \in OpToRel(<, Nat))
  BY NatLessThanWellFounded, WFMin
<1>2. PICK m \in S : \A n \in S : ~ (<<n, m>> \in OpToRel(<, Nat))
  BY <1>1
<1>3. \A n \in S : <<n, m>> \in Nat \X Nat
  OBVIOUS
<1>4. \A n \in S : ~ (n < m)
  BY <1>2, <1>3 DEF OpToRel
<1> QED BY <1>4

(* A batch that still holds a row has a first one, so the row the drain    *)
(* works on is always a row it read.                                       *)
LEMMA FirstExists ==
    ASSUME NEW copies \in SUBSET Copy, copies # {}
    PROVE  First(copies) \in copies
<1> DEFINE dues == {c.row.due : c \in copies}
<1>1. dues \in SUBSET Nat /\ dues # {}
  BY DEF Copy, Row
<1>2. PICK d \in dues : \A e \in dues : d <= e
  BY <1>1, LeastNatural
<1> DEFINE earliest == {c \in copies : c.row.due = d}
           ids == {c.id : c \in earliest}
<1>3. ids \in SUBSET Nat /\ ids # {}
  <2>1. \A c \in earliest : c.id \in Nat
    BY OutboxConstants DEF Copy
  <2>2. earliest # {}
    BY <1>2
  <2> QED BY <2>1, <2>2
<1>4. PICK i \in ids : \A j \in ids : i <= j
  <2> HIDE DEF ids
  <2> QED BY <1>3, LeastNatural
<1>5. PICK c \in copies : c.row.due = d /\ c.id = i
  BY <1>4
<1>6. ASSUME NEW b \in copies PROVE ~Earlier(b, c)
  <2>1. b.row.due \in Nat /\ c.row.due \in Nat /\ b.id \in Nat /\ c.id \in Nat
    BY OutboxConstants DEF Copy, Row
  <2>2. c.row.due <= b.row.due
    BY <1>2, <1>5
  <2>3. b.row.due = d => c.id <= b.id
    BY <1>4, <1>5
  <2> QED BY <1>5, <2>1, <2>2, <2>3 DEF Earlier
<1>7. \E a \in copies : \A b \in copies : ~Earlier(b, a)
  BY <1>6
<1> QED BY <1>7 DEF First

(* Every statement that writes keeps the table a table. *)
LEMMA NewRowType == ASSUME NEW key \in Key PROVE NewRow(key) \in Row
BY DEF Key, NewRow, Row, Reason

LEMMA EnqueueType ==
    ASSUME NEW table, IsTable(table), NEW key \in Key, NEW after,
           EnqueueNotification(table, key, after)
    PROVE  IsTable(after)
<1>1. CASE key \in Keys(table)
  BY <1>1 DEF EnqueueNotification
<1>2. CASE key \notin Keys(table)
  <2>1. PICK n \in RowIds :
            after = [i \in DOMAIN table \cup {n} |->
                        IF i = n THEN NewRow(key) ELSE table[i]]
    BY <1>2 DEF EnqueueNotification, Insert
  <2>2. \A i \in DOMAIN table : table[i] \in Row
    BY DEF IsTable
  <2>3. \A i \in DOMAIN after : after[i] \in Row
    BY <2>1, <2>2, NewRowType
  <2>4. DOMAIN after \subseteq RowIds
    BY <2>1 DEF IsTable
  <2> QED BY <2>1, <2>3, <2>4 DEF IsTable
<1> QED BY <1>1, <1>2

LEMMA WithoutType ==
    ASSUME NEW table, IsTable(table), NEW ids
    PROVE  IsTable(Without(table, ids))
BY DEF IsTable, Without

LEMMA DeleteType ==
    ASSUME NEW table, IsTable(table), NEW id, NEW src
    PROVE  /\ IsTable(DeleteQueued(table, id))
           /\ IsTable(DeleteUnsentBySource(table, src))
BY WithoutType DEF DeleteQueued, DeleteUnsentBySource

LEMMA UpdateType ==
    ASSUME NEW table, IsTable(table), NEW id, NEW row,
           id \in DOMAIN table => row \in Row
    PROVE  IsTable(Update(table, id, row))
BY DEF IsTable, Update

LEMMA MarkedRowType ==
    ASSUME NEW row \in Row, NEW t \in Nat, NEW why \in Reason
    PROVE  /\ [row EXCEPT !.touched = t, !.tries = @ + 1] \in Row
           /\ [row EXCEPT !.sent = TRUE] \in Row
           /\ [row EXCEPT !.mailed = TRUE] \in Row
           /\ [row EXCEPT !.skipped = why, !.touched = t] \in Row
<1>1. [row EXCEPT !.touched = t, !.tries = @ + 1] \in Row
  <2> DEFINE tries == row.tries + 1
  <2>1. tries \in Nat
    BY DEF Row
  <2>2. [row EXCEPT !.touched = t, !.tries = tries] \in Row
    <3> HIDE DEF tries
    <3> QED BY <2>1 DEF Row
  <2> QED BY <2>2
<1>2. [row EXCEPT !.sent = TRUE] \in Row
  BY DEF Row
<1>3. [row EXCEPT !.mailed = TRUE] \in Row
  BY DEF Row
<1>4. [row EXCEPT !.skipped = why, !.touched = t] \in Row
  BY DEF Row
<1> QED BY <1>1, <1>2, <1>3, <1>4

LEMMA MarkType ==
    ASSUME NEW table, IsTable(table), NEW id, NEW t \in Nat, NEW why \in Reason
    PROVE  /\ IsTable(MarkSending(table, id, t))
           /\ IsTable(MarkSent(table, id))
           /\ IsTable(MarkEmailSent(table, id))
           /\ IsTable(MarkSkipped(table, id, why, t))
<1>1. id \in DOMAIN table => table[id] \in Row
  BY DEF IsTable
<1> QED BY <1>1, MarkedRowType, UpdateType
       DEF MarkSending, MarkSent, MarkEmailSent, MarkSkipped


(* Every statement that writes leaves what was sent on record: an insertion *)
(* takes a number no row has, a deletion and a prune pass over it, and an   *)
(* update never turns sent_at back.                                         *)
LEMMA StatementsKeepSent ==
    ASSUME NEW table, IsTable(table), NEW id, NEW t, NEW why, NEW src
    PROVE  /\ KeepsSent(table, MarkSending(table, id, t))
           /\ KeepsSent(table, MarkSent(table, id))
           /\ KeepsSent(table, MarkEmailSent(table, id))
           /\ KeepsSent(table, MarkSkipped(table, id, why, t))
           /\ KeepsSent(table, DeleteQueued(table, id))
           /\ KeepsSent(table, DeleteUnsentBySource(table, src))
<1>1. \A i \in DOMAIN table : table[i] \in Row
  BY DEF IsTable
<1>2. ASSUME NEW row,
             id \in DOMAIN table =>
                (table[id].sent => row.sent) /\ KeyOf(row) = KeyOf(table[id])
      PROVE  KeepsSent(table, Update(table, id, row))
  BY <1>1, <1>2 DEF KeepsSent, Update, IsTable
<1>3. KeepsSent(table, MarkSending(table, id, t))
  <2> DEFINE row == [table[id] EXCEPT !.touched = t, !.tries = @ + 1]
  <2>1. id \in DOMAIN table =>
          (table[id].sent => row.sent) /\ KeyOf(row) = KeyOf(table[id])
    BY <1>1 DEF Row, KeyOf
  <2> HIDE DEF row
  <2>2. KeepsSent(table, Update(table, id, row))
    BY <1>2, <2>1
  <2> QED BY <2>2 DEF MarkSending, row
<1>4. KeepsSent(table, MarkSent(table, id))
  <2> DEFINE row == [table[id] EXCEPT !.sent = TRUE]
  <2>1. id \in DOMAIN table =>
          (table[id].sent => row.sent) /\ KeyOf(row) = KeyOf(table[id])
    BY <1>1 DEF Row, KeyOf
  <2> HIDE DEF row
  <2>2. KeepsSent(table, Update(table, id, row))
    BY <1>2, <2>1
  <2> QED BY <2>2 DEF MarkSent, row
<1>5. KeepsSent(table, MarkEmailSent(table, id))
  <2> DEFINE row == [table[id] EXCEPT !.mailed = TRUE]
  <2>1. id \in DOMAIN table =>
          (table[id].sent => row.sent) /\ KeyOf(row) = KeyOf(table[id])
    BY <1>1 DEF Row, KeyOf
  <2> HIDE DEF row
  <2>2. KeepsSent(table, Update(table, id, row))
    BY <1>2, <2>1
  <2> QED BY <2>2 DEF MarkEmailSent, row
<1>6. KeepsSent(table, MarkSkipped(table, id, why, t))
  <2> DEFINE row == [table[id] EXCEPT !.skipped = why, !.touched = t]
  <2>1. id \in DOMAIN table =>
          (table[id].sent => row.sent) /\ KeyOf(row) = KeyOf(table[id])
    BY <1>1 DEF Row, KeyOf
  <2> HIDE DEF row
  <2>2. KeepsSent(table, Update(table, id, row))
    BY <1>2, <2>1
  <2> QED BY <2>2 DEF MarkSkipped, row
<1>7. KeepsSent(table, DeleteQueued(table, id))
  BY DEF KeepsSent, DeleteQueued, Without
<1>8. KeepsSent(table, DeleteUnsentBySource(table, src))
  BY DEF KeepsSent, DeleteUnsentBySource, Without, LiveIds, Retired
<1> QED BY <1>3, <1>4, <1>5, <1>6, <1>7, <1>8

LEMMA EnqueueKeepsSent ==
    ASSUME NEW table, IsTable(table), NEW key, NEW after,
           EnqueueNotification(table, key, after)
    PROVE  KeepsSent(table, after)
<1>1. CASE key \in Keys(table)
  BY <1>1 DEF EnqueueNotification, KeepsSent
<1>2. CASE key \notin Keys(table)
  <2>1. PICK n \in RowIds :
            /\ IsNextId(table, n)
            /\ after = [i \in DOMAIN table \cup {n} |->
                           IF i = n THEN NewRow(key) ELSE table[i]]
    BY <1>2 DEF EnqueueNotification, Insert
  <2>2. n \notin DOMAIN table
    BY <2>1, OutboxConstants DEF IsNextId, IsTable
  <2> QED BY <2>1, <2>2 DEF KeepsSent
<1> QED BY <1>1, <1>2

-----------------------------------------------------------------------------
(* What the statements do to what is filed, skipped, sent and mailed. *)

(* From one table to the next no row changes what it is about, and none    *)
(* becomes live.                                                           *)
Settles(before, after) ==
    /\ DOMAIN after = DOMAIN before
    /\ \A i \in DOMAIN before :
          /\ after[i].src = before[i].src
          /\ after[i].due = before[i].due
          /\ Retired(before[i]) => Retired(after[i])

(* The statements of a delivery. *)
LEMMA StatementsSettle ==
    ASSUME NEW table, IsTable(table), NEW id, NEW t, NEW why \in {"stale", "empty"}
    PROVE  /\ Settles(table, table)
           /\ Settles(table, MarkSending(table, id, t))
           /\ Settles(table, MarkSent(table, id))
           /\ Settles(table, MarkEmailSent(table, id))
           /\ Settles(table, MarkSkipped(table, id, why, t))
<1>1. \A i \in DOMAIN table : table[i] \in Row
  BY DEF IsTable
<1>2. Settles(table, table)
  BY DEF Settles
<1>3. ASSUME NEW row,
             id \in DOMAIN table =>
                /\ row.src = table[id].src /\ row.due = table[id].due
                /\ Retired(table[id]) => Retired(row)
      PROVE  Settles(table, Update(table, id, row))
  BY <1>3 DEF Settles, Update
<1>4. Settles(table, MarkSending(table, id, t))
  <2> DEFINE row == [table[id] EXCEPT !.touched = t, !.tries = @ + 1]
  <2>1. id \in DOMAIN table =>
                /\ row.src = table[id].src /\ row.due = table[id].due
                /\ Retired(table[id]) => Retired(row)
    BY <1>1 DEF Row, Retired
  <2> HIDE DEF row
  <2>2. Settles(table, Update(table, id, row))
    BY <1>3, <2>1
  <2> QED BY <2>2 DEF MarkSending, row
<1>5. Settles(table, MarkSent(table, id))
  <2> DEFINE row == [table[id] EXCEPT !.sent = TRUE]
  <2>1. id \in DOMAIN table =>
                /\ row.src = table[id].src /\ row.due = table[id].due
                /\ Retired(table[id]) => Retired(row)
    BY <1>1 DEF Row, Retired
  <2> HIDE DEF row
  <2>2. Settles(table, Update(table, id, row))
    BY <1>3, <2>1
  <2> QED BY <2>2 DEF MarkSent, row
<1>6. Settles(table, MarkEmailSent(table, id))
  <2> DEFINE row == [table[id] EXCEPT !.mailed = TRUE]
  <2>1. id \in DOMAIN table =>
                /\ row.src = table[id].src /\ row.due = table[id].due
                /\ Retired(table[id]) => Retired(row)
    BY <1>1 DEF Row, Retired
  <2> HIDE DEF row
  <2>2. Settles(table, Update(table, id, row))
    BY <1>3, <2>1
  <2> QED BY <2>2 DEF MarkEmailSent, row
<1>7. Settles(table, MarkSkipped(table, id, why, t))
  <2> DEFINE row == [table[id] EXCEPT !.skipped = why, !.touched = t]
  <2>1. id \in DOMAIN table =>
                /\ row.src = table[id].src /\ row.due = table[id].due
                /\ Retired(table[id]) => Retired(row)
    BY <1>1 DEF Row, Retired
  <2> HIDE DEF row
  <2>2. Settles(table, Update(table, id, row))
    BY <1>3, <2>1
  <2> QED BY <2>2 DEF MarkSkipped, row
<1> QED BY <1>2, <1>4, <1>5, <1>6, <1>7

(* Staleness is final: it depends on what a row is about and on the clock. *)
LEMMA StaleStays ==
    ASSUME NEW a \in Row, NEW b \in Row, a.src = b.src, a.due = b.due,
           NEW t \in Nat, NEW u \in Nat, t <= u, Stale(a, t)
    PROVE  Stale(b, u)
<1>1. a.due \in Nat /\ a.src \in Sources
  BY DEF Row
<1>2. CASE a.src \in Digests
  BY <1>1, <1>2, OutboxConstants DEF Stale
<1>3. CASE a.src \notin Digests
  <2>1. Lead[a.src] \in Nat
    BY <1>1, <1>3, OutboxConstants DEF Sources
  <2> QED BY <1>1, <1>3, <2>1, OutboxConstants DEF Stale, EventStillAhead
<1> QED BY <1>2, <1>3

(* Enqueueing adds one key at most, and takes none. *)
LEMMA EnqueueFiles ==
    ASSUME NEW table, IsTable(table), NEW key \in Key, NEW after,
           EnqueueNotification(table, key, after)
    PROVE  /\ Keys(after) = Keys(table) \cup {key}
           /\ \A i \in DOMAIN table : i \in DOMAIN after /\ after[i] = table[i]
<1>1. CASE key \in Keys(table)
  BY <1>1 DEF EnqueueNotification
<1>2. CASE key \notin Keys(table)
  <2>1. PICK n \in RowIds :
            /\ IsNextId(table, n)
            /\ after = [i \in DOMAIN table \cup {n} |->
                           IF i = n THEN NewRow(key) ELSE table[i]]
    BY <1>2 DEF EnqueueNotification, Insert
  <2>2. n \notin DOMAIN table
    BY <2>1, OutboxConstants DEF IsNextId, IsTable
  <2>3. KeyOf(NewRow(key)) = key
    BY DEF NewRow, KeyOf, Key
  <2>4. /\ DOMAIN after = DOMAIN table \cup {n}
        /\ after[n] = NewRow(key)
        /\ \A i \in DOMAIN table : after[i] = table[i]
    BY <2>1, <2>2
  <2> QED BY <2>3, <2>4 DEF Keys
<1> QED BY <1>1, <1>2

FiledKeys(table)   == {KeyOf(table[i]) : i \in LiveIds(table)}
SkippedKeys(table) == {KeyOf(table[i]) : i \in {i \in DOMAIN table : table[i].skipped # "no"}}
SentKeys(table)    == {KeyOf(table[i]) : i \in {i \in DOMAIN table : table[i].sent}}

(* UNIQUE(user_id, kind, source_ref, due_at) *)
KeysOnce(table) ==
    \A i \in DOMAIN table, j \in DOMAIN table : KeyOf(table[i]) = KeyOf(table[j]) => i = j

(* A statement that answers for no row but id. *)
Answers(before, after, id) ==
    /\ DOMAIN after = DOMAIN before
    /\ \A i \in DOMAIN before :
          /\ KeyOf(after[i]) = KeyOf(before[i])
          /\ i # id => /\ after[i].sent = before[i].sent
                       /\ after[i].skipped = before[i].skipped

LEMMA StatementsAnswer ==
    ASSUME NEW table, IsTable(table), NEW id, NEW t, NEW why \in {"stale", "empty"}
    PROVE  /\ Answers(table, table, 0)
           /\ Answers(table, MarkSending(table, id, t), 0)
           /\ Answers(table, MarkEmailSent(table, id), 0)
           /\ Answers(table, MarkSent(table, id), id)
           /\ id \in DOMAIN table =>
                 /\ MarkSent(table, id)[id].sent
                 /\ MarkSent(table, id)[id].skipped = table[id].skipped
           /\ Answers(table, MarkSkipped(table, id, why, t), id)
           /\ id \in DOMAIN table =>
                 /\ MarkSkipped(table, id, why, t)[id].skipped = why
                 /\ MarkSkipped(table, id, why, t)[id].sent = table[id].sent
<1>1. \A i \in DOMAIN table : table[i] \in Row
  BY DEF IsTable
<1>2. Answers(table, table, 0)
  BY DEF Answers
<1>3. ASSUME NEW row, id \in DOMAIN table => KeyOf(row) = KeyOf(table[id])
      PROVE  /\ Answers(table, Update(table, id, row), id)
             /\ id \in DOMAIN table => Update(table, id, row)[id] = row
             /\ (id \in DOMAIN table =>
                    row.sent = table[id].sent /\ row.skipped = table[id].skipped)
                => Answers(table, Update(table, id, row), 0)
  BY <1>3 DEF Answers, Update
<1>4. Answers(table, MarkSending(table, id, t), 0)
  <2> DEFINE row == [table[id] EXCEPT !.touched = t, !.tries = @ + 1]
  <2>1. id \in DOMAIN table =>
           /\ KeyOf(row) = KeyOf(table[id])
           /\ row.sent = table[id].sent /\ row.skipped = table[id].skipped
    BY <1>1 DEF Row, KeyOf
  <2> HIDE DEF row
  <2>2. Answers(table, Update(table, id, row), 0)
    BY <1>3, <2>1
  <2> QED BY <2>2 DEF MarkSending, row
<1>5. Answers(table, MarkEmailSent(table, id), 0)
  <2> DEFINE row == [table[id] EXCEPT !.mailed = TRUE]
  <2>1. id \in DOMAIN table =>
           /\ KeyOf(row) = KeyOf(table[id])
           /\ row.sent = table[id].sent /\ row.skipped = table[id].skipped
    BY <1>1 DEF Row, KeyOf
  <2> HIDE DEF row
  <2>2. Answers(table, Update(table, id, row), 0)
    BY <1>3, <2>1
  <2> QED BY <2>2 DEF MarkEmailSent, row
<1>6. /\ Answers(table, MarkSent(table, id), id)
      /\ id \in DOMAIN table =>
            /\ MarkSent(table, id)[id].sent
            /\ MarkSent(table, id)[id].skipped = table[id].skipped
  <2> DEFINE row == [table[id] EXCEPT !.sent = TRUE]
  <2>1. id \in DOMAIN table =>
           /\ KeyOf(row) = KeyOf(table[id])
           /\ row.sent /\ row.skipped = table[id].skipped
    BY <1>1 DEF Row, KeyOf
  <2> HIDE DEF row
  <2>2. /\ Answers(table, Update(table, id, row), id)
        /\ id \in DOMAIN table => Update(table, id, row)[id] = row
    BY <1>3, <2>1
  <2> QED BY <2>1, <2>2 DEF MarkSent, row
<1>7. /\ Answers(table, MarkSkipped(table, id, why, t), id)
      /\ id \in DOMAIN table =>
            /\ MarkSkipped(table, id, why, t)[id].skipped = why
            /\ MarkSkipped(table, id, why, t)[id].sent = table[id].sent
  <2> DEFINE row == [table[id] EXCEPT !.skipped = why, !.touched = t]
  <2>1. id \in DOMAIN table =>
           /\ KeyOf(row) = KeyOf(table[id])
           /\ row.skipped = why /\ row.sent = table[id].sent
    BY <1>1 DEF Row, KeyOf
  <2> HIDE DEF row
  <2>2. /\ Answers(table, Update(table, id, row), id)
        /\ id \in DOMAIN table => Update(table, id, row)[id] = row
    BY <1>3, <2>1
  <2> QED BY <2>1, <2>2 DEF MarkSkipped, row
<1> QED BY <1>2, <1>4, <1>5, <1>6, <1>7

(* What each kind of statement does to what is filed, skipped and sent. *)
LEMMA AnswerSets ==
    ASSUME NEW table, IsTable(table), KeysOnce(table), NEW id, NEW after,
           Answers(table, after, id), IsTable(after)
    PROVE  /\ id \notin DOMAIN table =>
                 /\ FiledKeys(after) = FiledKeys(table)
                 /\ SkippedKeys(after) = SkippedKeys(table)
                 /\ SentKeys(after) = SentKeys(table)
           /\ /\ id \in LiveIds(table)
              /\ after[id].skipped # "no" /\ after[id].sent = table[id].sent
              => /\ FiledKeys(after) = FiledKeys(table) \ {KeyOf(table[id])}
                 /\ SkippedKeys(after) = SkippedKeys(table) \cup {KeyOf(table[id])}
                 /\ SentKeys(after) = SentKeys(table)
           /\ /\ id \in LiveIds(table)
              /\ after[id].sent /\ after[id].skipped = table[id].skipped
              => /\ FiledKeys(after) = FiledKeys(table) \ {KeyOf(table[id])}
                 /\ SkippedKeys(after) = SkippedKeys(table)
                 /\ SentKeys(after) = SentKeys(table) \cup {KeyOf(table[id])}
<1>1. CASE id \notin DOMAIN table
  <2>1. \A i \in DOMAIN table :
           /\ KeyOf(after[i]) = KeyOf(table[i])
           /\ after[i].sent = table[i].sent /\ after[i].skipped = table[i].skipped
    BY <1>1 DEF Answers
  <2>2. LiveIds(after) = LiveIds(table)
    BY <2>1 DEF LiveIds, Retired, Answers
  <2>3. DOMAIN after = DOMAIN table
    BY DEF Answers
  <2> QED BY <1>1, <2>1, <2>2, <2>3 DEF FiledKeys, SkippedKeys, SentKeys, LiveIds
<1>2. CASE id \in LiveIds(table)
  <2>1. \A i \in DOMAIN table \ {id} :
           /\ KeyOf(after[i]) = KeyOf(table[i])
           /\ after[i].sent = table[i].sent /\ after[i].skipped = table[i].skipped
           /\ KeyOf(table[i]) # KeyOf(table[id])
    BY <1>2 DEF Answers, KeysOnce, LiveIds
  <2>2. /\ DOMAIN after = DOMAIN table /\ id \in DOMAIN table
        /\ KeyOf(after[id]) = KeyOf(table[id])
        /\ ~table[id].sent /\ table[id].skipped = "no"
    BY <1>2 DEF Answers, LiveIds, Retired
  <2>3. ASSUME Retired(after[id])
        PROVE  FiledKeys(after) = FiledKeys(table) \ {KeyOf(table[id])}
    <3>1. LiveIds(after) = LiveIds(table) \ {id}
      BY <1>2, <2>1, <2>2, <2>3 DEF LiveIds, Retired
    <3>2. \A i \in LiveIds(table) : i \in DOMAIN table
      BY DEF LiveIds
    <3> QED BY <2>1, <2>2, <3>1, <3>2 DEF FiledKeys
  <2>4. ASSUME after[id].skipped # "no"
        PROVE  SkippedKeys(after) = SkippedKeys(table) \cup {KeyOf(table[id])}
    BY <2>1, <2>2, <2>4 DEF SkippedKeys
  <2>5. ASSUME after[id].sent
        PROVE  SentKeys(after) = SentKeys(table) \cup {KeyOf(table[id])}
    BY <2>1, <2>2, <2>5 DEF SentKeys
  <2>6. ASSUME after[id].skipped = table[id].skipped
        PROVE  SkippedKeys(after) = SkippedKeys(table)
    BY <2>1, <2>2, <2>6 DEF SkippedKeys
  <2>7. ASSUME after[id].sent = table[id].sent
        PROVE  SentKeys(after) = SentKeys(table)
    BY <2>1, <2>2, <2>7 DEF SentKeys
  <2> QED BY <1>2, <2>2, <2>3, <2>4, <2>5, <2>6, <2>7 DEF Retired
<1> QED BY <1>1, <1>2 DEF LiveIds

LEMMA DeletionSets ==
    ASSUME NEW table, IsTable(table), NEW ids, ids \cap DOMAIN table \subseteq LiveIds(table)
    PROVE  /\ FiledKeys(Without(table, ids)) \subseteq FiledKeys(table)
           /\ SkippedKeys(Without(table, ids)) = SkippedKeys(table)
           /\ SentKeys(Without(table, ids)) = SentKeys(table)
<1> DEFINE after == Without(table, ids)
<1>1. DOMAIN after = DOMAIN table \ ids /\ \A i \in DOMAIN after : after[i] = table[i]
  BY DEF Without
<1> HIDE DEF after
<1>2. \A i \in DOMAIN table : table[i].sent \/ table[i].skipped # "no" => i \in DOMAIN after
  BY <1>1 DEF LiveIds, Retired
<1>3. FiledKeys(after) \subseteq FiledKeys(table)
  BY <1>1 DEF FiledKeys, LiveIds
<1>4. SkippedKeys(after) = SkippedKeys(table)
  BY <1>1, <1>2 DEF SkippedKeys
<1>5. SentKeys(after) = SentKeys(table)
  BY <1>1, <1>2 DEF SentKeys
<1> QED BY <1>3, <1>4, <1>5 DEF after

LEMMA InsertionSets ==
    ASSUME NEW table, IsTable(table), NEW key \in Key, NEW after,
           EnqueueNotification(table, key, after)
    PROVE  \/ after = table
           \/ /\ key \notin Keys(table)
              /\ FiledKeys(after) = FiledKeys(table) \cup {key}
              /\ SkippedKeys(after) = SkippedKeys(table)
              /\ SentKeys(after) = SentKeys(table)
              /\ KeysOnce(table) => KeysOnce(after)
              /\ LiveIds(table) \subseteq LiveIds(after)
<1>1. SUFFICES ASSUME key \notin Keys(table)
               PROVE  /\ FiledKeys(after) = FiledKeys(table) \cup {key}
                      /\ SkippedKeys(after) = SkippedKeys(table)
                      /\ SentKeys(after) = SentKeys(table)
                      /\ KeysOnce(table) => KeysOnce(after)
                      /\ LiveIds(table) \subseteq LiveIds(after)
  BY DEF EnqueueNotification
<1>2. PICK n \in RowIds :
          /\ IsNextId(table, n)
          /\ after = [i \in DOMAIN table \cup {n} |->
                         IF i = n THEN NewRow(key) ELSE table[i]]
  BY <1>1 DEF EnqueueNotification, Insert
<1>3. n \notin DOMAIN table
  BY <1>2, OutboxConstants DEF IsNextId, IsTable
<1>4. /\ KeyOf(NewRow(key)) = key
      /\ NewRow(key).sent = FALSE /\ NewRow(key).skipped = "no"
  BY DEF NewRow, KeyOf, Key
<1>5. /\ DOMAIN after = DOMAIN table \cup {n}
      /\ after[n] = NewRow(key)
      /\ \A i \in DOMAIN table : after[i] = table[i]
  BY <1>2, <1>3
<1>6. LiveIds(after) = LiveIds(table) \cup {n}
  BY <1>4, <1>5 DEF LiveIds, Retired
<1>7. \A i \in LiveIds(table) : after[i] = table[i]
  BY <1>5 DEF LiveIds
<1>8. FiledKeys(after) = FiledKeys(table) \cup {key}
  BY <1>4, <1>5, <1>6, <1>7 DEF FiledKeys
<1>9. SkippedKeys(after) = SkippedKeys(table)
  BY <1>3, <1>4, <1>5 DEF SkippedKeys
<1>10. SentKeys(after) = SentKeys(table)
  BY <1>3, <1>4, <1>5 DEF SentKeys
<1>11. ASSUME KeysOnce(table) PROVE KeysOnce(after)
  <2>1. \A i \in DOMAIN table : KeyOf(after[i]) # key
    BY <1>1, <1>5 DEF Keys
  <2> QED BY <1>4, <1>5, <1>11, <2>1 DEF KeysOnce
<1> QED BY <1>6, <1>8, <1>9, <1>10, <1>11

(* Which statements record a mail: one, and none takes it back. *)
LEMMA StatementsMail ==
    ASSUME NEW table, IsTable(table), NEW id, NEW t, NEW why
    PROVE  /\ \A i \in DOMAIN table :
                 table[i].mailed => /\ MarkSending(table, id, t)[i].mailed
                                    /\ MarkSent(table, id)[i].mailed
                                    /\ MarkEmailSent(table, id)[i].mailed
                                    /\ MarkSkipped(table, id, why, t)[i].mailed
           /\ id \in DOMAIN table => MarkEmailSent(table, id)[id].mailed
<1>1. \A i \in DOMAIN table : table[i] \in Row
  BY DEF IsTable
<1>2. ASSUME NEW row, id \in DOMAIN table /\ table[id].mailed => row.mailed
      PROVE  /\ \A i \in DOMAIN table :
                   table[i].mailed => Update(table, id, row)[i].mailed
             /\ id \in DOMAIN table => Update(table, id, row)[id] = row
  BY <1>2 DEF Update
<1>3. \A i \in DOMAIN table : table[i].mailed => MarkSending(table, id, t)[i].mailed
  <2> DEFINE row == [table[id] EXCEPT !.touched = t, !.tries = @ + 1]
  <2>1. id \in DOMAIN table /\ table[id].mailed => row.mailed
    BY <1>1 DEF Row
  <2> HIDE DEF row
  <2>2. \A i \in DOMAIN table : table[i].mailed => Update(table, id, row)[i].mailed
    BY <1>2, <2>1
  <2> QED BY <2>2 DEF MarkSending, row
<1>4. \A i \in DOMAIN table : table[i].mailed => MarkSent(table, id)[i].mailed
  <2> DEFINE row == [table[id] EXCEPT !.sent = TRUE]
  <2>1. id \in DOMAIN table /\ table[id].mailed => row.mailed
    BY <1>1 DEF Row
  <2> HIDE DEF row
  <2>2. \A i \in DOMAIN table : table[i].mailed => Update(table, id, row)[i].mailed
    BY <1>2, <2>1
  <2> QED BY <2>2 DEF MarkSent, row
<1>5. /\ \A i \in DOMAIN table : table[i].mailed => MarkEmailSent(table, id)[i].mailed
      /\ id \in DOMAIN table => MarkEmailSent(table, id)[id].mailed
  <2> DEFINE row == [table[id] EXCEPT !.mailed = TRUE]
  <2>1. id \in DOMAIN table => row.mailed
    BY <1>1 DEF Row
  <2> HIDE DEF row
  <2>2. /\ \A i \in DOMAIN table : table[i].mailed => Update(table, id, row)[i].mailed
        /\ id \in DOMAIN table => Update(table, id, row)[id] = row
    BY <1>2, <2>1
  <2> QED BY <2>1, <2>2 DEF MarkEmailSent, row
<1>6. \A i \in DOMAIN table : table[i].mailed => MarkSkipped(table, id, why, t)[i].mailed
  <2> DEFINE row == [table[id] EXCEPT !.skipped = why, !.touched = t]
  <2>1. id \in DOMAIN table /\ table[id].mailed => row.mailed
    BY <1>1 DEF Row
  <2> HIDE DEF row
  <2>2. \A i \in DOMAIN table : table[i].mailed => Update(table, id, row)[i].mailed
    BY <1>2, <2>1
  <2> QED BY <2>2 DEF MarkSkipped, row
<1> QED BY <1>3, <1>4, <1>5, <1>6

-----------------------------------------------------------------------------
(* The passes. *)

(* A pass that is delivering holds the row it is delivering. *)
Busy == \A p \in Passes : pass[p].pc \in Delivering => pass[p].batch # {}

TypeInv == TypeOK /\ Busy

(* What one pass may be, the batch included. *)
Fit(s) == s \in Pass /\ (s.pc \in Delivering => s.batch # {})

-----------------------------------------------------------------------------
(* The local states the actions build. *)

LEMMA IdleFit == /\ Fit(Idle)
                 /\ Fit([Idle EXCEPT !.pc = "boot"])
                 /\ Fit([Idle EXCEPT !.pc = "drain"])
BY DEF Fit, Idle, Pass, Planning, Delivering

LEMMA StartFit ==
    ASSUME NEW from \in Nat, NEW to \in Nat
    PROVE  Fit([Idle EXCEPT !.pc = "lock", !.from = from, !.to = to])
BY DEF Fit, Idle, Pass, Planning, Delivering

LEMMA PlanningFit ==
    ASSUME NEW s \in Pass, NEW keys \in SUBSET Key, NEW ids \in SUBSET Nat, NEW b \in BOOLEAN
    PROVE  /\ Fit([s EXCEPT !.pc = "enqueue", !.fresh = TRUE, !.todo = keys])
           /\ s.pc \in Planning => Fit([s EXCEPT !.todo = keys])
           /\ s.pc \in Planning => Fit([s EXCEPT !.todo = keys, !.clean = FALSE])
           /\ Fit([s EXCEPT !.pc = "reconcile", !.drop = ids])
           /\ s.pc \in Planning => Fit([s EXCEPT !.drop = ids])
           /\ Fit(s) => Fit([s EXCEPT !.fresh = FALSE])
<1>1. Fit([s EXCEPT !.pc = "enqueue", !.fresh = TRUE, !.todo = keys])
  BY DEF Fit, Pass, Planning, Delivering
<1>2. s.pc \in Planning => Fit([s EXCEPT !.todo = keys])
  BY DEF Fit, Pass, Planning, Delivering
<1>3. s.pc \in Planning => Fit([s EXCEPT !.todo = keys, !.clean = FALSE])
  BY DEF Fit, Pass, Planning, Delivering
<1>4. Fit([s EXCEPT !.pc = "reconcile", !.drop = ids])
  BY DEF Fit, Pass, Planning, Delivering
<1>5. s.pc \in Planning => Fit([s EXCEPT !.drop = ids])
  BY DEF Fit, Pass, Planning, Delivering
<1>6. Fit(s) => Fit([s EXCEPT !.fresh = FALSE])
  BY DEF Fit, Pass, Planning, Delivering
<1> QED BY <1>1, <1>2, <1>3, <1>4, <1>5, <1>6

LEMMA DeliveringFit ==
    ASSUME NEW s, Fit(s), s.pc \in Delivering, NEW b \in BOOLEAN, NEW c \in BOOLEAN
    PROVE  /\ Fit([s EXCEPT !.pc = "recipient"])
           /\ Fit([s EXCEPT !.pc = "push", !.owed = b])
           /\ Fit([s EXCEPT !.pc = "mail", !.tried = b, !.took = c])
           /\ Fit([s EXCEPT !.pc = "record", !.mailed = TRUE])
           /\ Fit([s EXCEPT !.pc = "finish", !.mailed = b])
           /\ Fit([s EXCEPT !.pc = "finish"])
<1>1. Fit([s EXCEPT !.pc = "recipient"])
  BY DEF Fit, Pass, Planning, Delivering
<1>2. Fit([s EXCEPT !.pc = "push", !.owed = b])
  BY DEF Fit, Pass, Planning, Delivering
<1>3. Fit([s EXCEPT !.pc = "mail", !.tried = b, !.took = c])
  BY DEF Fit, Pass, Planning, Delivering
<1>4. Fit([s EXCEPT !.pc = "record", !.mailed = TRUE])
  BY DEF Fit, Pass, Planning, Delivering
<1>5. Fit([s EXCEPT !.pc = "finish", !.mailed = b])
  BY DEF Fit, Pass, Planning, Delivering
<1>6. Fit([s EXCEPT !.pc = "finish"])
  BY DEF Fit, Pass, Planning, Delivering
<1> QED BY <1>1, <1>2, <1>3, <1>4, <1>5, <1>6

LEMMA BatchFit ==
    ASSUME NEW batch \in SUBSET Copy, batch # {}, NEW full \in BOOLEAN,
           NEW retired \in BOOLEAN, NEW rounds \in Nat
    PROVE  /\ Fit([Idle EXCEPT !.pc = "judge", !.batch = batch, !.rounds = rounds,
                               !.full = full])
           /\ Fit([Idle EXCEPT !.pc = "judge", !.batch = batch, !.full = full,
                               !.retired = retired, !.rounds = rounds])
           /\ Fit([Idle EXCEPT !.pc = "drain", !.rounds = rounds])
<1>1. Fit([Idle EXCEPT !.pc = "judge", !.batch = batch, !.rounds = rounds,
                       !.full = full])
  BY DEF Fit, Idle, Pass, Planning, Delivering
<1>2. Fit([Idle EXCEPT !.pc = "judge", !.batch = batch, !.full = full,
                       !.retired = retired, !.rounds = rounds])
  BY DEF Fit, Idle, Pass, Planning, Delivering
<1>3. Fit([Idle EXCEPT !.pc = "drain", !.rounds = rounds])
  BY DEF Fit, Idle, Pass, Planning, Delivering
<1> QED BY <1>1, <1>2, <1>3

(* Whatever deliver answers, the pass goes on well-formed. *)
LEMMA NextRowFit ==
    ASSUME NEW p \in Passes, pass[p] \in Pass, NEW outcome
    PROVE  Fit(NextRow(p, outcome))
<1> DEFINE rest    == pass[p].batch \ {Current(p)}
           retired == pass[p].retired \/ outcome = "retired"
           again   == pass[p].full /\ retired /\ pass[p].rounds + 1 < MaxDrainPasses
<1>1. /\ rest \in SUBSET Copy
      /\ pass[p].full \in BOOLEAN
      /\ retired \in BOOLEAN
      /\ pass[p].rounds \in Nat
      /\ pass[p].rounds + 1 \in Nat
  BY DEF Pass
<1>2. CASE rest # {}
  <2>1. NextRow(p, outcome) =
          [Idle EXCEPT !.pc = "judge", !.batch = rest, !.full = pass[p].full,
                       !.retired = retired, !.rounds = pass[p].rounds]
    BY <1>2 DEF NextRow
  <2>2. Fit([Idle EXCEPT !.pc = "judge", !.batch = rest, !.full = pass[p].full,
                         !.retired = retired, !.rounds = pass[p].rounds])
    <3> HIDE DEF rest, retired
    <3> QED BY <1>1, <1>2, BatchFit
  <2> QED BY <2>1, <2>2
<1>3. CASE rest = {} /\ again
  <2>1. NextRow(p, outcome) =
          [Idle EXCEPT !.pc = "drain", !.rounds = pass[p].rounds + 1]
    BY <1>3 DEF NextRow
  <2>2. \A n \in Nat : Fit([Idle EXCEPT !.pc = "drain", !.rounds = n])
    BY DEF Fit, Idle, Pass, Planning, Delivering
  <2> QED BY <1>1, <2>1, <2>2
<1>4. CASE rest = {} /\ ~again
  BY <1>4, IdleFit DEF NextRow
<1> QED BY <1>2, <1>3, <1>4

-----------------------------------------------------------------------------
(* Type correctness. *)

LEMMA BecomeFit ==
    ASSUME TypeInv, NEW p \in Passes, NEW s, Fit(s), Become(p, s)
    PROVE  pass' \in [Passes -> Pass] /\ Busy'
BY DEF TypeInv, TypeOK, Busy, Fit, Become

LEMMA PassFit ==
    ASSUME TypeInv, NEW p \in Passes
    PROVE  /\ pass[p] \in Pass
           /\ Fit(pass[p])
           /\ pass[p].pc \in Delivering =>
                 /\ Current(p) \in Copy
                 /\ CurrentKey(p) \in Key
<1>1. pass[p] \in Pass /\ Fit(pass[p])
  BY DEF TypeInv, TypeOK, Busy, Fit
<1>2. ASSUME pass[p].pc \in Delivering
      PROVE  Current(p) \in Copy
  <2>1. pass[p].batch \in SUBSET Copy /\ pass[p].batch # {}
    BY <1>1, <1>2 DEF Fit, Pass
  <2> QED BY <2>1, FirstExists DEF Current
<1>3. ASSUME Current(p) \in Copy
      PROVE  CurrentKey(p) \in Key
  BY <1>3 DEF CurrentKey, KeyOf, Copy, Row, Key
<1> QED BY <1>1, <1>2, <1>3

LEMMA InitType == Init => TypeInv
<1> SUFFICES ASSUME Init PROVE TypeInv
  OBVIOUS
<1>1. appt \in [Reminders -> Appointment]
  <2>1. [life |-> "unborn", due |-> 0, heard |-> TRUE] \in Appointment
    BY DEF Appointment
  <2>2. \A s \in Slots : [life |-> "live", due |-> s, heard |-> TRUE] \in Appointment
    BY NotifierConstants DEF Appointment
  <2> DEFINE first == {[life |-> "unborn", due |-> 0, heard |-> TRUE]} \cup
                      {[life |-> "live", due |-> s, heard |-> TRUE] : s \in Slots}
  <2>3. first \subseteq Appointment
    BY <2>1, <2>2
  <2>4. appt \in [Reminders -> first]
    BY DEF Init
  <2> HIDE DEF first
  <2> QED BY <2>3, <2>4
<1>2. prefs \in [digest : BOOLEAN, email : BOOLEAN]
  BY NotifierConstants DEF Init
<1>3. IsTable(queue)
  BY DEF Init, IsTable
<1>4. pass \in [Passes -> Pass] /\ Busy
  BY IdleFit DEF Init, Busy, Fit
<1> QED BY <1>1, <1>2, <1>3, <1>4 DEF Init, TypeInv, TypeOK

(* The family's changes. *)
LEMMA FamilyType == ASSUME TypeInv, Family PROVE TypeInv'
<1>1. ASSUME Edit
      PROVE  /\ pass' \in [Passes -> Pass] /\ Busy'
             /\ edits' \in Nat
             /\ UNCHANGED <<now, plannedThrough, up, planMu, planned, settled, faults>>
  <2>1. \A p \in Passes : Fit([pass[p] EXCEPT !.fresh = FALSE]) /\ Fit(pass[p])
    BY PassFit, PlanningFit
  <2>2. edits' \in Nat
    BY <1>1 DEF Edit, TypeInv, TypeOK
  <2> QED BY <1>1, <2>1, <2>2 DEF Edit, Busy, Fit
<1>2. ASSUME NEW r \in Reminders, NEW s \in Slots, CreateEvent(r, s)
      PROVE  TypeInv'
  <2>1. appt' \in [Reminders -> Appointment]
    BY <1>2, NotifierConstants DEF CreateEvent, TypeInv, TypeOK, Appointment
  <2> QED BY <1>1, <1>2, <2>1 DEF CreateEvent, TypeInv, TypeOK
<1>3. ASSUME NEW r \in Reminders, NEW s \in Slots, MoveEvent(r, s)
      PROVE  TypeInv'
  <2>1. appt' \in [Reminders -> Appointment]
    BY <1>3, NotifierConstants DEF MoveEvent, TypeInv, TypeOK, Appointment
  <2>2. IsTable(queue')
    BY <1>3, DeleteType DEF MoveEvent, TypeInv, TypeOK
  <2> QED BY <1>1, <1>3, <2>1, <2>2 DEF MoveEvent, TypeInv, TypeOK
<1>4. ASSUME NEW r \in Reminders, DeleteEvent(r)
      PROVE  TypeInv'
  <2>1. appt' \in [Reminders -> Appointment]
    BY <1>4 DEF DeleteEvent, TypeInv, TypeOK, Appointment
  <2>2. IsTable(queue')
    BY <1>4, DeleteType DEF DeleteEvent, TypeInv, TypeOK
  <2> QED BY <1>1, <1>4, <2>1, <2>2 DEF DeleteEvent, TypeInv, TypeOK
<1>5. ASSUME NEW r \in Reminders, NEW b \in BOOLEAN, SetHeard(r, b)
      PROVE  TypeInv'
  <2>1. appt' \in [Reminders -> Appointment]
    BY <1>5 DEF SetHeard, TypeInv, TypeOK, Appointment
  <2> QED BY <1>1, <1>5, <2>1 DEF SetHeard, TypeInv, TypeOK
<1>6. ASSUME NEW digest \in BOOLEAN, NEW email \in EmailChoices,
             PatchPrefs(digest, email)
      PROVE  TypeInv'
  <2>1. prefs' \in [digest : BOOLEAN, email : BOOLEAN]
    BY <1>6, NotifierConstants DEF PatchPrefs
  <2> QED BY <1>1, <1>6, <2>1 DEF PatchPrefs, TypeInv, TypeOK
<1>7. ASSUME NEW d \in Devices, Subscribe(d)
      PROVE  TypeInv'
  BY <1>1, <1>7 DEF Subscribe, TypeInv, TypeOK
<1>8. ASSUME NEW t \in Tests, PressTest(t)
      PROVE  TypeInv'
  <2>1. [src |-> t, due |-> now] \in Key
    BY DEF Key, Sources, TypeInv, TypeOK
  <2>2. IsTable(queue')
    BY <1>8, <2>1, EnqueueType DEF PressTest, TypeInv, TypeOK
  <2> QED BY <1>1, <1>8, <2>2 DEF PressTest, TypeInv, TypeOK
<1> QED BY <1>2, <1>3, <1>4, <1>5, <1>6, <1>7, <1>8 DEF Family

(* Planning. *)
LEMMA PlanType ==
    ASSUME TypeInv, NEW p \in Passes, PlanStep(p)
    PROVE  TypeInv'
<1> USE PassFit, BecomeFit
<1>1. ASSUME NEW from \in Nat, Start(p, from)
      PROVE  TypeInv'
  <2>1. now + Horizon \in Nat
    BY NotifierConstants DEF TypeInv, TypeOK
  <2>2. Fit([Idle EXCEPT !.pc = "lock", !.from = from, !.to = now + Horizon])
    BY <2>1, StartFit
  <2> QED BY <1>1, <2>2 DEF Start, stored, TypeInv, TypeOK
<1>2. CASE CatchUp(p)
  <2>1. CatchUpFrom \in Nat
    BY NotifierConstants DEF CatchUpFrom, TypeInv, TypeOK
  <2> QED BY <1>1, <1>2, <2>1 DEF CatchUp
<1>3. CASE Tick(p)
  BY <1>1, <1>3 DEF Tick, TypeInv, TypeOK
<1>4. CASE Plan(p)
  <2> DEFINE want == PlannedReminders(pass[p].from, pass[p].to)
                       \cup PlannedDigests(pass[p].from, pass[p].to)
  <2>1. want \in SUBSET Key
    <3>1. \A r \in Reminders : [src |-> r, due |-> appt[r].due] \in Key
      BY DEF Key, Sources, TypeInv, TypeOK, Appointment
    <3>2. \A d \in Digests : [src |-> d, due |-> DigestSlot[d]] \in Key
      BY NotifierConstants DEF Key, Sources
    <3> QED BY <3>1, <3>2 DEF PlannedReminders, PlannedDigests
  <2>2. Fit([pass[p] EXCEPT !.pc = "enqueue", !.fresh = TRUE, !.todo = want])
    <3> HIDE DEF want
    <3> QED BY <2>1, PlanningFit
  <2> QED BY <1>4, <2>2 DEF Plan, stored, TypeInv, TypeOK
<1>5. ASSUME NEW k \in pass[p].todo, Enqueue(p, k)
      PROVE  TypeInv'
  <2>1. pass[p].todo \in SUBSET Key /\ pass[p].pc \in Planning
    BY <1>5 DEF Enqueue, At, Pass, Planning
  <2>2. Fit([pass[p] EXCEPT !.todo = pass[p].todo \ {k}])
    BY <2>1, PlanningFit
  <2>3. IsTable(queue')
    BY <1>5, <2>1, EnqueueType DEF Enqueue, TypeInv, TypeOK
  <2>4. planned' \subseteq Key
    BY <1>5, <2>1 DEF Enqueue, TypeInv, TypeOK
  <2> QED BY <1>5, <2>2, <2>3, <2>4 DEF Enqueue, TypeInv, TypeOK
<1>6. CASE PlanPartial(p)
  BY <1>6, IdleFit DEF PlanPartial, EndPlan, stored, TypeInv, TypeOK
<1>7. CASE Reconcile(p)
  <2>1. Unplanned(pass[p].from, pass[p].to) \in SUBSET Nat
    BY OutboxConstants DEF Unplanned, ListUnsent, LiveIds, TypeInv, TypeOK, IsTable
  <2>2. Fit([pass[p] EXCEPT !.pc = "reconcile",
                            !.drop = Unplanned(pass[p].from, pass[p].to)])
    BY <2>1, PlanningFit
  <2> QED BY <1>7, <2>2 DEF Reconcile, stored, TypeInv, TypeOK
<1>8. ASSUME NEW i \in pass[p].drop, Drop(p, i)
      PROVE  TypeInv'
  <2>1. pass[p].drop \in SUBSET Nat /\ pass[p].pc \in Planning
    BY <1>8 DEF Drop, At, Pass, Planning
  <2>2. Fit([pass[p] EXCEPT !.drop = pass[p].drop \ {i}])
    BY <2>1, PlanningFit
  <2>3. IsTable(queue')
    BY <1>8, DeleteType DEF Drop, TypeInv, TypeOK
  <2> QED BY <1>8, <2>2, <2>3 DEF Drop, TypeInv, TypeOK
<1>9. CASE RecordHorizon(p)
  <2>1. pass[p].to \in Nat
    BY DEF Pass
  <2> QED BY <1>9, <2>1, IdleFit DEF RecordHorizon, EndPlan, TypeInv, TypeOK
<1> QED BY <1>2, <1>3, <1>4, <1>5, <1>6, <1>7, <1>8, <1>9 DEF PlanStep

(* Delivery. *)
LEMMA AnswerType ==
    ASSUME TypeInv, NEW p \in Passes, NEW outcome, Answer(p, outcome)
    PROVE  pass' \in [Passes -> Pass] /\ Busy'
BY PassFit, NextRowFit, BecomeFit DEF Answer

LEMMA DeliverType ==
    ASSUME TypeInv, NEW p \in Passes, DeliverStep(p)
    PROVE  TypeInv'
<1> USE PassFit, BecomeFit, AnswerType
<1>1. now \in Nat /\ IsTable(queue) /\ {"stale", "empty"} \subseteq Reason
  BY DEF TypeInv, TypeOK, Reason
<1>2. CASE Drain(p)
  <2> DEFINE due == DueNotifications(queue, now, DrainBatch)
  <2>1. due \in SUBSET Copy
    BY <1>1 DEF DueNotifications, LiveIds, IsTable, Copy
  <2>2. pass[p].rounds \in Nat
    BY DEF Pass
  <2>3. CASE due = {}
    BY <1>2, <2>3, IdleFit DEF Drain, stored, TypeInv, TypeOK
  <2>4. CASE due # {}
    <3> DEFINE full == Cardinality(due) = DrainBatch
    <3>1. Fit([Idle EXCEPT !.pc = "judge", !.batch = due,
                           !.rounds = pass[p].rounds, !.full = full])
      <4>1. full \in BOOLEAN
        OBVIOUS
      <4> HIDE DEF due, full
      <4> QED BY <2>1, <2>2, <2>4, <4>1, BatchFit
    <3> QED BY <1>2, <2>4, <3>1 DEF Drain, stored, TypeInv, TypeOK
  <2> QED BY <2>3, <2>4
<1>3. CASE SkipStale(p)
  <2>1. IsTable(queue')
    BY <1>1, <1>3, MarkType DEF SkipStale
  <2> QED BY <1>3, <2>1 DEF SkipStale, TypeInv, TypeOK
<1>4. CASE DeferBackingOff(p)
  BY <1>4 DEF DeferBackingOff, stored, TypeInv, TypeOK
<1>5. CASE Attempt(p)
  <2>1. IsTable(queue')
    BY <1>1, <1>5, MarkType DEF Attempt, Reason
  <2>2. pass' \in [Passes -> Pass] /\ Busy'
    BY <1>5, DeliveringFit DEF Attempt, At, Delivering
  <2> QED BY <1>5, <2>1, <2>2 DEF Attempt, TypeInv, TypeOK
<1>6. CASE ReadRecipient(p)
  <2>1. prefs.email \in BOOLEAN
    BY DEF TypeInv, TypeOK
  <2>2. Fit([pass[p] EXCEPT !.pc = "push", !.owed = prefs.email])
    BY <1>6, <2>1, DeliveringFit DEF ReadRecipient, At, Delivering
  <2> QED BY <1>6, <2>2 DEF ReadRecipient, stored, TypeInv, TypeOK
<1>7. CASE SkipEmpty(p)
  <2>1. IsTable(queue')
    BY <1>1, <1>7, MarkType DEF SkipEmpty
  <2> QED BY <1>7, <2>1 DEF SkipEmpty, TypeInv, TypeOK
<1>8. ASSUME NEW took, NEW gone, Push(p, took, gone)
      PROVE  TypeInv'
  <2>1. pass[p].pc \in Delivering
    BY <1>8 DEF Push, At, Delivering
  <2>2. Fit([pass[p] EXCEPT !.pc = "mail", !.tried = (devices # gone),
                            !.took = (took # {})])
    BY <2>1, DeliveringFit
  <2>3. settled' \subseteq Key \X Channel
    BY <1>8, <2>1 DEF Push, Channel, TypeInv, TypeOK
  <2> QED BY <1>8, <2>2, <2>3 DEF Push, TypeInv, TypeOK
<1>9. CASE MailNotNeeded(p)
  <2>1. pass[p].pc \in Delivering
    BY <1>9 DEF MailNotNeeded, At, Delivering
  <2>2. Current(p).row.mailed \in BOOLEAN
    BY <2>1 DEF Copy, Row
  <2>3. Fit([pass[p] EXCEPT !.pc = "finish", !.mailed = Current(p).row.mailed])
    BY <2>1, <2>2, DeliveringFit
  <2>4. settled' \subseteq Key \X Channel
    BY <1>9, <2>1 DEF MailNotNeeded, Channel, TypeInv, TypeOK
  <2> QED BY <1>9, <2>3, <2>4 DEF MailNotNeeded, stored, TypeInv, TypeOK
<1>10. CASE MailAccepted(p)
  <2>1. pass[p].pc \in Delivering
    BY <1>10 DEF MailAccepted, At, Delivering
  <2>2. Fit([pass[p] EXCEPT !.pc = "record", !.mailed = TRUE])
    BY <2>1, DeliveringFit
  <2>3. settled' \subseteq Key \X Channel
    BY <1>10, <2>1 DEF MailAccepted, Channel, TypeInv, TypeOK
  <2> QED BY <1>10, <2>2, <2>3 DEF MailAccepted, stored, TypeInv, TypeOK
<1>11. CASE MailRefused(p)
  <2>1. Fit([pass[p] EXCEPT !.pc = "finish"])
    BY <1>11, DeliveringFit DEF MailRefused, At, Delivering
  <2> QED BY <1>11, <2>1 DEF MailRefused, stored, TypeInv, TypeOK
<1>12. CASE RecordMail(p)
  <2>1. IsTable(queue')
    BY <1>1, <1>12, MarkType DEF RecordMail
  <2>2. Fit([pass[p] EXCEPT !.pc = "finish"])
    BY <1>12, DeliveringFit DEF RecordMail, At, Delivering
  <2> QED BY <1>12, <2>1, <2>2 DEF RecordMail, TypeInv, TypeOK
<1>13. CASE DeferIncomplete(p)
  BY <1>13 DEF DeferIncomplete, stored, TypeInv, TypeOK
<1>14. CASE Deliver(p)
  <2>1. IsTable(queue')
    BY <1>1, <1>14, MarkType DEF Deliver
  <2> QED BY <1>14, <2>1 DEF Deliver, TypeInv, TypeOK
<1> QED BY <1>2, <1>3, <1>4, <1>5, <1>6, <1>7, <1>8, <1>9, <1>10, <1>11, <1>12,
           <1>13, <1>14 DEF DeliverStep

(* Faults. *)
LEMMA FaultType ==
    ASSUME TypeInv, NEW p \in Passes,
           PlanFails(p) \/ ReconcileFails(p) \/ DeliverFails(p) \/ Crash
    PROVE  TypeInv'
<1> USE PassFit, BecomeFit, AnswerType
<1>1. ASSUME Fault PROVE faults' \in Nat
  BY <1>1 DEF Fault, TypeInv, TypeOK
<1>2. CASE PlanFails(p)
  <2>1. PICK left \in SUBSET pass[p].todo :
          Become(p, [pass[p] EXCEPT !.todo = left, !.clean = FALSE])
    BY <1>2 DEF PlanFails
  <2>2. left \in SUBSET Key /\ pass[p].pc \in Planning
    BY <1>2 DEF PlanFails, At, Pass, Planning
  <2>3. Fit([pass[p] EXCEPT !.todo = left, !.clean = FALSE])
    BY <2>2, PlanningFit
  <2> QED BY <1>1, <1>2, <2>1, <2>3 DEF PlanFails, stored, TypeInv, TypeOK
<1>3. CASE ReconcileFails(p)
  BY <1>1, <1>3, IdleFit DEF ReconcileFails, EndPlan, stored, TypeInv, TypeOK
<1>4. CASE DeliverFails(p)
  <2>1. pass' \in [Passes -> Pass] /\ Busy'
    BY <1>4, IdleFit, DeliveringFit DEF DeliverFails, Delivering
  <2> QED BY <1>1, <1>4, <2>1 DEF DeliverFails, stored, TypeInv, TypeOK
<1>5. CASE Crash
  <2>1. pass' \in [Passes -> Pass] /\ Busy'
    BY <1>5, IdleFit DEF Crash, Busy, Fit
  <2> QED BY <1>1, <1>5, <2>1 DEF Crash, stored, TypeInv, TypeOK
<1> QED BY <1>2, <1>3, <1>4, <1>5

LEMMA NextType == TypeInv /\ [Next]_vars => TypeInv'
<1> SUFFICES ASSUME TypeInv, [Next]_vars PROVE TypeInv'
  OBVIOUS
<1>1. CASE Advance
  BY <1>1 DEF Advance, stored, TypeInv, TypeOK, Busy
<1>2. CASE Boot
  BY <1>2, IdleFit, BecomeFit, NotifierConstants DEF Boot, stored, TypeInv, TypeOK
<1>3. CASE Crash
  BY <1>3, FaultType, NotifierConstants
<1>4. CASE Family
  BY <1>4, FamilyType
<1>5. ASSUME NEW p \in Passes,
             PassStep(p) \/ PlanFails(p) \/ ReconcileFails(p) \/ DeliverFails(p)
      PROVE  TypeInv'
  BY <1>5, PlanType, DeliverType, FaultType DEF PassStep
<1>6. CASE UNCHANGED vars
  BY <1>6 DEF vars, stored, TypeInv, TypeOK, Busy
<1> QED BY <1>1, <1>2, <1>3, <1>4, <1>5, <1>6 DEF Next

(* Every variable keeps its type, and a pass that is delivering always     *)
(* holds the row it is delivering: the copy deliver works from exists.     *)
THEOREM TypeCorrect == Spec => []TypeOK
<1>1. Spec => []TypeInv
  BY InitType, NextType, PTL DEF Spec
<1>2. TypeInv => TypeOK
  BY DEF TypeInv
<1> QED BY <1>1, <1>2, PTL

-----------------------------------------------------------------------------
(* What was sent stays on record. *)

LEMMA StepKeepsSent ==
    ASSUME TypeInv, [Next]_vars
    PROVE  KeepsSent(queue, queue')
<1> USE DEF stored
<1>1. IsTable(queue)
  BY DEF TypeInv, TypeOK
<1>2. ASSUME queue' = queue PROVE KeepsSent(queue, queue')
  BY <1>2 DEF KeepsSent
<1>3. CASE Advance \/ Boot \/ Crash \/ UNCHANGED vars
  BY <1>2, <1>3 DEF Advance, Boot, Crash, vars
<1>4. CASE Family
  <2>1. ASSUME NEW r, NEW s, CreateEvent(r, s) \/ MoveEvent(r, s)
        PROVE  KeepsSent(queue, queue')
    BY <1>1, <1>2, <2>1, StatementsKeepSent DEF CreateEvent, MoveEvent
  <2>2. ASSUME NEW r, DeleteEvent(r) PROVE KeepsSent(queue, queue')
    BY <1>1, <2>2, StatementsKeepSent DEF DeleteEvent
  <2>3. ASSUME NEW r, NEW b, SetHeard(r, b) \/ PatchPrefs(r, b) \/ Subscribe(r)
        PROVE  KeepsSent(queue, queue')
    BY <1>2, <2>3 DEF SetHeard, PatchPrefs, Subscribe
  <2>4. ASSUME NEW t, PressTest(t) PROVE KeepsSent(queue, queue')
    BY <1>1, <2>4, EnqueueKeepsSent DEF PressTest
  <2> QED BY <1>4, <2>1, <2>2, <2>3, <2>4 DEF Family
<1>5. ASSUME NEW p \in Passes, PlanStep(p) PROVE KeepsSent(queue, queue')
  <2>1. CASE \/ CatchUp(p) \/ Tick(p) \/ Plan(p) \/ PlanPartial(p)
             \/ Reconcile(p) \/ RecordHorizon(p)
    BY <1>2, <2>1
       DEF CatchUp, Tick, Start, Plan, PlanPartial, Reconcile, RecordHorizon
  <2>2. ASSUME NEW k, Enqueue(p, k) PROVE KeepsSent(queue, queue')
    BY <1>1, <2>2, EnqueueKeepsSent DEF Enqueue
  <2>3. ASSUME NEW i, Drop(p, i) PROVE KeepsSent(queue, queue')
    BY <1>1, <2>3, StatementsKeepSent DEF Drop
  <2> QED BY <1>5, <2>1, <2>2, <2>3 DEF PlanStep
<1>6. ASSUME NEW p \in Passes, DeliverStep(p) PROVE KeepsSent(queue, queue')
  <2>1. CASE \/ Drain(p) \/ DeferBackingOff(p) \/ ReadRecipient(p)
             \/ MailNotNeeded(p) \/ MailAccepted(p) \/ MailRefused(p)
             \/ DeferIncomplete(p)
    BY <1>2, <2>1 DEF Drain, DeferBackingOff, ReadRecipient, MailNotNeeded,
                      MailAccepted, MailRefused, DeferIncomplete
  <2>2. ASSUME NEW took, NEW gone, Push(p, took, gone)
        PROVE  KeepsSent(queue, queue')
    BY <1>2, <2>2 DEF Push
  <2>3. CASE SkipStale(p) \/ SkipEmpty(p) \/ Attempt(p) \/ RecordMail(p) \/ Deliver(p)
    BY <1>1, <2>3, StatementsKeepSent
       DEF SkipStale, SkipEmpty, Attempt, RecordMail, Deliver
  <2> QED BY <1>6, <2>1, <2>2, <2>3 DEF DeliverStep
<1>7. ASSUME NEW p \in Passes, PlanFails(p) \/ ReconcileFails(p) \/ DeliverFails(p)
      PROVE  KeepsSent(queue, queue')
  BY <1>2, <1>7 DEF PlanFails, ReconcileFails, DeliverFails
<1> QED BY <1>3, <1>4, <1>5, <1>6, <1>7 DEF Next, PassStep

(* However many passes overlap and whatever fails, nothing the family does *)
(* and nothing the server does removes or rewrites the record of a         *)
(* notification that was sent.                                             *)
THEOREM SentStays == Spec => SentIsHistory
<1>1. TypeInv /\ [Next]_vars => [KeepsSent(queue, queue')]_vars
  BY StepKeepsSent
<1>2. Spec => []TypeInv
  BY InitType, NextType, PTL DEF Spec
<1> QED BY <1>1, <1>2, PTL DEF Spec, SentIsHistory

-----------------------------------------------------------------------------
(* A row is recorded as sent only when every channel had settled it. That  *)
(* needs a production server, whose only pass is the scheduler's, and that *)
(* nobody presses the test button: MarkSent names its row by number alone, *)
(* and a second writer can let that number be handed out again.            *)

SingleWriter == Passes = {Scheduler} /\ Tests = {}

(* SentMeansSettled is not inductive: MarkSent names a row by its number,  *)
(* and what vouches for it is in the local state of the pass. What carries *)
(* it: the number of a row in the batch still names that row if it names   *)
(* one at all, a mail on record was settled, and each leg of the fan-out   *)
(* that claims to be done has settled.                                     *)
MailVouched(row, done) == row.mailed => <<KeyOf(row), "mail">> \in done

TableVouched(table, done) ==
    \A i \in DOMAIN table :
        /\ MailVouched(table[i], done)
        /\ table[i].sent =>
              \A c \in {"push", "mail"} : <<KeyOf(table[i]), c>> \in done

BatchVouched(batch, table, done) ==
    \A c \in batch :
        /\ MailVouched(c.row, done)
        /\ c.id \in DOMAIN table => KeyOf(table[c.id]) = KeyOf(c.row)

LegsVouched(s, key, done) ==
    /\ s.pc \in {"judge", "recipient", "push", "mail"} => ~s.mailed
    /\ s.pc \in {"mail", "record", "finish"} =>
           ((s.tried => s.took) => <<key, "push">> \in done)
    /\ s.pc \in {"record", "finish"} =>
           ((s.owed => s.mailed) => <<key, "mail">> \in done)
    /\ s.pc = "record" => <<key, "mail">> \in done

PassVouched(s, table, done) ==
    s.pc \in Delivering =>
        /\ BatchVouched(s.batch, table, done)
        /\ LegsVouched(s, KeyOf(First(s.batch).row), done)

Vouched ==
    /\ TableVouched(queue, settled)
    /\ \A p \in Passes : PassVouched(pass[p], queue, settled)

(* From one table to the next nothing appears, nothing is renamed, and no  *)
(* row gains a record of a delivery.                                       *)
Shrinks(before, after) ==
    \A i \in DOMAIN after :
        /\ i \in DOMAIN before
        /\ KeyOf(after[i]) = KeyOf(before[i])
        /\ after[i].sent => before[i].sent
        /\ after[i].mailed => before[i].mailed

LEMMA ShrinkVouches ==
    ASSUME NEW before, NEW after, NEW done, NEW more, NEW batch, NEW part,
           Shrinks(before, after), done \subseteq more, part \subseteq batch
    PROVE  /\ TableVouched(before, done) => TableVouched(after, more)
           /\ BatchVouched(batch, before, done) => BatchVouched(part, after, more)
<1>1. TableVouched(before, done) => TableVouched(after, more)
  BY DEF Shrinks, TableVouched, MailVouched
<1>2. BatchVouched(batch, before, done) => BatchVouched(part, after, more)
  BY DEF Shrinks, BatchVouched, MailVouched
<1> QED BY <1>1, <1>2

LEMMA StatementsShrink ==
    ASSUME NEW table, IsTable(table), NEW id, NEW t, NEW why, NEW src
    PROVE  /\ Shrinks(table, table)
           /\ Shrinks(table, MarkSending(table, id, t))
           /\ Shrinks(table, MarkSkipped(table, id, why, t))
           /\ Shrinks(table, DeleteQueued(table, id))
           /\ Shrinks(table, DeleteUnsentBySource(table, src))
<1>1. \A i \in DOMAIN table : table[i] \in Row
  BY DEF IsTable
<1>2. Shrinks(table, table)
  BY DEF Shrinks
<1>3. Shrinks(table, MarkSending(table, id, t))
  <2> DEFINE row == [table[id] EXCEPT !.touched = t, !.tries = @ + 1]
  <2>1. id \in DOMAIN table =>
          /\ KeyOf(row) = KeyOf(table[id])
          /\ row.sent = table[id].sent /\ row.mailed = table[id].mailed
    BY <1>1 DEF Row, KeyOf
  <2> HIDE DEF row
  <2>2. Shrinks(table, Update(table, id, row))
    BY <2>1 DEF Shrinks, Update
  <2> QED BY <2>2 DEF MarkSending, row
<1>4. Shrinks(table, MarkSkipped(table, id, why, t))
  <2> DEFINE row == [table[id] EXCEPT !.skipped = why, !.touched = t]
  <2>1. id \in DOMAIN table =>
          /\ KeyOf(row) = KeyOf(table[id])
          /\ row.sent = table[id].sent /\ row.mailed = table[id].mailed
    BY <1>1 DEF Row, KeyOf
  <2> HIDE DEF row
  <2>2. Shrinks(table, Update(table, id, row))
    BY <2>1 DEF Shrinks, Update
  <2> QED BY <2>2 DEF MarkSkipped, row
<1>5. /\ Shrinks(table, DeleteQueued(table, id))
      /\ Shrinks(table, DeleteUnsentBySource(table, src))
  BY DEF Shrinks, DeleteQueued, DeleteUnsentBySource, Without
<1> QED BY <1>2, <1>3, <1>4, <1>5

(* The row a pass works on, and the row after it. *)
LEMMA NextRowShape ==
    ASSUME NEW p \in Passes, NEW outcome, NextRow(p, outcome).pc \in Delivering
    PROVE  /\ NextRow(p, outcome).pc = "judge"
           /\ NextRow(p, outcome).batch \subseteq pass[p].batch
           /\ NextRow(p, outcome).mailed = FALSE
BY DEF NextRow, Idle, Delivering

LEMMA AnswerVouched ==
    ASSUME TypeInv, NEW p \in Passes, NEW outcome, Answer(p, outcome),
           BatchVouched(pass[p].batch, queue', settled')
    PROVE  PassVouched(pass[p], queue, settled)' 
<1>1. pass'[p] = NextRow(p, outcome)
  BY DEF Answer, Become, TypeInv, TypeOK
<1>2. SUFFICES ASSUME NextRow(p, outcome).pc \in Delivering
               PROVE  PassVouched(NextRow(p, outcome), queue', settled')
  BY <1>1 DEF PassVouched
<1>3. BatchVouched(NextRow(p, outcome).batch, queue', settled')
  BY <1>2, NextRowShape DEF BatchVouched
<1> QED BY <1>2, <1>3, NextRowShape DEF PassVouched, LegsVouched

LEMMA MarksVouched ==
    ASSUME NEW table, IsTable(table), NEW id, NEW done, NEW batch,
           TableVouched(table, done), BatchVouched(batch, table, done),
           id \in DOMAIN table => <<KeyOf(table[id]), "mail">> \in done
    PROVE  /\ TableVouched(MarkEmailSent(table, id), done)
           /\ BatchVouched(batch, MarkEmailSent(table, id), done)
           /\ (id \in DOMAIN table => <<KeyOf(table[id]), "push">> \in done)
                 => TableVouched(MarkSent(table, id), done)
           /\ BatchVouched(batch, MarkSent(table, id), done)
<1>1. \A i \in DOMAIN table : table[i] \in Row
  BY DEF IsTable
<1>2. /\ TableVouched(MarkEmailSent(table, id), done)
      /\ BatchVouched(batch, MarkEmailSent(table, id), done)
  <2> DEFINE row == [table[id] EXCEPT !.mailed = TRUE]
  <2>1. id \in DOMAIN table =>
          KeyOf(row) = KeyOf(table[id]) /\ row.sent = table[id].sent
    BY <1>1 DEF Row, KeyOf
  <2> HIDE DEF row
  <2>2. TableVouched(Update(table, id, row), done)
    BY <2>1 DEF Update, TableVouched, MailVouched
  <2>3. BatchVouched(batch, Update(table, id, row), done)
    BY <2>1 DEF Update, BatchVouched, MailVouched
  <2> QED BY <2>2, <2>3 DEF MarkEmailSent, row
<1>3. /\ (id \in DOMAIN table => <<KeyOf(table[id]), "push">> \in done)
            => TableVouched(MarkSent(table, id), done)
      /\ BatchVouched(batch, MarkSent(table, id), done)
  <2> DEFINE row == [table[id] EXCEPT !.sent = TRUE]
  <2>1. id \in DOMAIN table => KeyOf(row) = KeyOf(table[id])
    BY <1>1 DEF Row, KeyOf
  <2> HIDE DEF row
  <2>2. (id \in DOMAIN table => <<KeyOf(table[id]), "push">> \in done)
            => TableVouched(Update(table, id, row), done)
    BY <2>1 DEF Update, TableVouched, MailVouched
  <2>3. BatchVouched(batch, Update(table, id, row), done)
    BY <2>1 DEF Update, BatchVouched, MailVouched
  <2> QED BY <2>2, <2>3 DEF MarkSent, row
<1> QED BY <1>2, <1>3

LEMMA InitVouched == Init => Vouched
BY DEF Init, Vouched, TableVouched, PassVouched, Idle, Delivering

LEMMA DeliverVouched ==
    ASSUME TypeInv, SingleWriter, Vouched, NEW p \in Passes, DeliverStep(p)
    PROVE  Vouched'
<1> DEFINE s == pass[p]
           key == CurrentKey(p)
           id  == Current(p).id
<1>1. IsTable(queue) /\ s \in Pass /\ PassVouched(s, queue, settled)
  BY PassFit DEF TypeInv, TypeOK, Vouched
<1>2. TableVouched(queue, settled)
  BY DEF Vouched
<1>3. SUFFICES TableVouched(queue', settled') /\ PassVouched(pass'[p], queue', settled')
  BY DEF SingleWriter, Vouched
<1>4. ASSUME s.pc \in Delivering
      PROVE  /\ BatchVouched(s.batch, queue, settled)
             /\ LegsVouched(s, key, settled)
             /\ Current(p) \in s.batch
             /\ id \in DOMAIN queue => KeyOf(queue[id]) = key
             /\ MailVouched(Current(p).row, settled)
  <2>1. BatchVouched(s.batch, queue, settled) /\ LegsVouched(s, key, settled)
    BY <1>1, <1>4 DEF PassVouched, CurrentKey, Current
  <2>2. Current(p) \in s.batch
    BY <1>1, <1>4, FirstExists DEF TypeInv, Busy, Current, Pass
  <2> QED BY <2>1, <2>2 DEF BatchVouched, CurrentKey
<1>5. ASSUME NEW outcome, Answer(p, outcome), settled' = settled,
             s.pc \in Delivering, Shrinks(queue, queue')
      PROVE  TableVouched(queue', settled') /\ PassVouched(pass'[p], queue', settled')
  <2>1. BatchVouched(s.batch, queue', settled') /\ TableVouched(queue', settled')
    BY <1>2, <1>4, <1>5, ShrinkVouches
  <2> QED BY <1>5, <2>1, AnswerVouched
<1>6. CASE Drain(p)
  <2> DEFINE due == DueNotifications(queue, now, DrainBatch)
  <2>1. queue' = queue /\ settled' = settled
    BY <1>6 DEF Drain, stored
  <2>2. BatchVouched(due, queue, settled)
    <3> SUFFICES ASSUME NEW c \in due
                 PROVE  /\ MailVouched(c.row, settled)
                        /\ c.id \in DOMAIN queue => KeyOf(queue[c.id]) = KeyOf(c.row)
      BY DEF BatchVouched
    <3>1. PICK i \in DOMAIN queue : c = [id |-> i, row |-> queue[i]]
      BY DEF DueNotifications, LiveIds
    <3>2. c.id = i /\ c.row = queue[i]
      BY <3>1
    <3> QED BY <1>2, <3>2 DEF TableVouched
  <2> DEFINE full == Cardinality(due) = DrainBatch
  <2>3. \/ pass'[p] = Idle
        \/ pass'[p] = [Idle EXCEPT !.pc = "judge", !.batch = due,
                          !.rounds = s.rounds, !.full = full]
    BY <1>6 DEF Drain, Become, TypeInv, TypeOK
  <2>4. pass'[p].pc \in Delivering =>
            pass'[p].pc = "judge" /\ pass'[p].batch = due /\ pass'[p].mailed = FALSE
    <3> HIDE DEF due, full, s
    <3>1. CASE pass'[p] = Idle
      BY <3>1 DEF Idle, Delivering
    <3>2. CASE pass'[p] = [Idle EXCEPT !.pc = "judge", !.batch = due,
                              !.rounds = s.rounds, !.full = full]
      BY <3>2 DEF Idle
    <3> QED BY <2>3, <3>1, <3>2
  <2>5. PassVouched(pass'[p], queue, settled)
    <3> HIDE DEF due
    <3> QED BY <2>2, <2>4 DEF PassVouched, LegsVouched
  <2> QED BY <1>2, <2>1, <2>5
<1>7. CASE SkipStale(p) \/ SkipEmpty(p)
  <2>1. s.pc \in Delivering
    BY <1>7 DEF SkipStale, SkipEmpty, At, Delivering
  <2> QED BY <1>1, <1>5, <1>7, <2>1, StatementsShrink DEF SkipStale, SkipEmpty
<1>8. CASE DeferBackingOff(p) \/ DeferIncomplete(p)
  <2>1. s.pc \in Delivering
    BY <1>8 DEF DeferBackingOff, DeferIncomplete, At, Delivering
  <2> QED BY <1>1, <1>5, <1>8, <2>1, StatementsShrink
         DEF DeferBackingOff, DeferIncomplete, stored
<1>9. CASE Attempt(p)
  <2>1. s.pc = "judge" /\ s.pc \in Delivering
    BY <1>9 DEF Attempt, At, Delivering
  <2>2. Shrinks(queue, queue') /\ settled' = settled
    BY <1>1, <1>9, StatementsShrink DEF Attempt
  <2>3. CASE id \in DOMAIN queue
    <3>1. pass'[p] = [s EXCEPT !.pc = "recipient"]
      BY <1>9, <2>3 DEF Attempt, Become, TypeInv, TypeOK
    <3>2. /\ pass'[p].pc = "recipient"
          /\ pass'[p].batch = s.batch /\ pass'[p].mailed = s.mailed
      BY <1>1, <3>1 DEF Pass
    <3>3. BatchVouched(s.batch, queue', settled') /\ TableVouched(queue', settled')
      BY <1>2, <1>4, <2>1, <2>2, ShrinkVouches
    <3> QED BY <1>4, <2>1, <3>2, <3>3 DEF PassVouched, LegsVouched
  <2>4. CASE id \notin DOMAIN queue
    BY <1>5, <1>9, <2>1, <2>2, <2>4 DEF Attempt
  <2> QED BY <2>3, <2>4
<1>10. ASSUME s.pc \in Delivering, queue' = queue, settled \subseteq settled',
              pass'[p].batch = s.batch, LegsVouched(pass'[p], key, settled')
       PROVE  TableVouched(queue', settled') /\ PassVouched(pass'[p], queue', settled')
  <2>1. BatchVouched(s.batch, queue', settled') /\ TableVouched(queue', settled')
    BY <1>1, <1>2, <1>4, <1>10, ShrinkVouches, StatementsShrink
  <2> QED BY <1>10, <2>1 DEF PassVouched, CurrentKey, Current
<1>11. CASE ReadRecipient(p)
  <2>1. s.pc = "recipient" /\ s.pc \in Delivering
    BY <1>11 DEF ReadRecipient, At, Delivering
  <2>2. pass'[p] = [s EXCEPT !.pc = "push", !.owed = prefs.email]
    BY <1>11 DEF ReadRecipient, Become, TypeInv, TypeOK
  <2>3. pass'[p].pc = "push" /\ pass'[p].batch = s.batch /\ pass'[p].mailed = s.mailed
    BY <1>1, <2>2 DEF Pass
  <2>4. LegsVouched(pass'[p], key, settled')
    BY <1>4, <2>1, <2>3 DEF LegsVouched
  <2> QED BY <1>10, <1>11, <2>1, <2>3, <2>4 DEF ReadRecipient, stored
<1>12. ASSUME NEW took, NEW gone, Push(p, took, gone)
       PROVE  TableVouched(queue', settled') /\ PassVouched(pass'[p], queue', settled')
  <2>1. s.pc = "push" /\ s.pc \in Delivering
    BY <1>12 DEF Push, At, Delivering
  <2>2. pass'[p] = [s EXCEPT !.pc = "mail", !.tried = (devices # gone),
                             !.took = (took # {})]
    BY <1>12 DEF Push, Become, TypeInv, TypeOK
  <2>3. /\ pass'[p].pc = "mail" /\ pass'[p].batch = s.batch
        /\ pass'[p].mailed = s.mailed
        /\ pass'[p].tried = (devices # gone) /\ pass'[p].took = (took # {})
    BY <1>1, <2>2 DEF Pass
  <2>4. settled \subseteq settled' /\ queue' = queue
    BY <1>12 DEF Push
  <2>5. (pass'[p].tried => pass'[p].took) => <<key, "push">> \in settled'
    BY <1>12, <2>3 DEF Push
  <2>6. LegsVouched(pass'[p], key, settled')
    BY <1>4, <2>1, <2>3, <2>5 DEF LegsVouched
  <2> QED BY <1>10, <2>1, <2>3, <2>4, <2>6
<1>13. CASE MailNotNeeded(p)
  <2>1. s.pc = "mail" /\ s.pc \in Delivering
    BY <1>13 DEF MailNotNeeded, At, Delivering
  <2>2. pass'[p] = [s EXCEPT !.pc = "finish", !.mailed = Current(p).row.mailed]
    BY <1>13 DEF MailNotNeeded, Become, TypeInv, TypeOK
  <2>3. /\ pass'[p].pc = "finish" /\ pass'[p].batch = s.batch
        /\ pass'[p].mailed = Current(p).row.mailed
        /\ pass'[p].tried = s.tried /\ pass'[p].took = s.took
        /\ pass'[p].owed = s.owed
    BY <1>1, <2>2 DEF Pass
  <2>4. settled \subseteq settled' /\ queue' = queue
    BY <1>13 DEF MailNotNeeded, stored
  <2>5. <<key, "mail">> \in settled'
    BY <1>4, <1>13, <2>1, <2>4 DEF MailNotNeeded, MailVouched, CurrentKey
  <2>6. LegsVouched(pass'[p], key, settled')
    BY <1>4, <2>1, <2>3, <2>4, <2>5 DEF LegsVouched
  <2> QED BY <1>10, <2>1, <2>3, <2>4, <2>6
<1>14. CASE MailAccepted(p)
  <2>1. s.pc = "mail" /\ s.pc \in Delivering
    BY <1>14 DEF MailAccepted, At, Delivering
  <2>2. pass'[p] = [s EXCEPT !.pc = "record", !.mailed = TRUE]
    BY <1>14 DEF MailAccepted, Become, TypeInv, TypeOK
  <2>3. /\ pass'[p].pc = "record" /\ pass'[p].batch = s.batch
        /\ pass'[p].tried = s.tried /\ pass'[p].took = s.took
    BY <1>1, <2>2 DEF Pass
  <2>4. settled \subseteq settled' /\ queue' = queue
    BY <1>14 DEF MailAccepted, stored
  <2>5. <<key, "mail">> \in settled'
    BY <1>14 DEF MailAccepted
  <2>6. LegsVouched(pass'[p], key, settled')
    BY <1>4, <2>1, <2>3, <2>4, <2>5 DEF LegsVouched
  <2> QED BY <1>10, <2>1, <2>3, <2>4, <2>6
<1>15. CASE MailRefused(p)
  <2>1. s.pc = "mail" /\ s.pc \in Delivering
    BY <1>15 DEF MailRefused, At, Delivering
  <2>2. s.owed
    BY <1>15 DEF MailRefused
  <2>3. pass'[p] = [s EXCEPT !.pc = "finish"]
    BY <1>15 DEF MailRefused, Become, TypeInv, TypeOK
  <2>4. /\ pass'[p].pc = "finish" /\ pass'[p].batch = s.batch
        /\ pass'[p].tried = s.tried /\ pass'[p].took = s.took
        /\ pass'[p].owed = s.owed /\ pass'[p].mailed = s.mailed
    BY <1>1, <2>3 DEF Pass
  <2>5. LegsVouched(pass'[p], key, settled)
    BY <1>4, <2>1, <2>2, <2>4 DEF LegsVouched
  <2> QED BY <1>10, <1>15, <2>1, <2>4, <2>5 DEF MailRefused, stored
<1>16. CASE RecordMail(p)
  <2>1. s.pc = "record" /\ s.pc \in Delivering
    BY <1>16 DEF RecordMail, At, Delivering
  <2>2. <<key, "mail">> \in settled /\ settled' = settled
    BY <1>4, <1>16, <2>1 DEF LegsVouched, RecordMail
  <2>3. /\ TableVouched(queue', settled')
        /\ BatchVouched(s.batch, queue', settled')
    BY <1>1, <1>2, <1>4, <1>16, <2>1, <2>2, MarksVouched DEF RecordMail
  <2>4. pass'[p] = [s EXCEPT !.pc = "finish"]
    BY <1>16 DEF RecordMail, Become, TypeInv, TypeOK
  <2>5. /\ pass'[p].pc = "finish" /\ pass'[p].batch = s.batch
        /\ pass'[p].tried = s.tried /\ pass'[p].took = s.took
    BY <1>1, <2>4 DEF Pass
  <2>6. LegsVouched(pass'[p], key, settled')
    BY <1>4, <2>1, <2>2, <2>5 DEF LegsVouched
  <2> QED BY <2>3, <2>5, <2>6 DEF PassVouched, CurrentKey, Current
<1>17. CASE Deliver(p)
  <2>1. s.pc = "finish" /\ s.pc \in Delivering
    BY <1>17 DEF Deliver, At, Delivering
  <2>2. <<key, "push">> \in settled /\ <<key, "mail">> \in settled /\ settled' = settled
    BY <1>4, <1>17, <2>1 DEF LegsVouched, Deliver, Complete
  <2>3. /\ TableVouched(queue', settled')
        /\ BatchVouched(s.batch, queue', settled')
    BY <1>1, <1>2, <1>4, <1>17, <2>1, <2>2, MarksVouched DEF Deliver
  <2> QED BY <1>17, <2>3, AnswerVouched DEF Deliver
<1> QED BY <1>6, <1>7, <1>8, <1>9, <1>11, <1>12, <1>13, <1>14, <1>15, <1>16, <1>17
       DEF DeliverStep

(* While a pass is not delivering, only the table has to be vouched for. *)
LEMMA PlanVouched ==
    ASSUME TypeInv, SingleWriter, Vouched, NEW p \in Passes, PlanStep(p)
    PROVE  Vouched'
<1> DEFINE s == pass[p]
<1> USE DEF stored
<1>1. IsTable(queue) /\ s \in Pass /\ TableVouched(queue, settled)
  BY PassFit DEF TypeInv, TypeOK, Vouched
<1>2. SUFFICES TableVouched(queue', settled') /\ pass'[p].pc \notin Delivering
  BY DEF SingleWriter, Vouched, PassVouched
<1>3. ASSUME NEW state, Become(p, state), state.pc \notin Delivering
      PROVE  pass'[p].pc \notin Delivering
  BY <1>3 DEF Become, TypeInv, TypeOK
<1>4. settled' = settled
  BY DEF PlanStep, CatchUp, Tick, Start, Plan, Enqueue, PlanPartial, Reconcile,
         Drop, RecordHorizon
<1>5. CASE CatchUp(p) \/ Tick(p)
  <2>1. PICK from : Start(p, from)
    BY <1>5 DEF CatchUp, Tick
  <2>2. \A to : [Idle EXCEPT !.pc = "lock", !.from = from, !.to = to].pc = "lock"
    BY DEF Idle
  <2> QED BY <1>1, <1>3, <1>4, <2>1, <2>2 DEF Start, Delivering
<1>6. CASE Plan(p)
  <2>1. \A keys : [s EXCEPT !.pc = "enqueue", !.fresh = TRUE, !.todo = keys].pc = "enqueue"
    BY <1>1 DEF Pass
  <2> QED BY <1>1, <1>3, <1>4, <1>6, <2>1 DEF Plan, Delivering
<1>7. ASSUME NEW k, Enqueue(p, k)
      PROVE  TableVouched(queue', settled') /\ pass'[p].pc \notin Delivering
  <2>1. \A keys : [s EXCEPT !.todo = keys].pc = s.pc
    BY <1>1 DEF Pass
  <2>2. NewRow(k).mailed = FALSE /\ NewRow(k).sent = FALSE
    BY DEF NewRow
  <2>3. TableVouched(queue', settled')
    BY <1>1, <1>4, <1>7, <2>2
       DEF Enqueue, EnqueueNotification, Insert, TableVouched, MailVouched
  <2> QED BY <1>3, <1>7, <2>1, <2>3 DEF Enqueue, At, Delivering
<1>8. CASE PlanPartial(p) \/ RecordHorizon(p)
  <2>1. [Idle EXCEPT !.pc = "drain"].pc = "drain"
    BY DEF Idle
  <2> QED BY <1>1, <1>3, <1>4, <1>8, <2>1 DEF PlanPartial, RecordHorizon, EndPlan, Delivering
<1>9. CASE Reconcile(p)
  <2>1. \A ids : [s EXCEPT !.pc = "reconcile", !.drop = ids].pc = "reconcile"
    BY <1>1 DEF Pass
  <2> QED BY <1>1, <1>3, <1>4, <1>9, <2>1 DEF Reconcile, Delivering
<1>10. ASSUME NEW i, Drop(p, i)
       PROVE  TableVouched(queue', settled') /\ pass'[p].pc \notin Delivering
  <2>1. \A ids : [s EXCEPT !.drop = ids].pc = s.pc
    BY <1>1 DEF Pass
  <2>2. TableVouched(queue', settled')
    BY <1>1, <1>4, <1>10, StatementsShrink, ShrinkVouches DEF Drop
  <2> QED BY <1>3, <1>10, <2>1, <2>2 DEF Drop, At, Delivering
<1> QED BY <1>5, <1>6, <1>7, <1>8, <1>9, <1>10 DEF PlanStep

(* A row of the batch that an edit withdraws is simply no longer there. *)
LEMMA FamilyVouched ==
    ASSUME TypeInv, SingleWriter, Vouched, Family
    PROVE  Vouched'
<1>1. IsTable(queue)
  BY DEF TypeInv, TypeOK
<1>2. PICK r, b : \/ CreateEvent(r, b) \/ MoveEvent(r, b) \/ DeleteEvent(r)
                  \/ SetHeard(r, b) \/ PatchPrefs(r, b) \/ Subscribe(r)
  BY DEF Family, SingleWriter
<1>3. Edit /\ Shrinks(queue, queue')
  BY <1>1, <1>2, StatementsShrink
     DEF CreateEvent, MoveEvent, DeleteEvent, SetHeard, PatchPrefs, Subscribe
<1>4. settled' = settled
  BY <1>3 DEF Edit
<1>5. ASSUME NEW p \in Passes
      PROVE  PassVouched(pass'[p], queue', settled')
  <2>1. pass[p] \in Pass
    BY PassFit
  <2>2. pass'[p] = pass[p] \/ pass'[p].pc \notin Delivering
    BY <1>3, <2>1 DEF Edit, Pass, Planning, Delivering
  <2> QED BY <1>3, <1>4, <1>5, <2>2, ShrinkVouches DEF Vouched, PassVouched
<1> QED BY <1>3, <1>4, <1>5, ShrinkVouches DEF Vouched

(* A fault loses work and settles nothing. *)
LEMMA FaultVouched ==
    ASSUME TypeInv, SingleWriter, Vouched, NEW p \in Passes,
           PlanFails(p) \/ ReconcileFails(p) \/ DeliverFails(p)
    PROVE  Vouched'
<1> DEFINE s == pass[p]
<1> USE DEF stored
<1>1. s \in Pass /\ TableVouched(queue, settled) /\ PassVouched(s, queue, settled)
  BY PassFit DEF Vouched
<1>2. queue' = queue /\ settled' = settled
  BY DEF PlanFails, ReconcileFails, DeliverFails
<1>3. SUFFICES PassVouched(pass'[p], queue, settled)
  BY <1>1, <1>2 DEF SingleWriter, Vouched
<1>4. ASSUME NEW state, Become(p, state), PassVouched(state, queue, settled)
      PROVE  PassVouched(pass'[p], queue, settled)
  BY <1>4 DEF Become, TypeInv, TypeOK
<1>5. PassVouched(Idle, queue, settled)
      /\ PassVouched([Idle EXCEPT !.pc = "drain"], queue, settled)
  BY DEF PassVouched, Idle, Delivering
<1>6. CASE PlanFails(p)
  <2>1. \A keys : [s EXCEPT !.todo = keys, !.clean = FALSE].pc = s.pc
    BY <1>1 DEF Pass
  <2> QED BY <1>4, <1>6, <2>1 DEF PlanFails, At, PassVouched, Delivering
<1>7. CASE ReconcileFails(p)
  BY <1>4, <1>5, <1>7 DEF ReconcileFails, EndPlan
<1>8. CASE DeliverFails(p)
  <2>1. ASSUME NEW outcome, Answer(p, outcome), s.pc \in Delivering
        PROVE  PassVouched(pass'[p], queue, settled)
    BY <1>1, <1>2, <2>1, AnswerVouched DEF PassVouched
  <2>2. ASSUME s.pc = "record", Become(p, [s EXCEPT !.pc = "finish"])
        PROVE  PassVouched(pass'[p], queue, settled)
    <3> DEFINE t == [s EXCEPT !.pc = "finish"]
    <3>1. /\ t.pc = "finish" /\ t.batch = s.batch /\ t.tried = s.tried
          /\ t.took = s.took /\ t.owed = s.owed /\ t.mailed = s.mailed
      BY <1>1 DEF Pass
    <3> HIDE DEF t
    <3>2. PassVouched(t, queue, settled)
      BY <1>1, <2>2, <3>1 DEF PassVouched, LegsVouched, Delivering
    <3> QED BY <1>4, <2>2, <3>2 DEF t
  <2> QED BY <1>4, <1>5, <1>8, <2>1, <2>2 DEF DeliverFails, Delivering
<1> QED BY <1>6, <1>7, <1>8

LEMMA NextVouched ==
    ASSUME TypeInv, SingleWriter, Vouched, [Next]_vars
    PROVE  Vouched'
<1> USE DEF stored
<1>1. CASE Advance \/ UNCHANGED vars
  BY <1>1 DEF Advance, vars, Vouched
<1>2. CASE Boot \/ Crash
  <2>1. \A p \in Passes : pass'[p] = pass[p] \/ pass'[p].pc \notin Delivering
    BY <1>2 DEF Boot, Crash, Become, Idle, Delivering, TypeInv, TypeOK
  <2>2. queue' = queue /\ settled' = settled
    BY <1>2 DEF Boot, Crash
  <2> QED BY <2>1, <2>2 DEF Vouched, PassVouched
<1>3. CASE Family
  BY <1>3, FamilyVouched
<1>4. ASSUME NEW p \in Passes,
             PassStep(p) \/ PlanFails(p) \/ ReconcileFails(p) \/ DeliverFails(p)
      PROVE  Vouched'
  BY <1>4, PlanVouched, DeliverVouched, FaultVouched DEF PassStep
<1> QED BY <1>1, <1>2, <1>3, <1>4 DEF Next

(* With one pass at a time and no test button, nothing is on record as     *)
(* sent that some channel of its member has not settled, through every     *)
(* edit, crash, refusal and database error (Notifier.deliver). The two     *)
(* assumptions are needed: a second writer lets the number of the row that *)
(* is being delivered be handed out again.                                 *)
THEOREM SentIsSettled ==
    ASSUME SingleWriter
    PROVE  Spec => []SentMeansSettled
<1>1. Vouched => SentMeansSettled
  BY DEF Vouched, TableVouched, SentMeansSettled
<1>2. Init => TypeInv /\ Vouched
  BY InitType, InitVouched
<1>3. TypeInv /\ Vouched /\ [Next]_vars => TypeInv' /\ Vouched'
  BY NextType, NextVouched
<1> QED BY <1>1, <1>2, <1>3, PTL DEF Spec

-----------------------------------------------------------------------------
(* What a planning pass does to the outbox. *)

(* What a pass over [from, to] calls for, as the calendar stands. *)
CalledFor(from, to) == PlannedReminders(from, to) \cup PlannedDigests(from, to)

(* A row reconcile may not leave behind: one of its listing that would     *)
(* still be delivered, is the planner's and was not called for.            *)
Uncalled(row, from, to) ==
    /\ row.due \in from - Horizon .. to
    /\ ~Stale(row, now)
    /\ PlannerOwns(row.src)
    /\ KeyOf(row) \notin planned

(* What s.drop is worth by the time a row of it is deleted: the queue was  *)
(* listed before, and deliveries, edits and other rows came in between.    *)
Marked(s) ==
    /\ \A i \in s.drop : i \in DOMAIN queue =>
          /\ queue[i].due <= s.to
          /\ PlannerOwns(queue[i].src)
          /\ KeyOf(queue[i]) \notin planned
    /\ \A i \in LiveIds(queue) : Uncalled(queue[i], s.from, s.to) => i \in s.drop

(* What a pass relies on while the calendar is the one it read: what it    *)
(* has called for, with what it still has to, is the whole plan, and it is *)
(* filed.                                                                  *)
Sighted(s) ==
    /\ planned \cup s.todo \subseteq CalledFor(s.from, s.to)
    /\ s.clean => CalledFor(s.from, s.to) \subseteq planned \cup s.todo
    /\ planned \subseteq Keys(queue)
    /\ s.pc = "reconcile" => Marked(s)

PlanHeld(p, s) ==
    s.pc \in Planning =>
        /\ planMu = p
        /\ s.pc = "reconcile" => s.clean /\ s.todo = {}
        /\ s.fresh => Sighted(s)

Held == \A p \in Passes : PlanHeld(p, pass[p])

(* A step that leaves the plan of a pass alone: a delivery or the passing  *)
(* of time.                                                                *)
LEMMA OthersHold ==
    ASSUME TypeInv, TypeInv', NEW p \in Passes, NEW s \in Pass, PlanHeld(p, s),
           s.pc \in Planning => planMu' = planMu /\ planned' = planned,
           appt' = appt, prefs' = prefs, now <= now', Settles(queue, queue')
    PROVE  PlanHeld(p, s)'
<1>. SUFFICES ASSUME s.pc \in Planning, s.fresh PROVE Sighted(s)'
  BY DEF PlanHeld
<1>1. planned' = planned /\ Sighted(s)
  BY DEF PlanHeld
<1>2. CalledFor(s.from, s.to)' = CalledFor(s.from, s.to)
  BY DEF CalledFor, PlannedReminders, PlannedDigests
<1>3. Keys(queue') = Keys(queue)
  BY DEF Settles, Keys, KeyOf
<1>4. ASSUME Marked(s) PROVE Marked(s)'
  <2>1. \A i \in DOMAIN queue : KeyOf(queue'[i]) = KeyOf(queue[i])
    BY DEF Settles, KeyOf
  <2>2. ASSUME NEW i \in LiveIds(queue')
        PROVE  /\ i \in LiveIds(queue)
               /\ Uncalled(queue[i], s.from, s.to)' => Uncalled(queue[i], s.from, s.to)
    <3>1. i \in LiveIds(queue) /\ i \in DOMAIN queue /\ i \in DOMAIN queue'
      BY DEF Settles, LiveIds
    <3>2. queue[i] \in Row /\ queue'[i] \in Row /\ now \in Nat /\ now' \in Nat
      BY <3>1 DEF TypeInv, TypeOK, IsTable
    <3>3. queue'[i].src = queue[i].src /\ queue'[i].due = queue[i].due
      BY <3>1 DEF Settles
    <3>4. Stale(queue[i], now) => Stale(queue'[i], now')
      BY <3>2, <3>3, StaleStays
    <3> QED BY <1>1, <2>1, <3>1, <3>3, <3>4 DEF Uncalled
  <2>3. \A i \in s.drop : i \in DOMAIN queue' =>
          /\ queue'[i].due <= s.to
          /\ PlannerOwns(queue'[i].src)
          /\ KeyOf(queue'[i]) \notin planned'
    BY <1>1, <1>4, <2>1 DEF Marked, Settles
  <2> QED BY <1>4, <2>2, <2>3 DEF Marked
<1> QED BY <1>1, <1>2, <1>3, <1>4 DEF Sighted

(* Delivering plans nothing, and settles rows. *)
LEMMA DeliveryHolds ==
    ASSUME TypeInv, NEW p \in Passes, DeliverStep(p) \/ DeliverFails(p)
    PROVE  /\ pass[p].pc \notin Planning /\ pass'[p].pc \notin Planning
           /\ \A q \in Passes \ {p} : pass'[q] = pass[q]
           /\ UNCHANGED <<planMu, planned, appt, prefs, now>>
           /\ Settles(queue, queue')
<1> DEFINE s == pass[p]
<1> USE DEF stored
<1>1. s \in Pass /\ IsTable(queue)
  BY PassFit DEF TypeInv, TypeOK
<1>2. Settles(queue, queue)
  BY DEF Settles
<1>3. ASSUME NEW state, Become(p, state), state.pc \notin Planning
      PROVE  pass'[p].pc \notin Planning /\ \A q \in Passes \ {p} : pass'[q] = pass[q]
  BY <1>3 DEF Become, TypeInv, TypeOK
<1>4. ASSUME NEW outcome, Answer(p, outcome)
      PROVE  pass'[p].pc \notin Planning /\ \A q \in Passes \ {p} : pass'[q] = pass[q]
  <2>1. NextRow(p, outcome).pc \notin Planning
    BY DEF NextRow, Idle, Planning
  <2> QED BY <1>3, <1>4, <2>1 DEF Answer
<1>5. CASE Drain(p)
  <2> DEFINE due  == DueNotifications(queue, now, DrainBatch)
             full == Cardinality(due) = DrainBatch
  <2>1. \/ Become(p, Idle)
        \/ Become(p, [Idle EXCEPT !.pc = "judge", !.batch = due,
                          !.rounds = s.rounds, !.full = full])
    BY <1>5 DEF Drain
  <2> HIDE DEF due, full
  <2>2. /\ Idle.pc \notin Planning
        /\ [Idle EXCEPT !.pc = "judge", !.batch = due,
                          !.rounds = s.rounds, !.full = full].pc \notin Planning
    BY DEF Idle, Planning
  <2> QED BY <1>2, <1>3, <1>5, <2>1, <2>2 DEF Drain, At, Planning
<1>6. CASE SkipStale(p) \/ SkipEmpty(p)
  BY <1>1, <1>4, <1>6, StatementsSettle DEF SkipStale, SkipEmpty, At, Planning
<1>7. CASE DeferBackingOff(p) \/ DeferIncomplete(p)
  BY <1>2, <1>4, <1>7 DEF DeferBackingOff, DeferIncomplete, At, Planning
<1>8. CASE Attempt(p)
  <2>1. [s EXCEPT !.pc = "recipient"].pc = "recipient"
    BY <1>1 DEF Pass
  <2> QED BY <1>1, <1>3, <1>4, <1>8, <2>1, StatementsSettle DEF Attempt, At, Planning
<1>9. CASE ReadRecipient(p)
  <2>1. [s EXCEPT !.pc = "push", !.owed = prefs.email].pc = "push"
    BY <1>1 DEF Pass
  <2> QED BY <1>2, <1>3, <1>9, <2>1 DEF ReadRecipient, At, Planning
<1>10. ASSUME NEW took, NEW gone, Push(p, took, gone)
       PROVE  /\ pass[p].pc \notin Planning /\ pass'[p].pc \notin Planning
              /\ \A q \in Passes \ {p} : pass'[q] = pass[q]
              /\ UNCHANGED <<planMu, planned, appt, prefs, now>>
              /\ Settles(queue, queue')
  <2>1. \A a, b : [s EXCEPT !.pc = "mail", !.tried = a, !.took = b].pc = "mail"
    BY <1>1 DEF Pass
  <2>2. Become(p, [s EXCEPT !.pc = "mail", !.tried = (devices # gone), !.took = (took # {})])
    BY <1>10 DEF Push
  <2> QED BY <1>2, <1>3, <1>10, <2>1, <2>2 DEF Push, At, Planning
<1>11. CASE MailNotNeeded(p) \/ MailAccepted(p) \/ MailRefused(p)
  <2>1. \A a : /\ [s EXCEPT !.pc = "finish", !.mailed = a].pc = "finish"
               /\ [s EXCEPT !.pc = "record", !.mailed = a].pc = "record"
               /\ [s EXCEPT !.pc = "finish"].pc = "finish"
    BY <1>1 DEF Pass
  <2> QED BY <1>2, <1>3, <1>11, <2>1 DEF MailNotNeeded, MailAccepted, MailRefused, At, Planning
<1>12. CASE RecordMail(p)
  <2>1. [s EXCEPT !.pc = "finish"].pc = "finish"
    BY <1>1 DEF Pass
  <2> QED BY <1>1, <1>3, <1>12, <2>1, StatementsSettle DEF RecordMail, At, Planning
<1>13. CASE Deliver(p)
  BY <1>1, <1>4, <1>13, StatementsSettle DEF Deliver, At, Planning
<1>14. CASE DeliverFails(p)
  <2>1. [s EXCEPT !.pc = "finish"].pc = "finish" /\ Idle.pc = "idle"
    BY <1>1 DEF Pass, Idle
  <2>2. \/ s.pc \in {"recipient", "push", "judge", "finish"} /\ \E o : Answer(p, o)
        \/ s.pc = "record" /\ Become(p, [s EXCEPT !.pc = "finish"])
        \/ s.pc \in {"boot", "drain"} /\ Become(p, Idle)
    BY <1>14 DEF DeliverFails
  <2> QED BY <1>2, <1>3, <1>4, <1>14, <2>1, <2>2 DEF DeliverFails, Planning
<1> QED BY <1>5, <1>6, <1>7, <1>8, <1>9, <1>10, <1>11, <1>12, <1>13, <1>14 DEF DeliverStep

(* planMu: while a pass plans, no other one does, so no row appears that   *)
(* it has not called for and none goes that it has not marked.             *)
LEMMA OtherPass ==
    ASSUME TypeInv, Held, NEW p \in Passes, NEW q \in Passes, p # q,
           \/ PlanStep(q) \/ DeliverStep(q)
           \/ PlanFails(q) \/ ReconcileFails(q) \/ DeliverFails(q)
    PROVE  /\ pass'[p] = pass[p]
           /\ appt' = appt /\ prefs' = prefs /\ now' = now
           /\ pass[p].pc \in Planning =>
                 planMu' = planMu /\ planned' = planned /\ Settles(queue, queue')
<1> USE DEF stored
<1>1. CASE DeliverStep(q) \/ DeliverFails(q)
  BY <1>1, DeliveryHolds
<1>2. ASSUME NEW state, Become(q, state) PROVE pass'[p] = pass[p]
  BY <1>2 DEF Become, TypeInv, TypeOK
<1>3. pass[p].pc \in Planning /\ pass[q].pc \in Planning => FALSE
  BY DEF Held, PlanHeld
<1>4. pass[p].pc \in Planning => planMu # Nobody
  BY NotifierConstants DEF Held, PlanHeld
<1>5. Settles(queue, queue)
  BY DEF Settles
<1>6. CASE CatchUp(q) \/ Tick(q)
  BY <1>2, <1>5, <1>6 DEF CatchUp, Tick, Start
<1>7. CASE Plan(q)
  BY <1>2, <1>4, <1>7 DEF Plan
<1>8. ASSUME NEW k, Enqueue(q, k)
      PROVE  pass[p].pc \notin Planning /\ pass'[p] = pass[p]
             /\ appt' = appt /\ prefs' = prefs /\ now' = now
  BY <1>2, <1>3, <1>8 DEF Enqueue, At, Planning
<1>9. ASSUME NEW i, Drop(q, i)
      PROVE  pass[p].pc \notin Planning /\ pass'[p] = pass[p]
             /\ appt' = appt /\ prefs' = prefs /\ now' = now
  BY <1>2, <1>3, <1>9 DEF Drop, At, Planning
<1>10. CASE PlanPartial(q) \/ Reconcile(q) \/ RecordHorizon(q) \/ ReconcileFails(q)
  BY <1>2, <1>3, <1>10
     DEF PlanPartial, Reconcile, RecordHorizon, ReconcileFails, EndPlan, At, Planning
<1>11. CASE PlanFails(q)
  <2>1. pass[q].pc \in Planning
    BY <1>11 DEF PlanFails, At, Planning
  <2> QED BY <1>2, <1>3, <1>11, <2>1 DEF PlanFails
<1> QED BY <1>1, <1>6, <1>7, <1>8, <1>9, <1>10, <1>11 DEF PlanStep

LEMMA OwnPass ==
    ASSUME TypeInv, Held, NEW p \in Passes,
           PlanStep(p) \/ PlanFails(p) \/ ReconcileFails(p)
    PROVE  PlanHeld(p, pass[p])'
<1> DEFINE s == pass[p]
<1> USE DEF stored
<1>1. s \in Pass /\ IsTable(queue) /\ PlanHeld(p, s)
  BY PassFit DEF TypeInv, TypeOK, Held
<1>2. ASSUME NEW state, Become(p, state) PROVE pass'[p] = state
  BY <1>2 DEF Become, TypeInv, TypeOK
<1>3. ASSUME appt' = appt, prefs' = prefs,
             pass'[p].from = s.from, pass'[p].to = s.to
      PROVE  CalledFor(pass[p].from, pass[p].to)' = CalledFor(s.from, s.to)
  BY <1>3 DEF CalledFor, PlannedReminders, PlannedDigests
<1>4. CASE CatchUp(p) \/ Tick(p)
  <2>1. PICK from : Start(p, from)
    BY <1>4 DEF CatchUp, Tick
  <2>2. \A to : [Idle EXCEPT !.pc = "lock", !.from = from, !.to = to].pc = "lock"
    BY DEF Idle
  <2> QED BY <1>2, <2>1, <2>2 DEF Start, PlanHeld, Planning
<1>5. CASE Plan(p)
  <2> DEFINE want == CalledFor(s.from, s.to)
  <2>1. pass'[p] = [s EXCEPT !.pc = "enqueue", !.fresh = TRUE, !.todo = want]
    BY <1>2, <1>5 DEF Plan, CalledFor
  <2>2. planMu' = p /\ planned' = {}
    BY <1>5 DEF Plan
  <2> HIDE DEF want
  <2>3. /\ pass'[p].pc = "enqueue" /\ pass'[p].todo = want
        /\ pass'[p].from = s.from /\ pass'[p].to = s.to
    BY <1>1, <2>1 DEF Pass
  <2>4. CalledFor(pass[p].from, pass[p].to)' = want
    BY <1>3, <1>5, <2>3 DEF want, Plan
  <2> QED BY <2>2, <2>3, <2>4 DEF PlanHeld, Sighted
<1>6. ASSUME NEW k \in s.todo, Enqueue(p, k)
      PROVE  PlanHeld(p, pass[p])'
  <2>1. s.pc = "enqueue" /\ pass'[p] = [s EXCEPT !.todo = s.todo \ {k}]
    BY <1>2, <1>6 DEF Enqueue, At
  <2>2. /\ pass'[p].pc = "enqueue" /\ pass'[p].todo = s.todo \ {k}
        /\ pass'[p].from = s.from /\ pass'[p].to = s.to
        /\ pass'[p].clean = s.clean /\ pass'[p].fresh = s.fresh
    BY <1>1, <2>1 DEF Pass
  <2>3. planMu' = planMu /\ planned' = planned \cup {k}
    BY <1>6 DEF Enqueue
  <2>4. CalledFor(pass[p].from, pass[p].to)' = CalledFor(s.from, s.to)
    BY <1>3, <1>6, <2>2 DEF Enqueue
  <2>5. Keys(queue') = Keys(queue) \cup {k}
    <3>1. k \in Key /\ EnqueueNotification(queue, k, queue')
      BY <1>1, <1>6 DEF Enqueue, Pass
    <3> QED BY <1>1, <3>1, EnqueueFiles
  <2>6. planMu = p /\ (s.fresh => Sighted(s))
    BY <1>1, <2>1 DEF PlanHeld, Planning
  <2>7. ASSUME s.fresh PROVE Sighted(pass[p])'
    BY <2>2, <2>3, <2>4, <2>5, <2>6, <2>7 DEF Sighted
  <2> QED BY <2>2, <2>3, <2>6, <2>7 DEF PlanHeld
<1>7. CASE PlanFails(p)
  <2>1. PICK left \in SUBSET s.todo :
            pass'[p] = [s EXCEPT !.todo = left, !.clean = FALSE]
    BY <1>2, <1>7 DEF PlanFails
  <2>2. /\ pass'[p].pc = s.pc /\ pass'[p].todo = left
        /\ pass'[p].from = s.from /\ pass'[p].to = s.to
        /\ pass'[p].clean = FALSE /\ pass'[p].fresh = s.fresh
    BY <1>1, <2>1 DEF Pass
  <2>3. s.pc = "enqueue" /\ planMu' = planMu /\ planned' = planned /\ queue' = queue
    BY <1>7 DEF PlanFails, At
  <2>4. CalledFor(pass[p].from, pass[p].to)' = CalledFor(s.from, s.to)
    BY <1>3, <1>7, <2>2 DEF PlanFails
  <2>5. planMu = p /\ (s.fresh => Sighted(s))
    BY <1>1, <2>3 DEF PlanHeld, Planning
  <2>6. ASSUME s.fresh PROVE Sighted(pass[p])'
    BY <2>2, <2>3, <2>4, <2>5, <2>6 DEF Sighted
  <2> QED BY <2>2, <2>3, <2>5, <2>6 DEF PlanHeld
<1>8. CASE PlanPartial(p) \/ RecordHorizon(p) \/ ReconcileFails(p)
  <2>1. pass'[p] = [Idle EXCEPT !.pc = "drain"]
    BY <1>2, <1>8 DEF PlanPartial, RecordHorizon, ReconcileFails, EndPlan
  <2>2. pass'[p].pc = "drain"
    BY <2>1 DEF Idle
  <2> QED BY <2>2 DEF PlanHeld, Planning
<1>9. CASE Reconcile(p)
  <2> DEFINE ids == Unplanned(s.from, s.to)
  <2>1. pass'[p] = [s EXCEPT !.pc = "reconcile", !.drop = ids]
    BY <1>2, <1>9 DEF Reconcile
  <2>2. /\ pass'[p].pc = "reconcile" /\ pass'[p].drop = ids
        /\ pass'[p].todo = s.todo
        /\ pass'[p].from = s.from /\ pass'[p].to = s.to
        /\ pass'[p].clean = s.clean /\ pass'[p].fresh = s.fresh
    <3> HIDE DEF ids
    <3> QED BY <1>1, <2>1 DEF Pass
  <2>3. /\ s.pc = "enqueue" /\ s.todo = {} /\ s.clean
        /\ planMu' = planMu /\ planned' = planned /\ queue' = queue /\ now' = now
    BY <1>9 DEF Reconcile, At
  <2>4. CalledFor(pass[p].from, pass[p].to)' = CalledFor(s.from, s.to)
    BY <1>3, <1>9, <2>2 DEF Reconcile
  <2>5. planMu = p /\ (s.fresh => Sighted(s))
    BY <1>1, <2>3 DEF PlanHeld, Planning
  <2>6. \A i \in ids : /\ queue[i].due <= s.to
                       /\ PlannerOwns(queue[i].src)
                       /\ KeyOf(queue[i]) \notin planned
    BY DEF Unplanned, ListUnsent
  <2>7. \A i \in LiveIds(queue) : Uncalled(queue[i], s.from, s.to) => i \in ids
    <3> SUFFICES ASSUME NEW i \in LiveIds(queue), Uncalled(queue[i], s.from, s.to)
                 PROVE  i \in ids
      OBVIOUS
    <3>1. queue[i].due \in Nat /\ s.from - Horizon \in Int /\ s.to \in Int
      BY <1>1, NotifierConstants DEF LiveIds, IsTable, Row, Pass
    <3>2. i \in ListUnsent(queue, s.from - Horizon, s.to)
      BY <3>1 DEF ListUnsent, Uncalled
    <3> QED BY <3>2 DEF Unplanned, Uncalled
  <2>8. Marked(pass[p])'
    <3> HIDE DEF ids
    <3> QED BY <2>2, <2>3, <2>6, <2>7 DEF Marked, Uncalled
  <2>9. ASSUME s.fresh PROVE Sighted(pass[p])'
    BY <2>2, <2>3, <2>4, <2>5, <2>8, <2>9 DEF Sighted
  <2> QED BY <2>2, <2>3, <2>5, <2>9 DEF PlanHeld
<1>10. ASSUME NEW i \in s.drop, Drop(p, i)
       PROVE  PlanHeld(p, pass[p])'
  <2>1. s.pc = "reconcile" /\ pass'[p] = [s EXCEPT !.drop = s.drop \ {i}]
    BY <1>2, <1>10 DEF Drop, At
  <2>2. /\ pass'[p].pc = "reconcile" /\ pass'[p].drop = s.drop \ {i}
        /\ pass'[p].todo = s.todo
        /\ pass'[p].from = s.from /\ pass'[p].to = s.to
        /\ pass'[p].clean = s.clean /\ pass'[p].fresh = s.fresh
    BY <1>1, <2>1 DEF Pass
  <2>3. planMu' = planMu /\ planned' = planned /\ now' = now
    BY <1>10 DEF Drop
  <2>4. CalledFor(pass[p].from, pass[p].to)' = CalledFor(s.from, s.to)
    BY <1>3, <1>10, <2>2 DEF Drop
  <2>5. planMu = p /\ s.clean /\ s.todo = {} /\ (s.fresh => Sighted(s))
    BY <1>1, <2>1 DEF PlanHeld, Planning
  <2>6. /\ \A j \in DOMAIN queue' : j \in DOMAIN queue /\ queue'[j] = queue[j]
        /\ \A j \in DOMAIN queue : j # i => j \in DOMAIN queue'
        /\ i \in DOMAIN queue' => queue[i].sent
    BY <1>10 DEF Drop, DeleteQueued, Without
  <2>7. ASSUME s.fresh PROVE Sighted(pass[p])'
    <3>1. Marked(s) /\ planned \subseteq Keys(queue)
      BY <2>1, <2>5, <2>7 DEF Sighted
    <3>2. planned \subseteq Keys(queue')
      <4> SUFFICES ASSUME NEW k \in planned PROVE k \in Keys(queue')
        OBVIOUS
      <4>1. PICK j \in DOMAIN queue : k = KeyOf(queue[j])
        BY <3>1 DEF Keys
      <4>2. j # i
        BY <1>10, <3>1, <4>1 DEF Marked
      <4> QED BY <2>6, <4>1, <4>2 DEF Keys
    <3>3. \A j \in LiveIds(queue') : j \in LiveIds(queue) /\ queue'[j] = queue[j] /\ j # i
      BY <2>6 DEF LiveIds, Retired
    <3>4. Marked(pass[p])'
      <4>1. \A j \in pass'[p].drop : j \in DOMAIN queue' =>
              /\ queue'[j].due <= pass'[p].to
              /\ PlannerOwns(queue'[j].src)
              /\ KeyOf(queue'[j]) \notin planned'
        BY <2>2, <2>3, <2>6, <3>1 DEF Marked
      <4>2. ASSUME NEW j \in LiveIds(queue'), Uncalled(queue[j], pass[p].from, pass[p].to)'
            PROVE  j \in pass'[p].drop
        <5>1. Uncalled(queue[j], s.from, s.to)
          BY <2>2, <2>3, <3>3, <4>2 DEF Uncalled
        <5> QED BY <2>2, <3>1, <3>3, <4>2, <5>1 DEF Marked
      <4> QED BY <4>1, <4>2 DEF Marked
    <3> QED BY <2>2, <2>3, <2>4, <2>5, <2>7, <3>2, <3>4 DEF Sighted
  <2> QED BY <2>2, <2>3, <2>5, <2>7 DEF PlanHeld
<1> QED BY <1>4, <1>5, <1>6, <1>7, <1>8, <1>9, <1>10 DEF PlanStep

LEMMA InitHeld == Init => Held
BY DEF Init, Held, PlanHeld, Idle, Planning

(* An edit makes what a pass has read out of date, and leaves it its lock. *)
LEMMA EditHeld ==
    ASSUME TypeInv, Held, Edit
    PROVE  Held'
<1> SUFFICES ASSUME NEW p \in Passes PROVE PlanHeld(p, pass[p])'
  BY DEF Held
<1>1. pass[p] \in Pass /\ PlanHeld(p, pass[p]) /\ planMu' = planMu
  BY PassFit DEF Held, Edit
<1>2. CASE pass[p].pc \in Planning
  <2>1. pass'[p] = [pass[p] EXCEPT !.fresh = FALSE]
    BY <1>2 DEF Edit
  <2>2. /\ pass'[p].pc = pass[p].pc /\ pass'[p].clean = pass[p].clean
        /\ pass'[p].todo = pass[p].todo /\ pass'[p].fresh = FALSE
    BY <1>1, <2>1 DEF Pass
  <2> QED BY <1>1, <1>2, <2>2 DEF PlanHeld
<1>3. CASE pass[p].pc \notin Planning
  BY <1>3 DEF Edit, PlanHeld
<1> QED BY <1>2, <1>3

LEMMA NextHeld ==
    ASSUME TypeInv, TypeInv', Held, [Next]_vars
    PROVE  Held'
<1> USE DEF stored
<1>1. ASSUME NEW p \in Passes, pass'[p] = pass[p], appt' = appt, prefs' = prefs,
             now \leq now',
             pass[p].pc \in Planning =>
                planMu' = planMu /\ planned' = planned /\ Settles(queue, queue')
      PROVE  PlanHeld(p, pass[p])'
  <2>1. CASE pass[p].pc \notin Planning
    BY <1>1, <2>1 DEF PlanHeld
  <2>2. CASE pass[p].pc \in Planning
    <3>1. PICK s \in Pass : s = pass[p]
      BY PassFit
    <3>2. PlanHeld(p, s)
      BY <3>1 DEF Held
    <3>3. PlanHeld(p, s)'
      BY <1>1, <2>2, <3>1, <3>2, OthersHold
    <3>4. s = pass'[p]
      BY <1>1, <3>1
    <3> QED BY <3>3, <3>4 DEF PlanHeld, Sighted, Marked, CalledFor, Uncalled
  <2> QED BY <2>1, <2>2
<1>2. Settles(queue, queue) /\ now \leq now /\ now \in Nat
  BY DEF Settles, TypeInv, TypeOK
<1>3. CASE Advance
  <2>1. now \leq now'
    BY <1>2, <1>3 DEF Advance
  <2> QED BY <1>1, <1>2, <1>3, <2>1 DEF Advance, Held
<1>4. CASE UNCHANGED vars
  BY <1>1, <1>2, <1>4 DEF vars, Held
<1>5. CASE Boot
  <2> SUFFICES ASSUME NEW p \in Passes PROVE PlanHeld(p, pass[p])'
    BY DEF Held
  <2>1. pass'[p] = pass[p] \/ pass'[p] = [Idle EXCEPT !.pc = "boot"]
    BY <1>5 DEF Boot, Become, TypeInv, TypeOK
  <2>2. [Idle EXCEPT !.pc = "boot"].pc = "boot"
    BY DEF Idle
  <2>3. CASE pass'[p] = pass[p]
    BY <1>1, <1>2, <1>5, <2>3 DEF Boot
  <2>4. CASE pass'[p] = [Idle EXCEPT !.pc = "boot"]
    BY <2>2, <2>4 DEF PlanHeld, Planning
  <2> QED BY <2>1, <2>3, <2>4
<1>6. CASE Crash
  BY <1>6 DEF Crash, Held, PlanHeld, Idle, Planning
<1>7. CASE Family
  BY <1>7, EditHeld DEF Family, CreateEvent, MoveEvent, DeleteEvent, SetHeard,
                        PatchPrefs, Subscribe, PressTest
<1>8. ASSUME NEW q \in Passes, \/ PlanStep(q) \/ DeliverStep(q)
             \/ PlanFails(q) \/ ReconcileFails(q) \/ DeliverFails(q)
      PROVE  Held'
  <2> SUFFICES ASSUME NEW p \in Passes PROVE PlanHeld(p, pass[p])'
    BY DEF Held
  <2>1. CASE p # q
    BY <1>1, <1>2, <1>8, <2>1, OtherPass
  <2>2. CASE p = q /\ (PlanStep(q) \/ PlanFails(q) \/ ReconcileFails(q))
    BY <2>2, OwnPass
  <2>3. CASE p = q /\ (DeliverStep(q) \/ DeliverFails(q))
    <3>1. pass'[p].pc \notin Planning
      BY <2>3, DeliveryHolds
    <3> QED BY <3>1 DEF PlanHeld
  <2> QED BY <1>8, <2>1, <2>2, <2>3
<1> QED BY <1>3, <1>4, <1>5, <1>6, <1>7, <1>8 DEF Next, PassStep

LEMMA AlwaysHeld == Spec => [](TypeInv /\ Held)
<1>1. Init => TypeInv /\ Held
  BY InitType, InitHeld
<1>2. TypeInv /\ Held /\ [Next]_vars => TypeInv' /\ Held'
  BY NextType, NextHeld
<1> QED BY <1>1, <1>2, PTL DEF Spec

(* What the family wants up to a horizon is what a pass up to that horizon *)
(* calls for. The two are written from different ends: Wanted from a row,  *)
(* the plan from the calendar.                                             *)
LEMMA WantedIsCalled ==
    ASSUME TypeInv, NEW from \in Nat, NEW to \in Nat
    PROVE  /\ \A k \in CalledFor(from, to) : Wanted(k, from)
           /\ \A k \in Key : /\ k.src \notin Tests /\ k.due <= to
                             /\ Wanted(k, from)
                             => k \in CalledFor(from, to)
<1>1. ASSUME NEW k \in CalledFor(from, to) PROVE Wanted(k, from)
  <2>1. CASE k \in PlannedReminders(from, to)
    BY <2>1 DEF PlannedReminders, Wanted
  <2>2. CASE k \in PlannedDigests(from, to)
    <3>1. k.src \in Digests /\ k.src \notin Reminders
      BY <2>2, OutboxConstants DEF PlannedDigests
    <3> QED BY <2>2, <3>1 DEF PlannedDigests, Wanted
  <2> QED BY <1>1, <2>1, <2>2 DEF CalledFor
<1>2. ASSUME NEW k \in Key, k.src \notin Tests, k.due <= to, Wanted(k, from)
      PROVE  k \in CalledFor(from, to)
  <2>1. k = [src |-> k.src, due |-> k.due] /\ k.src \in Reminders \cup Digests
    BY <1>2 DEF Key, Sources
  <2>2. CASE k.src \in Reminders
    <3>1. k = [src |-> k.src, due |-> appt[k.src].due]
      BY <1>2, <2>1, <2>2 DEF Wanted
    <3> QED BY <1>2, <2>2, <3>1 DEF Wanted, CalledFor, PlannedReminders
  <2>3. CASE k.src \notin Reminders
    <3>1. k = [src |-> k.src, due |-> DigestSlot[k.src]]
      BY <1>2, <2>1, <2>3 DEF Wanted
    <3> QED BY <1>2, <2>1, <2>3, <3>1 DEF Wanted, CalledFor, PlannedDigests
  <2> QED BY <2>2, <2>3
<1> QED BY <1>1, <1>2

DropSpares ==
    \A p \in Passes : \A i \in pass[p].drop :
        Drop(p, i) /\ pass[p].fresh /\ i \in DOMAIN queue
            => /\ queue[i].src \notin Tests
               /\ ~Wanted(KeyOf(queue[i]), pass[p].from)

(* While nobody changes anything, what reconcile deletes is neither wanted *)
(* nor a test notification, whatever is delivered, filed by other passes   *)
(* or handed the number of a deleted row since it listed the queue.        *)
THEOREM DropSparesTheWanted == Spec => AheadSurvives
<1>1. ASSUME TypeInv, Held, [Next]_vars PROVE DropSpares
  <2> SUFFICES ASSUME NEW p \in Passes, NEW i \in pass[p].drop, Drop(p, i),
                      pass[p].fresh, i \in DOMAIN queue
               PROVE  /\ queue[i].src \notin Tests
                      /\ ~Wanted(KeyOf(queue[i]), pass[p].from)
    BY DEF DropSpares
  <2>1. pass[p] \in Pass /\ queue[i] \in Row
    BY <1>1, PassFit DEF TypeInv, TypeOK, IsTable
  <2>2. pass[p].pc = "reconcile"
    BY DEF Drop, At
  <2>3. pass[p].clean /\ pass[p].todo = {} /\ Sighted(pass[p])
    BY <1>1, <2>2 DEF Held, PlanHeld, Planning
  <2>4. /\ queue[i].due <= pass[p].to
        /\ PlannerOwns(queue[i].src)
        /\ KeyOf(queue[i]) \notin planned
    BY <2>2, <2>3 DEF Sighted, Marked
  <2>5. KeyOf(queue[i]) \notin CalledFor(pass[p].from, pass[p].to)
    BY <2>3, <2>4 DEF Sighted
  <2>6. /\ KeyOf(queue[i]) \in Key
        /\ KeyOf(queue[i]).src = queue[i].src /\ KeyOf(queue[i]).due = queue[i].due
        /\ pass[p].from \in Nat /\ pass[p].to \in Nat
    BY <2>1 DEF KeyOf, Row, Key, Pass
  <2> QED BY <1>1, <2>4, <2>5, <2>6, WantedIsCalled DEF PlannerOwns
<1>2. TypeInv /\ Held /\ [Next]_vars => [DropSpares]_vars
  BY <1>1
<1>3. AheadSurvives <=> [][DropSpares]_vars
  BY DEF AheadSurvives, DropSpares
<1> QED BY <1>2, <1>3, AlwaysHeld, PTL DEF Spec

RecordIsExact ==
    \A p \in Passes :
        RecordHorizon(p) /\ pass[p].fresh =>
            LET from == pass[p].from
                to   == pass[p].to
            IN  /\ \A k \in Wishes : Wanted(k, from) /\ k.due <= to => k \in Keys(queue)
                /\ \A i \in LiveIds(queue) :
                      /\ queue[i].due \in from - Horizon .. to
                      /\ ~Stale(queue[i], now)
                      /\ queue[i].src \notin Tests
                      => Wanted(KeyOf(queue[i]), from)

(* A pass nobody has overtaken with a change records its horizon over an   *)
(* outbox that is exact: with any number of passes, deliveries and errors  *)
(* in between, nothing wanted is missing and nothing unwanted is waiting.  *)
THEOREM HorizonIsExact == Spec => PassIsExact
<1>1. ASSUME TypeInv, Held, [Next]_vars PROVE RecordIsExact
  <2> SUFFICES ASSUME NEW p \in Passes, RecordHorizon(p), pass[p].fresh
               PROVE  /\ \A k \in Wishes :
                            Wanted(k, pass[p].from) /\ k.due <= pass[p].to
                                => k \in Keys(queue)
                      /\ \A i \in LiveIds(queue) :
                            /\ queue[i].due \in pass[p].from - Horizon .. pass[p].to
                            /\ ~Stale(queue[i], now)
                            /\ queue[i].src \notin Tests
                            => Wanted(KeyOf(queue[i]), pass[p].from)
    BY DEF RecordIsExact
  <2>1. /\ pass[p].pc = "reconcile" /\ pass[p].drop = {}
        /\ pass[p].from \in Nat /\ pass[p].to \in Nat
    BY <1>1, PassFit DEF RecordHorizon, At, Pass
  <2>2. pass[p].clean /\ pass[p].todo = {} /\ Sighted(pass[p])
    BY <1>1, <2>1 DEF Held, PlanHeld, Planning
  <2>3. planned = CalledFor(pass[p].from, pass[p].to) /\ planned \subseteq Keys(queue)
    BY <2>2 DEF Sighted
  <2>4. ASSUME NEW k \in Wishes, Wanted(k, pass[p].from), k.due <= pass[p].to
        PROVE  k \in Keys(queue)
    <3>1. k \in Key /\ k.src \notin Tests
      BY NotifierConstants, OutboxConstants DEF Wishes, Key, Sources
    <3> QED BY <1>1, <2>1, <2>3, <2>4, <3>1, WantedIsCalled
  <2>5. ASSUME NEW i \in LiveIds(queue),
               queue[i].due \in pass[p].from - Horizon .. pass[p].to,
               ~Stale(queue[i], now), queue[i].src \notin Tests
        PROVE  Wanted(KeyOf(queue[i]), pass[p].from)
    <3>1. KeyOf(queue[i]) \in planned
      BY <2>1, <2>2, <2>5 DEF Sighted, Marked, Uncalled, PlannerOwns
    <3> QED BY <1>1, <2>1, <2>3, <3>1, WantedIsCalled
  <2> QED BY <2>4, <2>5
<1>2. TypeInv /\ Held /\ [Next]_vars => [RecordIsExact]_vars
  BY <1>1
<1>3. PassIsExact <=> [][RecordIsExact]_vars
  BY DEF PassIsExact, RecordIsExact
<1> QED BY <1>2, <1>3, AlwaysHeld, PTL DEF Spec

-----------------------------------------------------------------------------
(* The outbox keeps the promise of Delivery. *)

(* Each row of a batch is one row of the table, if it is still there, and  *)
(* nobody else has answered for it.                                        *)
BatchFiled(batch, table) ==
    /\ \A c \in batch : /\ KeyOf(c.row) \in Wishes
                        /\ c.id \in DOMAIN table => c.id \in LiveIds(table)
    /\ \A c \in batch, d \in batch : c.id = d.id => c = d

PassFiled(s, table) ==
    /\ s.pc \in Planning => s.todo \subseteq Wishes
    /\ s.pc = "reconcile" => s.drop \cap DOMAIN table \subseteq LiveIds(table)
    /\ s.pc \in Delivering => BatchFiled(s.batch, table)

Filed ==
    /\ KeysOnce(queue)
    /\ Keys(queue) \subseteq Wishes
    /\ \A r \in Reminders : appt[r].life = "live" => appt[r].due \in Slots
    /\ \A p \in Passes : PassFiled(pass[p], queue)

LEMMA DeletionFiled ==
    ASSUME NEW table, IsTable(table), NEW ids, NEW s
    PROVE  LET after == Without(table, ids) IN
           /\ KeysOnce(table) => KeysOnce(after)
           /\ Keys(after) \subseteq Keys(table)
           /\ PassFiled(s, table) => PassFiled(s, after)
<1> DEFINE after == Without(table, ids)
<1>1. DOMAIN after = DOMAIN table \ ids /\ \A i \in DOMAIN after : after[i] = table[i]
  BY DEF Without
<1> HIDE DEF after
<1>2. \A i \in LiveIds(table) : i \in DOMAIN after => i \in LiveIds(after)
  BY <1>1 DEF LiveIds
<1>3. KeysOnce(table) => KeysOnce(after)
  BY <1>1 DEF KeysOnce
<1>4. Keys(after) \subseteq Keys(table)
  BY <1>1 DEF Keys
<1>5. PassFiled(s, table) => PassFiled(s, after)
  BY <1>1, <1>2 DEF PassFiled, BatchFiled
<1> QED BY <1>3, <1>4, <1>5 DEF after

LEMMA AnswerFiled ==
    ASSUME NEW table, IsTable(table), NEW id, NEW after, Answers(table, after, id)
    PROVE  /\ KeysOnce(table) => KeysOnce(after)
           /\ Keys(after) = Keys(table)
           /\ \A batch, rest : /\ BatchFiled(batch, table) /\ rest \subseteq batch
                               /\ \A c \in rest : c.id # id
                               => BatchFiled(rest, after)
<1>1. KeysOnce(table) => KeysOnce(after)
  BY DEF Answers, KeysOnce
<1>2. Keys(after) = Keys(table)
  BY DEF Answers, Keys
<1>3. \A i \in LiveIds(table) : i # id => i \in LiveIds(after)
  BY DEF Answers, LiveIds, Retired
<1>4. ASSUME NEW batch, NEW rest, BatchFiled(batch, table), rest \subseteq batch,
             \A c \in rest : c.id # id
      PROVE  BatchFiled(rest, after)
  BY <1>3, <1>4 DEF BatchFiled, Answers
<1> QED BY <1>1, <1>2, <1>4

LEMMA InitFiled == Init => Filed
<1> SUFFICES ASSUME Init PROVE Filed
  OBVIOUS
<1>1. KeysOnce(queue) /\ Keys(queue) = {}
  BY DEF Init, KeysOnce, Keys
<1>2. \A r \in Reminders : appt[r].life = "live" => appt[r].due \in Slots
  BY DEF Init
<1>3. \A p \in Passes : PassFiled(pass[p], queue)
  BY DEF Init, PassFiled, Idle, Planning, Delivering
<1> QED BY <1>1, <1>2, <1>3 DEF Filed

(* An edit withdraws rows and files none. *)
LEMMA FamilyFiled ==
    ASSUME TypeInv, SingleWriter, Filed, Family
    PROVE  /\ Filed'
           /\ settled' = settled
           /\ queue' = queue \/ \E r : queue' = DeleteUnsentBySource(queue, r)
<1>1. Edit /\ IsTable(queue)
  BY DEF Family, CreateEvent, MoveEvent, DeleteEvent, SetHeard, PatchPrefs,
         Subscribe, PressTest, TypeInv, TypeOK
<1>2. queue' = queue \/ \E r : queue' = DeleteUnsentBySource(queue, r)
  BY DEF Family, SingleWriter, CreateEvent, MoveEvent, DeleteEvent, SetHeard,
         PatchPrefs, Subscribe
<1>3. /\ KeysOnce(queue') /\ Keys(queue') \subseteq Wishes
      /\ \A s : PassFiled(s, queue) => PassFiled(s, queue')
  <2>1. CASE queue' = queue
    BY <2>1 DEF Filed
  <2>2. ASSUME NEW r, queue' = DeleteUnsentBySource(queue, r)
        PROVE  /\ KeysOnce(queue') /\ Keys(queue') \subseteq Wishes
               /\ \A s : PassFiled(s, queue) => PassFiled(s, queue')
    <3> DEFINE ids == {i \in LiveIds(queue) : queue[i].src = r}
    <3>1. queue' = Without(queue, ids)
      BY <2>2 DEF DeleteUnsentBySource
    <3> HIDE DEF ids
    <3>2. /\ KeysOnce(queue) => KeysOnce(queue')
          /\ Keys(queue') \subseteq Keys(queue)
          /\ \A s : PassFiled(s, queue) => PassFiled(s, queue')
      BY <1>1, <3>1, DeletionFiled
    <3> QED BY <3>2 DEF Filed
  <2> QED BY <1>2, <2>1, <2>2
<1>4. ASSUME NEW r \in Reminders, appt'[r].life = "live" PROVE appt'[r].due \in Slots
  <2>1. ASSUME NEW q \in Reminders, NEW s \in Slots, CreateEvent(q, s) \/ MoveEvent(q, s)
        PROVE  appt'[r].due \in Slots
    BY <1>4, <2>1 DEF CreateEvent, MoveEvent, Filed, TypeInv, TypeOK, Appointment
  <2>2. ASSUME NEW q \in Reminders, NEW b, DeleteEvent(q) \/ SetHeard(q, b)
        PROVE  appt'[r].due \in Slots
    BY <1>4, <2>2 DEF DeleteEvent, SetHeard, Filed, TypeInv, TypeOK, Appointment
  <2>3. ASSUME appt' = appt PROVE appt'[r].due \in Slots
    BY <1>4, <2>3 DEF Filed
  <2> QED BY <2>1, <2>2, <2>3 DEF Family, PatchPrefs, Subscribe, PressTest
<1>5. ASSUME NEW p \in Passes PROVE PassFiled(pass'[p], queue')
  <2>1. pass[p] \in Pass /\ PassFiled(pass[p], queue')
    BY <1>3, PassFit DEF Filed
  <2>2. \/ pass'[p] = pass[p]
        \/ /\ pass'[p].pc = pass[p].pc /\ pass'[p].todo = pass[p].todo
           /\ pass'[p].drop = pass[p].drop /\ pass'[p].batch = pass[p].batch
    BY <1>1, <2>1 DEF Edit, Pass
  <2> QED BY <2>1, <2>2 DEF PassFiled
<1> QED BY <1>1, <1>2, <1>3, <1>4, <1>5 DEF Filed, Edit

(* The keys a pass files are notifications the family may want. *)
LEMMA CalledIsWish ==
    ASSUME Filed, NEW from, NEW to
    PROVE  CalledFor(from, to) \subseteq Wishes
<1>1. PlannedReminders(from, to) \subseteq Wishes
  BY DEF PlannedReminders, Filed, Wishes
<1>2. PlannedDigests(from, to) \subseteq Wishes
  BY DEF PlannedDigests, Wishes
<1> QED BY <1>1, <1>2 DEF CalledFor

LEMMA PlanFiled ==
    ASSUME TypeInv, SingleWriter, Filed, NEW p \in Passes,
           PlanStep(p) \/ PlanFails(p) \/ ReconcileFails(p)
    PROVE  Filed'
<1> DEFINE s == pass[p]
<1> USE DEF stored
<1>1. s \in Pass /\ IsTable(queue) /\ PassFiled(s, queue)
  BY PassFit DEF TypeInv, TypeOK, Filed
<1>2. ASSUME NEW state, Become(p, state) PROVE pass'[p] = state
  BY <1>2 DEF Become, TypeInv, TypeOK
<1>3. appt' = appt
  BY DEF PlanStep, CatchUp, Tick, Start, Plan, Enqueue, PlanPartial, Reconcile,
         Drop, RecordHorizon, PlanFails, ReconcileFails
<1>4. ASSUME KeysOnce(queue'), Keys(queue') \subseteq Wishes, PassFiled(pass'[p], queue')
      PROVE  Filed'
  BY <1>3, <1>4 DEF Filed, SingleWriter
<1>5. KeysOnce(queue) /\ Keys(queue) \subseteq Wishes
  BY DEF Filed
<1>6. CASE CatchUp(p) \/ Tick(p)
  <2>1. PICK from : Start(p, from)
    BY <1>6 DEF CatchUp, Tick
  <2>2. \A to : [Idle EXCEPT !.pc = "lock", !.from = from, !.to = to].pc = "lock"
    BY DEF Idle
  <2>3. pass'[p].pc = "lock" /\ queue' = queue
    BY <1>2, <2>1, <2>2 DEF Start
  <2> QED BY <1>4, <1>5, <2>3 DEF PassFiled, Planning, Delivering
<1>7. CASE Plan(p)
  <2> DEFINE want == CalledFor(s.from, s.to)
  <2>1. pass'[p] = [s EXCEPT !.pc = "enqueue", !.fresh = TRUE, !.todo = want]
    BY <1>2, <1>7 DEF Plan, CalledFor
  <2>2. want \subseteq Wishes
    BY CalledIsWish
  <2> HIDE DEF want
  <2>3. pass'[p].pc = "enqueue" /\ pass'[p].todo = want /\ queue' = queue
    BY <1>1, <1>7, <2>1 DEF Pass, Plan
  <2> QED BY <1>4, <1>5, <2>2, <2>3 DEF PassFiled, Delivering
<1>8. ASSUME NEW k \in s.todo, Enqueue(p, k)
      PROVE  Filed'
  <2>1. s.pc = "enqueue" /\ pass'[p] = [s EXCEPT !.todo = s.todo \ {k}]
    BY <1>2, <1>8 DEF Enqueue, At
  <2>2. pass'[p].pc = "enqueue" /\ pass'[p].todo = s.todo \ {k}
    BY <1>1, <2>1 DEF Pass
  <2>3. s.todo \subseteq Wishes /\ k \in Key
    BY <1>1, <1>8, <2>1 DEF PassFiled, Planning, Pass
  <2>4. EnqueueNotification(queue, k, queue')
    BY <1>8 DEF Enqueue
  <2>5. KeysOnce(queue')
    BY <1>1, <1>5, <2>3, <2>4, InsertionSets
  <2>6. Keys(queue') \subseteq Wishes
    BY <1>1, <1>5, <1>8, <2>3, <2>4, EnqueueFiles
  <2> QED BY <1>4, <2>2, <2>3, <2>5, <2>6 DEF PassFiled, Delivering
<1>9. CASE PlanFails(p)
  <2>1. PICK left \in SUBSET s.todo :
            pass'[p] = [s EXCEPT !.todo = left, !.clean = FALSE]
    BY <1>2, <1>9 DEF PlanFails
  <2>2. pass'[p].pc = s.pc /\ pass'[p].todo = left /\ s.pc = "enqueue" /\ queue' = queue
    BY <1>1, <1>9, <2>1 DEF Pass, PlanFails, At
  <2> QED BY <1>1, <1>4, <1>5, <2>2 DEF PassFiled, Planning, Delivering
<1>10. CASE PlanPartial(p) \/ RecordHorizon(p) \/ ReconcileFails(p)
  <2>1. pass'[p] = [Idle EXCEPT !.pc = "drain"]
    BY <1>2, <1>10 DEF PlanPartial, RecordHorizon, ReconcileFails, EndPlan
  <2>2. pass'[p].pc = "drain" /\ queue' = queue
    BY <1>10, <2>1 DEF Idle, PlanPartial, RecordHorizon, ReconcileFails
  <2> QED BY <1>4, <1>5, <2>2 DEF PassFiled, Planning, Delivering
<1>11. CASE Reconcile(p)
  <2> DEFINE ids == Unplanned(s.from, s.to)
  <2>1. pass'[p] = [s EXCEPT !.pc = "reconcile", !.drop = ids]
    BY <1>2, <1>11 DEF Reconcile
  <2>2. ids \subseteq LiveIds(queue)
    BY DEF Unplanned, ListUnsent
  <2> HIDE DEF ids
  <2>3. pass'[p].pc = "reconcile" /\ pass'[p].drop = ids /\ pass'[p].todo = {}
        /\ queue' = queue
    BY <1>1, <1>11, <2>1 DEF Pass, Reconcile
  <2> QED BY <1>4, <1>5, <2>2, <2>3 DEF PassFiled, Delivering
<1>12. ASSUME NEW i \in s.drop, Drop(p, i)
       PROVE  Filed'
  <2>1. s.pc = "reconcile" /\ pass'[p] = [s EXCEPT !.drop = s.drop \ {i}]
    BY <1>2, <1>12 DEF Drop, At
  <2>2. /\ pass'[p].pc = "reconcile" /\ pass'[p].drop = s.drop \ {i}
        /\ pass'[p].todo = s.todo
    BY <1>1, <2>1 DEF Pass
  <2>3. queue' = Without(queue, {j \in DOMAIN queue : j = i /\ ~queue[j].sent})
    BY <1>12 DEF Drop, DeleteQueued
  <2>4. KeysOnce(queue') /\ Keys(queue') \subseteq Keys(queue) /\ PassFiled(s, queue')
    BY <1>1, <1>5, <2>3, DeletionFiled
  <2>5. PassFiled(pass'[p], queue')
    BY <2>1, <2>2, <2>4 DEF PassFiled, Planning, Delivering
  <2> QED BY <1>4, <1>5, <2>4, <2>5
<1> QED BY <1>6, <1>7, <1>8, <1>9, <1>10, <1>11, <1>12 DEF PlanStep

LEMMA NextRowRest ==
    ASSUME NEW p \in Passes, NEW outcome, NextRow(p, outcome).pc \in Delivering
    PROVE  NextRow(p, outcome).batch \subseteq pass[p].batch \ {Current(p)}
BY DEF NextRow, Idle, Delivering

(* The row a pass is working on is waiting, if it is still there. *)
LEMMA CurrentFiled ==
    ASSUME TypeInv, Filed, NEW p \in Passes, pass[p].pc \in Delivering
    PROVE  /\ Current(p) \in pass[p].batch /\ CurrentKey(p) \in Wishes
           /\ Current(p).id \in DOMAIN queue => Current(p).id \in LiveIds(queue)
           /\ \A c \in pass[p].batch : c # Current(p) => c.id # Current(p).id
           /\ \A c \in pass[p].batch : c.id # 0
<1>1. pass[p].batch \in SUBSET Copy /\ pass[p].batch # {}
  BY PassFit DEF Pass, Fit
<1>2. Current(p) \in pass[p].batch
  BY <1>1, FirstExists DEF Current
<1>3. BatchFiled(pass[p].batch, queue)
  BY DEF Filed, PassFiled
<1>4. \A c \in pass[p].batch : c.id # 0
  BY <1>1, OutboxConstants DEF Copy
<1> QED BY <1>2, <1>3, <1>4 DEF BatchFiled, CurrentKey

(* What a step of a delivery does to the table and to its own batch. *)
LEMMA DeliveryAnswers ==
    ASSUME TypeInv, Filed, NEW p \in Passes, DeliverStep(p) \/ DeliverFails(p),
           pass[p].pc \in Delivering
    PROVE  \E id : /\ Answers(queue, queue', id)
                   /\ pass'[p].pc \in Delivering =>
                         /\ pass'[p].batch \subseteq pass[p].batch
                         /\ \A c \in pass'[p].batch : c.id # id
<1> DEFINE s == pass[p]
           key == Current(p).id
<1> USE DEF stored
<1>1. s \in Pass /\ IsTable(queue)
  BY PassFit DEF TypeInv, TypeOK
<1>2. /\ \A c \in s.batch \ {Current(p)} : c.id # key
      /\ \A c \in s.batch : c.id # 0
  BY CurrentFiled
<1>3. ASSUME NEW state, Become(p, state) PROVE pass'[p] = state
  BY <1>3 DEF Become, TypeInv, TypeOK
<1>4. ASSUME NEW outcome, Answer(p, outcome)
      PROVE  pass'[p].pc \in Delivering => pass'[p].batch \subseteq s.batch \ {Current(p)}
  BY <1>3, <1>4, NextRowRest DEF Answer
<1>5. Answers(queue, queue, 0)
  BY DEF Answers
<1>6. ASSUME pass'[p].batch = s.batch, Answers(queue, queue', 0)
      PROVE  \E id : /\ Answers(queue, queue', id)
                     /\ pass'[p].pc \in Delivering =>
                           /\ pass'[p].batch \subseteq s.batch
                           /\ \A c \in pass'[p].batch : c.id # id
  BY <1>2, <1>6
<1>7. ASSUME NEW outcome, Answer(p, outcome),
             Answers(queue, queue', 0) \/ Answers(queue, queue', key)
      PROVE  \E id : /\ Answers(queue, queue', id)
                     /\ pass'[p].pc \in Delivering =>
                           /\ pass'[p].batch \subseteq s.batch
                           /\ \A c \in pass'[p].batch : c.id # id
  BY <1>2, <1>4, <1>7
<1>8. CASE SkipStale(p) \/ SkipEmpty(p) \/ Deliver(p)
  <2>1. Answers(queue, queue', key)
    BY <1>1, <1>8, StatementsAnswer DEF SkipStale, SkipEmpty, Deliver
  <2> QED BY <1>7, <1>8, <2>1 DEF SkipStale, SkipEmpty, Deliver
<1>9. CASE DeferBackingOff(p) \/ DeferIncomplete(p)
  BY <1>5, <1>7, <1>9 DEF DeferBackingOff, DeferIncomplete
<1>10. CASE Attempt(p)
  <2>1. Answers(queue, queue', 0)
    BY <1>1, <1>10, StatementsAnswer DEF Attempt
  <2>2. [s EXCEPT !.pc = "recipient"].batch = s.batch
    BY <1>1 DEF Pass
  <2> QED BY <1>3, <1>6, <1>7, <1>10, <2>1, <2>2 DEF Attempt
<1>11. CASE ReadRecipient(p)
  <2>1. [s EXCEPT !.pc = "push", !.owed = prefs.email].batch = s.batch
    BY <1>1 DEF Pass
  <2>2. pass'[p] = [s EXCEPT !.pc = "push", !.owed = prefs.email] /\ queue' = queue
    BY <1>3, <1>11 DEF ReadRecipient
  <2> QED BY <1>5, <1>6, <2>1, <2>2
<1>12. ASSUME NEW took, NEW gone, Push(p, took, gone)
       PROVE  pass'[p].batch = s.batch /\ Answers(queue, queue', 0)
  <2>1. pass'[p] = [s EXCEPT !.pc = "mail", !.tried = (devices # gone),
                             !.took = (took # {})]
    BY <1>12 DEF Push, Become, TypeInv, TypeOK
  <2>2. pass'[p].batch = s.batch
    BY <1>1, <2>1 DEF Pass
  <2>3. queue' = queue
    BY <1>12 DEF Push
  <2> QED BY <1>5, <2>2, <2>3
<1>13. CASE MailNotNeeded(p) \/ MailAccepted(p) \/ MailRefused(p)
  <2>1. \A a : /\ [s EXCEPT !.pc = "finish", !.mailed = a].batch = s.batch
               /\ [s EXCEPT !.pc = "record", !.mailed = a].batch = s.batch
               /\ [s EXCEPT !.pc = "finish"].batch = s.batch
    BY <1>1 DEF Pass
  <2>2. queue' = queue
    BY <1>13 DEF MailNotNeeded, MailAccepted, MailRefused
  <2>3. pass'[p].batch = s.batch
    BY <1>3, <1>13, <2>1 DEF MailNotNeeded, MailAccepted, MailRefused
  <2> QED BY <1>5, <1>6, <2>2, <2>3
<1>14. CASE RecordMail(p)
  <2>1. Answers(queue, queue', 0)
    BY <1>1, <1>14, StatementsAnswer DEF RecordMail
  <2>2. [s EXCEPT !.pc = "finish"].batch = s.batch
    BY <1>1 DEF Pass
  <2> QED BY <1>3, <1>6, <1>14, <2>1, <2>2 DEF RecordMail
<1>15. CASE DeliverFails(p)
  <2>1. [s EXCEPT !.pc = "finish"].batch = s.batch
    BY <1>1 DEF Pass
  <2>2. \/ \E o : Answer(p, o)
        \/ Become(p, [s EXCEPT !.pc = "finish"])
    BY <1>15 DEF DeliverFails, Delivering
  <2>3. queue' = queue
    BY <1>15 DEF DeliverFails
  <2> QED BY <1>3, <1>5, <1>6, <1>7, <2>1, <2>2, <2>3
<1>16. ~Drain(p)
  BY DEF Drain, At, Delivering
<1> QED BY <1>6, <1>8, <1>9, <1>10, <1>11, <1>12, <1>13, <1>14, <1>15, <1>16 DEF DeliverStep

LEMMA DeliverFiled ==
    ASSUME TypeInv, SingleWriter, Filed, NEW p \in Passes, DeliverStep(p) \/ DeliverFails(p)
    PROVE  Filed'
<1> DEFINE s == pass[p]
<1>1. /\ s \in Pass /\ IsTable(queue) /\ PassFiled(s, queue)
      /\ KeysOnce(queue) /\ Keys(queue) \subseteq Wishes
  BY PassFit DEF TypeInv, TypeOK, Filed
<1>2. appt' = appt /\ pass'[p].pc \notin Planning
  BY DeliveryHolds
<1>3. ASSUME KeysOnce(queue'), Keys(queue') \subseteq Wishes,
             pass'[p].pc \in Delivering => BatchFiled(pass'[p].batch, queue')
      PROVE  Filed'
  BY <1>2, <1>3 DEF Filed, SingleWriter, PassFiled, Planning
<1>4. CASE s.pc \in Delivering
  <2>1. PICK id : /\ Answers(queue, queue', id)
                  /\ pass'[p].pc \in Delivering =>
                        /\ pass'[p].batch \subseteq pass[p].batch
                        /\ \A c \in pass'[p].batch : c.id # id
    BY <1>4, DeliveryAnswers
  <2>2. BatchFiled(s.batch, queue)
    BY <1>1, <1>4 DEF PassFiled
  <2>3. /\ KeysOnce(queue') /\ Keys(queue') \subseteq Wishes
        /\ pass'[p].pc \in Delivering => BatchFiled(pass'[p].batch, queue')
    BY <1>1, <2>1, <2>2, AnswerFiled
  <2> QED BY <1>3, <2>3
<1>5. CASE s.pc \notin Delivering
  <2>1. queue' = queue /\ (pass'[p].pc \in Delivering => Drain(p))
    <3>1. ~(Drain(p) \/ DeliverFails(p)) => FALSE
      BY <1>5 DEF DeliverStep, SkipStale, DeferBackingOff, Attempt, ReadRecipient,
                  SkipEmpty, Push, MailNotNeeded, MailAccepted, MailRefused,
                  RecordMail, DeferIncomplete, Deliver, At, Delivering
    <3>2. ASSUME DeliverFails(p) PROVE queue' = queue /\ pass'[p].pc \notin Delivering
      <4>1. Become(p, Idle) /\ queue' = queue
        BY <1>5, <3>2 DEF DeliverFails, Delivering, stored
      <4> QED BY <4>1 DEF Become, Idle, Delivering, TypeInv, TypeOK
    <3> QED BY <3>1, <3>2 DEF Drain, stored
  <2>2. ASSUME Drain(p), pass'[p].pc \in Delivering
        PROVE  BatchFiled(pass'[p].batch, queue)
    <3> DEFINE due  == DueNotifications(queue, now, DrainBatch)
               full == Cardinality(due) = DrainBatch
    <3>1. \/ pass'[p] = Idle
          \/ pass'[p] = [Idle EXCEPT !.pc = "judge", !.batch = due,
                            !.rounds = s.rounds, !.full = full]
      BY <2>2 DEF Drain, Become, TypeInv, TypeOK
    <3>2. pass'[p].batch = due
      <4> HIDE DEF due, full
      <4>1. CASE pass'[p] = Idle
        BY <2>2, <4>1 DEF Idle, Delivering
      <4>2. CASE pass'[p] = [Idle EXCEPT !.pc = "judge", !.batch = due,
                                !.rounds = s.rounds, !.full = full]
        BY <4>2 DEF Idle
      <4> QED BY <3>1, <4>1, <4>2
    <3>3. \A c \in due : c.id \in LiveIds(queue) /\ c.row = queue[c.id]
                         /\ c = [id |-> c.id, row |-> c.row]
      BY DEF DueNotifications
    <3>4. BatchFiled(due, queue)
      <4>1. \A c \in due : KeyOf(c.row) \in Wishes
        BY <1>1, <3>3 DEF Keys, LiveIds
      <4>2. \A c \in due, d \in due : c.id = d.id => c = d
        BY <3>3
      <4> QED BY <3>3, <4>1, <4>2 DEF BatchFiled
    <3> QED BY <3>2, <3>4
  <2> QED BY <1>1, <1>3, <2>1, <2>2
<1> QED BY <1>4, <1>5

LEMMA NextFiled ==
    ASSUME TypeInv, SingleWriter, Filed, [Next]_vars
    PROVE  Filed'
<1> USE DEF stored
<1>1. CASE Advance \/ UNCHANGED vars
  BY <1>1 DEF Advance, vars, Filed
<1>2. CASE Boot \/ Crash
  <2>1. \A p \in Passes : \/ pass'[p] = pass[p]
                          \/ pass'[p] = Idle
                          \/ pass'[p] = [Idle EXCEPT !.pc = "boot"]
    BY <1>2 DEF Boot, Crash, Become, TypeInv, TypeOK
  <2>2. PassFiled(Idle, queue) /\ PassFiled([Idle EXCEPT !.pc = "boot"], queue)
    BY DEF PassFiled, Idle, Planning, Delivering
  <2>3. queue' = queue /\ appt' = appt
    BY <1>2 DEF Boot, Crash
  <2>4. \A p \in Passes : PassFiled(pass'[p], queue)
    BY <2>1, <2>2 DEF Filed
  <2> QED BY <2>3, <2>4 DEF Filed
<1>3. CASE Family
  BY <1>3, FamilyFiled
<1>4. ASSUME NEW p \in Passes, PassStep(p) \/ PlanFails(p) \/ ReconcileFails(p) \/ DeliverFails(p)
      PROVE  Filed'
  BY <1>4, PlanFiled, DeliverFiled DEF PassStep
<1> QED BY <1>1, <1>2, <1>3, <1>4 DEF Next

(* How the detailed state reads as the state of Delivery. *)
Owed(done) == {a \in done : a[2] # "inbox"}

SameKeys(before, after) ==
    /\ FiledKeys(after) = FiledKeys(before)
    /\ SkippedKeys(after) = SkippedKeys(before)
    /\ SentKeys(after) = SentKeys(before)

LEMMA Stutters ==
    ASSUME SameKeys(queue, queue'), Owed(settled') = Owed(settled)
    PROVE  UNCHANGED Promise!dvars
BY DEF SameKeys, Promise!dvars, FiledKeys, SkippedKeys, SentKeys, Owed

LEMMA Withdraws ==
    ASSUME FiledKeys(queue') \subseteq FiledKeys(queue),
           SkippedKeys(queue') = SkippedKeys(queue),
           SentKeys(queue') = SentKeys(queue), settled' = settled
    PROVE  [Promise!DNext]_(Promise!dvars)
<1>1. CASE FiledKeys(queue') = FiledKeys(queue)
  BY <1>1, Stutters DEF SameKeys
<1>2. CASE FiledKeys(queue') # FiledKeys(queue)
  <2> DEFINE gone == FiledKeys(queue) \ FiledKeys(queue')
  <2>1. gone \in SUBSET FiledKeys(queue) /\ gone # {}
        /\ FiledKeys(queue') = FiledKeys(queue) \ gone
    BY <1>2
  <2> HIDE DEF gone
  <2>2. Promise!Withdraw
    BY <2>1 DEF Promise!Withdraw, FiledKeys, SkippedKeys, SentKeys
  <2> QED BY <2>2 DEF Promise!DNext
<1> QED BY <1>1, <1>2

LEMMA Files ==
    ASSUME NEW k \in Wishes, k \notin Keys(queue),
           FiledKeys(queue') = FiledKeys(queue) \cup {k},
           SkippedKeys(queue') = SkippedKeys(queue),
           SentKeys(queue') = SentKeys(queue), settled' = settled
    PROVE  [Promise!DNext]_(Promise!dvars)
<1>1. k \in Wishes \ (FiledKeys(queue) \cup SkippedKeys(queue) \cup SentKeys(queue))
  BY DEF Keys, FiledKeys, SkippedKeys, SentKeys, LiveIds
<1>2. Promise!File
  BY <1>1 DEF Promise!File, FiledKeys, SkippedKeys, SentKeys
<1> QED BY <1>2 DEF Promise!DNext

LEMMA Settling ==
    ASSUME NEW k \in Wishes, NEW c \in {"push", "mail"}, queue' = queue,
           Owed(settled') = Owed(settled) \cup {<<k, c>>}
    PROVE  [Promise!DNext]_(Promise!dvars)
<1>1. Promise!Settle
  BY DEF Promise!Settle, Owed
<1> QED BY <1>1 DEF Promise!DNext

LEMMA Skips ==
    ASSUME NEW k \in FiledKeys(queue),
           FiledKeys(queue') = FiledKeys(queue) \ {k},
           SkippedKeys(queue') = SkippedKeys(queue) \cup {k},
           SentKeys(queue') = SentKeys(queue), settled' = settled
    PROVE  [Promise!DNext]_(Promise!dvars)
<1>1. Promise!Skip
  BY DEF Promise!Skip, FiledKeys, SkippedKeys, SentKeys
<1> QED BY <1>1 DEF Promise!DNext

LEMMA Delivers ==
    ASSUME NEW k \in FiledKeys(queue),
           \A c \in {"push", "mail"} : <<k, c>> \in Owed(settled),
           FiledKeys(queue') = FiledKeys(queue) \ {k},
           SkippedKeys(queue') = SkippedKeys(queue),
           SentKeys(queue') = SentKeys(queue) \cup {k}, settled' = settled
    PROVE  [Promise!DNext]_(Promise!dvars)
<1>1. Promise!Deliver
  BY DEF Promise!Deliver, FiledKeys, SkippedKeys, SentKeys, Owed
<1> QED BY <1>1 DEF Promise!DNext

(* One case per action of the engine. *)
LEMMA PlanPromised ==
    ASSUME TypeInv, SingleWriter, Filed, NEW p \in Passes,
           PlanStep(p) \/ PlanFails(p) \/ ReconcileFails(p) \/ DeliverFails(p)
    PROVE  [Promise!DNext]_(Promise!dvars)
<1> DEFINE s == pass[p]
<1> USE DEF stored
<1>1. s \in Pass /\ IsTable(queue) /\ PassFiled(s, queue)
  BY PassFit DEF TypeInv, TypeOK, Filed
<1>2. ASSUME queue' = queue, settled' = settled
      PROVE  [Promise!DNext]_(Promise!dvars)
  BY <1>2, Stutters DEF SameKeys
<1>3. CASE \/ CatchUp(p) \/ Tick(p) \/ Plan(p) \/ PlanPartial(p) \/ Reconcile(p)
           \/ RecordHorizon(p) \/ PlanFails(p) \/ ReconcileFails(p) \/ DeliverFails(p)
  BY <1>2, <1>3 DEF CatchUp, Tick, Start, Plan, PlanPartial, Reconcile,
                    RecordHorizon, PlanFails, ReconcileFails, DeliverFails
<1>4. ASSUME NEW k \in s.todo, Enqueue(p, k)
      PROVE  [Promise!DNext]_(Promise!dvars)
  <2>1. k \in Wishes /\ k \in Key
    BY <1>1, <1>4 DEF PassFiled, Planning, Pass, Enqueue, At
  <2>2. EnqueueNotification(queue, k, queue') /\ settled' = settled
    BY <1>4 DEF Enqueue
  <2> QED BY <1>1, <1>2, <2>1, <2>2, InsertionSets, Files
<1>5. ASSUME NEW i \in s.drop, Drop(p, i)
      PROVE  [Promise!DNext]_(Promise!dvars)
  <2> DEFINE ids == {j \in DOMAIN queue : j = i /\ ~queue[j].sent}
  <2>1. queue' = Without(queue, ids) /\ settled' = settled
    BY <1>5 DEF Drop, DeleteQueued
  <2>2. ids \cap DOMAIN queue \subseteq LiveIds(queue)
    BY <1>1, <1>5 DEF Drop, At, PassFiled
  <2> HIDE DEF ids
  <2> QED BY <1>1, <2>1, <2>2, DeletionSets, Withdraws
<1> QED BY <1>3, <1>4, <1>5 DEF PlanStep

LEMMA DeliverPromised ==
    ASSUME TypeInv, SingleWriter, Vouched, Filed, NEW p \in Passes, DeliverStep(p)
    PROVE  [Promise!DNext]_(Promise!dvars)
<1> DEFINE s   == pass[p]
           id  == Current(p).id
           key == CurrentKey(p)
<1> USE DEF stored
<1>1. s \in Pass /\ IsTable(queue) /\ KeysOnce(queue)
  BY PassFit DEF TypeInv, TypeOK, Filed
<1>2. ASSUME queue' = queue, settled' = settled
      PROVE  [Promise!DNext]_(Promise!dvars)
  BY <1>2, Stutters DEF SameKeys
<1>3. ASSUME s.pc \in Delivering
      PROVE  /\ key \in Wishes
             /\ id \in DOMAIN queue => /\ id \in LiveIds(queue)
                                       /\ KeyOf(queue[id]) = key
                                       /\ key \in FiledKeys(queue)
  <2>1. /\ Current(p) \in s.batch /\ key \in Wishes
        /\ id \in DOMAIN queue => id \in LiveIds(queue)
    BY <1>3, CurrentFiled
  <2>2. id \in DOMAIN queue => KeyOf(queue[id]) = key
    BY <1>3, <2>1 DEF Vouched, PassVouched, BatchVouched, CurrentKey
  <2> QED BY <2>1, <2>2 DEF FiledKeys
<1>4. ASSUME Answers(queue, queue', 0), settled' = settled, IsTable(queue')
      PROVE  [Promise!DNext]_(Promise!dvars)
  <2>1. 0 \notin DOMAIN queue
    BY <1>1, OutboxConstants DEF IsTable
  <2>2. SameKeys(queue, queue')
    BY <1>1, <1>4, <2>1, AnswerSets DEF SameKeys
  <2> QED BY <1>4, <2>2, Stutters
<1>5. IsTable(queue')
  BY DeliverType DEF TypeInv, TypeOK
<1>6. CASE Drain(p) \/ DeferBackingOff(p) \/ ReadRecipient(p) \/ MailRefused(p)
           \/ DeferIncomplete(p)
  BY <1>2, <1>6 DEF Drain, DeferBackingOff, ReadRecipient, MailRefused, DeferIncomplete
<1>7. CASE SkipStale(p) \/ SkipEmpty(p)
  <2>1. s.pc \in Delivering /\ settled' = settled
    BY <1>7 DEF SkipStale, SkipEmpty, At, Delivering
  <2>2. PICK why \in {"stale", "empty"} : queue' = MarkSkipped(queue, id, why, now)
    BY <1>7 DEF SkipStale, SkipEmpty
  <2>3. /\ Answers(queue, queue', id)
        /\ id \in DOMAIN queue => queue'[id].skipped # "no" /\ queue'[id].sent = queue[id].sent
    BY <1>1, <2>2, StatementsAnswer
  <2>4. CASE id \notin DOMAIN queue
    <3>1. SameKeys(queue, queue')
      BY <1>1, <1>5, <2>3, <2>4, AnswerSets DEF SameKeys
    <3> QED BY <2>1, <3>1, Stutters
  <2>5. CASE id \in DOMAIN queue
    <3>1. /\ FiledKeys(queue') = FiledKeys(queue) \ {key}
          /\ SkippedKeys(queue') = SkippedKeys(queue) \cup {key}
          /\ SentKeys(queue') = SentKeys(queue)
      BY <1>1, <1>3, <1>5, <2>1, <2>3, <2>5, AnswerSets
    <3> QED BY <1>3, <2>1, <2>5, <3>1, Skips
  <2> QED BY <2>4, <2>5
<1>8. CASE Attempt(p) \/ RecordMail(p)
  <2>1. Answers(queue, queue', 0) /\ settled' = settled
    BY <1>1, <1>8, StatementsAnswer DEF Attempt, RecordMail
  <2> QED BY <1>4, <1>5, <2>1
<1>9. ASSUME NEW took, NEW gone, Push(p, took, gone)
      PROVE  [Promise!DNext]_(Promise!dvars)
  <2>1. s.pc \in Delivering /\ queue' = queue
    BY <1>9 DEF Push, At, Delivering
  <2>2. settled' = settled \/ settled' = settled \cup {<<key, "push">>}
    BY <1>9 DEF Push
  <2>3. ASSUME settled' = settled \cup {<<key, "push">>}
        PROVE  Owed(settled') = Owed(settled) \cup {<<key, "push">>}
    BY <2>3 DEF Owed
  <2> QED BY <1>2, <1>3, <2>1, <2>2, <2>3, Settling
<1>10. CASE MailNotNeeded(p)
  <2>1. s.pc \in Delivering /\ queue' = queue
    BY <1>10 DEF MailNotNeeded, At, Delivering
  <2>2. settled' = settled \/ settled' = settled \cup {<<key, "mail">>}
    BY <1>10 DEF MailNotNeeded
  <2>3. ASSUME settled' = settled \cup {<<key, "mail">>}
        PROVE  Owed(settled') = Owed(settled) \cup {<<key, "mail">>}
    BY <2>3 DEF Owed
  <2> QED BY <1>2, <1>3, <2>1, <2>2, <2>3, Settling
<1>11. CASE MailAccepted(p)
  <2>1. s.pc \in Delivering /\ queue' = queue
    BY <1>11 DEF MailAccepted, At, Delivering
  <2>2. settled' = settled \cup {<<key, "mail">>, <<key, "inbox">>}
    BY <1>11 DEF MailAccepted
  <2>3. Owed(settled') = Owed(settled) \cup {<<key, "mail">>}
    BY <2>2 DEF Owed
  <2> QED BY <1>3, <2>1, <2>3, Settling
<1>12. CASE Deliver(p)
  <2>1. s.pc = "finish" /\ s.pc \in Delivering /\ settled' = settled
    BY <1>12 DEF Deliver, At, Delivering
  <2>2. <<key, "push">> \in settled /\ <<key, "mail">> \in settled
    BY <1>12, <2>1 DEF Vouched, PassVouched, LegsVouched, Deliver, Complete,
                       CurrentKey, Current
  <2>3. /\ Answers(queue, queue', id)
        /\ id \in DOMAIN queue => queue'[id].sent /\ queue'[id].skipped = queue[id].skipped
    BY <1>1, <1>12, StatementsAnswer DEF Deliver
  <2>4. CASE id \notin DOMAIN queue
    <3>1. SameKeys(queue, queue')
      BY <1>1, <1>5, <2>3, <2>4, AnswerSets DEF SameKeys
    <3> QED BY <2>1, <3>1, Stutters
  <2>5. CASE id \in DOMAIN queue
    <3>1. /\ FiledKeys(queue') = FiledKeys(queue) \ {key}
          /\ SkippedKeys(queue') = SkippedKeys(queue)
          /\ SentKeys(queue') = SentKeys(queue) \cup {key}
      BY <1>1, <1>3, <1>5, <2>1, <2>3, <2>5, AnswerSets
    <3>2. \A c \in {"push", "mail"} : <<key, c>> \in Owed(settled)
      BY <2>2 DEF Owed
    <3> QED BY <1>3, <2>1, <2>5, <3>1, <3>2, Delivers
  <2> QED BY <2>4, <2>5
<1> QED BY <1>6, <1>7, <1>8, <1>9, <1>10, <1>11, <1>12 DEF DeliverStep

LEMMA NextPromised ==
    ASSUME TypeInv, SingleWriter, Vouched, Filed, [Next]_vars
    PROVE  [Promise!DNext]_(Promise!dvars)
<1> USE DEF stored
<1>1. CASE Advance \/ Boot \/ Crash \/ UNCHANGED vars
  <2>1. queue' = queue /\ settled' = settled
    BY <1>1 DEF Advance, Boot, Crash, vars
  <2> QED BY <2>1, Stutters DEF SameKeys
<1>2. CASE Family
  <2>1. IsTable(queue) /\ settled' = settled
    BY <1>2, FamilyFiled DEF TypeInv, TypeOK
  <2>2. CASE queue' = queue
    BY <2>1, <2>2, Stutters DEF SameKeys
  <2>3. ASSUME NEW r, queue' = DeleteUnsentBySource(queue, r)
        PROVE  [Promise!DNext]_(Promise!dvars)
    <3> DEFINE ids == {i \in LiveIds(queue) : queue[i].src = r}
    <3>1. queue' = Without(queue, ids) /\ ids \cap DOMAIN queue \subseteq LiveIds(queue)
      BY <2>3 DEF DeleteUnsentBySource
    <3> HIDE DEF ids
    <3> QED BY <2>1, <3>1, DeletionSets, Withdraws
  <2> QED BY <1>2, <2>2, <2>3, FamilyFiled
<1>3. ASSUME NEW p \in Passes, PassStep(p) \/ PlanFails(p) \/ ReconcileFails(p) \/ DeliverFails(p)
      PROVE  [Promise!DNext]_(Promise!dvars)
  BY <1>3, PlanPromised, DeliverPromised DEF PassStep
<1> QED BY <1>1, <1>2, <1>3 DEF Next

LEMMA InitPromised == Init => Promise!DInit
<1> SUFFICES ASSUME Init PROVE Promise!DInit
  OBVIOUS
<1>1. queue = [i \in {} |-> 0] /\ settled = {}
  BY DEF Init
<1>2. DOMAIN queue = {} /\ LiveIds(queue) = {}
  BY <1>1 DEF LiveIds
<1> QED BY <1>1, <1>2 DEF Promise!DInit

(* With one pass at a time and no test button the engine implements        *)
(* Delivery: planning, reconciling, retrying, crashing and every edit of   *)
(* the family's only ever file, withdraw, skip, settle or deliver one      *)
(* notification, and a delivery waits for both channels.                   *)
THEOREM PromiseIsKept ==
    ASSUME SingleWriter
    PROVE  Spec => KeepsPromise
<1> DEFINE Inv == TypeInv /\ Vouched /\ Filed
<1>1. Init => Inv /\ Promise!DInit
  BY InitType, InitVouched, InitFiled, InitPromised
<1>2. Inv /\ [Next]_vars => Inv'
  BY NextType, NextVouched, NextFiled
<1>3. Inv /\ [Next]_vars => [Promise!DNext]_(Promise!dvars)
  BY NextPromised
<1> HIDE DEF Inv
<1> QED BY <1>1, <1>2, <1>3, PTL DEF Spec, KeepsPromise, Promise!DSpec

-----------------------------------------------------------------------------
(* Nothing is mailed twice. *)

(* Nobody plans this any more: a pass that starts at t or later calls for  *)
(* nothing whose slot and event are over by t.                             *)
Past(key, t) ==
    /\ key.due < t
    /\ key.src \in Reminders => ~EventStillAhead(key, t)

(* The calendar still has what this key is about. *)
Based(key) ==
    \/ /\ key.src \in Reminders
       /\ appt[key.src].life = "live" /\ appt[key.src].heard
       /\ appt[key.src].due = key.due
    \/ key.src \in Digests /\ prefs.digest /\ DigestSlot[key.src] = key.due

(* The instant the passes still to plan start at, or a later one. *)
Since(s, t) == IF s.pc \in {"lock"} \cup Planning THEN s.from ELSE t

(* A mail on its way is on the row, about to be recorded, or the row is    *)
(* gone and will not be filed again.                                       *)
TableOnce(s, table, done, t) ==
    \A k \in Key : <<k, "inbox">> \in done =>
        \/ k \notin Keys(table) /\ Past(k, Since(s, t))
        \/ \E i \in DOMAIN table :
              /\ KeyOf(table[i]) = k
              /\ table[i].mailed \/ (s.pc = "record" /\ KeyOf(First(s.batch).row) = k)

(* The batch knows of each mail that went out, but for its current row,    *)
(* which the pass itself has just mailed.                                  *)
BatchOnce(s, table, done) ==
    s.pc \in Delivering => \A c \in s.batch :
        /\ c.id \in DOMAIN table
        /\ <<KeyOf(c.row), "inbox">> \in done =>
              c.row.mailed \/ (c = First(s.batch) /\ s.pc \in {"record", "finish"})

PassOnce(s) ==
    /\ ~up \/ s.pc = "boot" => settled = {}
    /\ s.pc \in {"lock"} \cup Planning => s.from <= now
    /\ s.pc \in Planning => s.fresh
    /\ TableOnce(s, queue, settled, now)
    /\ BatchOnce(s, queue, settled)

Calm ==
    edits = 0 /\ faults = 0 =>
        /\ \A k \in Keys(queue) : Based(k)
        /\ \A p \in Passes : PassOnce(pass[p])

OnceInv == TypeInv /\ Vouched /\ Filed /\ Held /\ Calm

LEMMA PastStays ==
    ASSUME NEW key \in Key, NEW t \in Nat, NEW u \in Nat, t <= u, Past(key, t)
    PROVE  Past(key, u)
<1>1. key.due \in Nat /\ key.src \in Sources
  BY DEF Key
<1>2. key.src \in Reminders => Lead[key.src] \in Nat
  BY OutboxConstants
<1> QED BY <1>1, <1>2 DEF Past, EventStillAhead

(* What is past is not called for; what is filed, up to the horizon and    *)
(* not called for is past.                                                 *)
LEMMA PastIsUncalled ==
    ASSUME TypeInv, NEW key \in Key, NEW from \in Nat, NEW to \in Nat
    PROVE  /\ key \in CalledFor(from, to) => Based(key) /\ ~Past(key, from)
           /\ Based(key) /\ key.due <= to /\ key \notin CalledFor(from, to)
                 => Past(key, from)
<1>1. key.due \in Nat /\ key = [src |-> key.src, due |-> key.due]
  BY DEF Key
<1>2. ASSUME key \in PlannedReminders(from, to)
      PROVE  Based(key) /\ ~Past(key, from)
  BY <1>1, <1>2 DEF PlannedReminders, Based, Past
<1>3. ASSUME key \in PlannedDigests(from, to)
      PROVE  Based(key) /\ ~Past(key, from)
  BY <1>1, <1>3, OutboxConstants DEF PlannedDigests, Based, Past
<1>4. ASSUME Based(key), key.due <= to, key \notin CalledFor(from, to)
      PROVE  Past(key, from)
  <2>1. CASE key.src \in Reminders
    <3>1. /\ appt[key.src].life = "live" /\ appt[key.src].heard
          /\ appt[key.src].due = key.due
      BY <1>4, <2>1, OutboxConstants DEF Based
    <3>2. key \in {[src |-> r, due |-> appt[r].due] : r \in Reminders}
      BY <1>1, <2>1, <3>1
    <3>3. ~(key.due < from => EventStillAhead(key, from))
      BY <1>4, <3>1, <3>2 DEF CalledFor, PlannedReminders
    <3> QED BY <3>3 DEF Past
  <2>2. CASE key.src \notin Reminders
    <3>1. key.src \in Digests /\ prefs.digest /\ DigestSlot[key.src] = key.due
      BY <1>4, <2>2 DEF Based
    <3>2. key \in {[src |-> d, due |-> DigestSlot[d]] : d \in Digests}
      BY <1>1, <3>1
    <3>3. ~(key.due >= from)
      BY <1>4, <3>1, <3>2 DEF CalledFor, PlannedDigests
    <3> QED BY <1>1, <2>2, <3>3 DEF Past
  <2> QED BY <2>1, <2>2
<1> QED BY <1>2, <1>3, <1>4 DEF CalledFor

LEMMA InitCalm == Init => Calm
<1> SUFFICES ASSUME Init PROVE Calm
  OBVIOUS
<1>1. Keys(queue) = {} /\ settled = {}
  BY DEF Init, Keys
<1>2. \A p \in Passes : pass[p] = Idle
  BY DEF Init
<1>3. PassOnce(Idle)
  BY <1>1 DEF PassOnce, TableOnce, BatchOnce, Idle, Planning, Delivering
<1> QED BY <1>1, <1>2, <1>3 DEF Calm

(* A step that keeps the rows and what was mailed, with no mail to record. *)
LEMMA OnceKept ==
    ASSUME TypeInv, TypeInv', NEW s \in Pass, NEW r,
           r.pc # "record", s.pc # "record",
           DOMAIN queue' = DOMAIN queue,
           \A i \in DOMAIN queue : /\ KeyOf(queue'[i]) = KeyOf(queue[i])
                                   /\ queue[i].mailed => queue'[i].mailed,
           \A k \in Key : <<k, "inbox">> \in settled' => <<k, "inbox">> \in settled,
           Since(s, now) \in Nat, Since(r, now') \in Nat, Since(s, now) <= Since(r, now'),
           TableOnce(s, queue, settled, now)
    PROVE  TableOnce(r, queue', settled', now')
<1>1. Keys(queue') = Keys(queue)
  BY DEF Keys
<1> QED BY <1>1, PastStays DEF TableOnce

LEMMA PlanCalm ==
    ASSUME OnceInv, TypeInv', SingleWriter, edits = 0, faults = 0,
           NEW p \in Passes, PlanStep(p)
    PROVE  Calm'
<1> DEFINE s == pass[p]
<1> USE DEF stored
<1>1. /\ s \in Pass /\ IsTable(queue) /\ now \in Nat /\ PassOnce(s)
      /\ \A k \in Keys(queue) : Based(k)
  BY PassFit DEF OnceInv, TypeInv, TypeOK, Calm
<1>2. ASSUME NEW state, Become(p, state) PROVE pass'[p] = state
  BY <1>2 DEF OnceInv, Become, TypeInv, TypeOK
<1>3. appt' = appt /\ prefs' = prefs /\ settled' = settled /\ now' = now /\ up' = up /\ up
  BY DEF PlanStep, CatchUp, Tick, Start, Plan, Enqueue, PlanPartial, Reconcile,
         Drop, RecordHorizon, At
<1>4. ASSUME Keys(queue') \subseteq Keys(queue), PassOnce(pass[p])'
      PROVE  Calm'
  BY <1>1, <1>3, <1>4 DEF Calm, SingleWriter, Based
<1>5. TableOnce(s, queue, settled, now) /\ s.from \in Nat /\ s.to \in Nat
  BY <1>1 DEF PassOnce, Pass
<1>6. ASSUME NEW state \in Pass, pass'[p] = state, queue' = queue,
             state.pc \notin Delivering, state.pc # "boot",
             s.pc \notin Delivering,
             state.pc \in {"lock"} \cup Planning => state.from <= now,
             state.pc \in Planning => state.fresh,
             Since(s, now) <= Since(state, now) \/ settled = {}
      PROVE  PassOnce(pass[p])'
  <2>1. TableOnce(state, queue, settled, now)
    <3>1. Since(s, now) \in Nat /\ Since(state, now) \in Nat
      BY <1>1, <1>5 DEF Since, Pass
    <3> QED BY <1>5, <1>6, <3>1, PastStays DEF TableOnce, Delivering
  <2>2. BatchOnce(state, queue, settled)
    BY <1>6 DEF BatchOnce
  <2> QED BY <1>3, <1>6, <2>1, <2>2 DEF PassOnce
<1>7. CASE CatchUp(p) \/ Tick(p)
  <2>1. PICK from : Start(p, from) /\ from \in Nat /\ from <= now
                    /\ (settled = {} \/ (s.pc = "idle" /\ from = now))
    <3>1. ASSUME CatchUp(p) PROVE CatchUpFrom \in Nat /\ CatchUpFrom <= now
      BY <1>1, NotifierConstants DEF CatchUpFrom, OnceInv, TypeInv, TypeOK
    <3>2. ASSUME CatchUp(p) PROVE settled = {}
      BY <1>1, <3>2 DEF CatchUp, At, PassOnce
    <3> QED BY <1>1, <1>7, <3>1, <3>2 DEF CatchUp, Tick, At
  <2> DEFINE to    == now + Horizon
             state == [Idle EXCEPT !.pc = "lock", !.from = from, !.to = to]
  <2>2. pass'[p] = state /\ queue' = queue
    BY <1>2, <2>1 DEF Start
  <2>3. to \in Nat
    BY <1>1, NotifierConstants
  <2> HIDE DEF to
  <2>4. state \in Pass /\ state.pc = "lock" /\ state.from = from
    BY <2>1, <2>3, StartFit DEF Fit, Idle
  <2>5. s.pc \in {"boot", "idle"}
    BY <1>7 DEF CatchUp, Tick, At
  <2> HIDE DEF state
  <2>6. Since(s, now) <= Since(state, now) \/ settled = {}
    BY <1>1, <2>1, <2>4, <2>5 DEF Since, Planning
  <2> QED BY <1>4, <1>6, <2>1, <2>2, <2>4, <2>5, <2>6 DEF Planning, Delivering
<1>8. CASE Plan(p)
  <2> DEFINE want == CalledFor(s.from, s.to)
             state == [s EXCEPT !.pc = "enqueue", !.fresh = TRUE, !.todo = want]
  <2>1. pass'[p] = state /\ queue' = queue /\ s.pc = "lock"
    BY <1>2, <1>8 DEF Plan, CalledFor, At
  <2>2. state \in Pass
    BY <2>1 DEF TypeInv, TypeOK
  <2> HIDE DEF want
  <2>3. state.pc = "enqueue" /\ state.fresh /\ state.from = s.from
    BY <1>1 DEF Pass
  <2> HIDE DEF state
  <2>4. s.from <= now
    BY <1>1, <2>1 DEF PassOnce
  <2> QED BY <1>1, <1>4, <1>5, <1>6, <2>1, <2>2, <2>3, <2>4 DEF Since, Planning, Delivering
<1>9. CASE PlanPartial(p) \/ RecordHorizon(p)
  <2> DEFINE state == [Idle EXCEPT !.pc = "drain"]
  <2>1. pass'[p] = state /\ queue' = queue /\ s.pc \in Planning
    BY <1>2, <1>9 DEF PlanPartial, RecordHorizon, EndPlan, At, Planning
  <2>2. state \in Pass /\ state.pc = "drain"
    BY IdleFit DEF Fit, Idle
  <2> HIDE DEF state
  <2>3. s.from <= now
    BY <1>1, <2>1 DEF PassOnce
  <2> QED BY <1>1, <1>4, <1>5, <1>6, <2>1, <2>2, <2>3 DEF Since, Planning, Delivering
<1>10. CASE Reconcile(p)
  <2> DEFINE ids == Unplanned(s.from, s.to)
             state == [s EXCEPT !.pc = "reconcile", !.drop = ids]
  <2>1. pass'[p] = state /\ queue' = queue /\ s.pc = "enqueue"
    BY <1>2, <1>10 DEF Reconcile, At
  <2>2. state \in Pass
    BY <2>1 DEF TypeInv, TypeOK
  <2> HIDE DEF ids
  <2>3. state.pc = "reconcile" /\ state.fresh = s.fresh /\ state.from = s.from
    BY <1>1 DEF Pass
  <2> HIDE DEF state
  <2>4. s.from <= now /\ s.fresh
    BY <1>1, <2>1 DEF PassOnce, Planning
  <2>5. Since(s, now) = s.from /\ Since(state, now) = s.from
    BY <2>1, <2>3 DEF Since, Planning
  <2>6. state.fresh
    BY <2>3, <2>4
  <2>7. PassOnce(pass[p])'
    BY <1>5, <1>6, <2>1, <2>2, <2>3, <2>4, <2>5, <2>6 DEF Planning, Delivering
  <2> QED BY <1>4, <2>1, <2>7
<1>11. ASSUME NEW k \in s.todo, Enqueue(p, k)
       PROVE  Calm'
  <2>1. s.pc = "enqueue" /\ pass'[p] = [s EXCEPT !.todo = s.todo \ {k}]
    BY <1>2, <1>11 DEF Enqueue, At
  <2>2. pass'[p].pc = "enqueue" /\ pass'[p].from = s.from /\ pass'[p].fresh = s.fresh
    BY <1>1, <2>1 DEF Pass
  <2>3. s.from <= now /\ s.fresh /\ k \in Key
    BY <1>1, <1>11, <2>1 DEF PassOnce, Planning, Pass
  <2>4. k \in CalledFor(s.from, s.to)
    BY <1>11, <2>1, <2>3 DEF OnceInv, Held, PlanHeld, Planning, Sighted
  <2>5. Based(k) /\ ~Past(k, s.from)
    BY <1>5, <2>3, <2>4, PastIsUncalled DEF OnceInv
  <2>6. /\ Keys(queue') = Keys(queue) \cup {k}
        /\ \A i \in DOMAIN queue : i \in DOMAIN queue' /\ queue'[i] = queue[i]
    BY <1>1, <1>11, <2>3, EnqueueFiles DEF Enqueue
  <2>7. TableOnce(pass'[p], queue', settled', now')
    BY <1>3, <1>5, <2>1, <2>2, <2>5, <2>6 DEF TableOnce, Since, Planning
  <2>8. PassOnce(pass[p])'
    BY <1>3, <2>2, <2>3, <2>7 DEF PassOnce, BatchOnce, Planning, Delivering
  <2>9. \A x \in Keys(queue') : Based(x)
    BY <1>1, <2>5, <2>6
  <2> QED BY <1>3, <2>8, <2>9 DEF Calm, SingleWriter, Based
<1>12. ASSUME NEW i \in s.drop, Drop(p, i)
       PROVE  Calm'
  <2>1. s.pc = "reconcile" /\ pass'[p] = [s EXCEPT !.drop = s.drop \ {i}]
    BY <1>2, <1>12 DEF Drop, At
  <2>2. pass'[p].pc = "reconcile" /\ pass'[p].from = s.from /\ pass'[p].fresh = s.fresh
    BY <1>1, <2>1 DEF Pass
  <2>3. s.from <= now /\ s.fresh
    BY <1>1, <2>1 DEF PassOnce, Planning
  <2>4. /\ s.clean /\ s.todo = {} /\ Marked(s)
        /\ CalledFor(s.from, s.to) \subseteq planned
    BY <2>1, <2>3 DEF OnceInv, Held, PlanHeld, Planning, Sighted
  <2>5. /\ \A j \in DOMAIN queue' : j \in DOMAIN queue /\ queue'[j] = queue[j]
        /\ \A j \in DOMAIN queue : j # i => j \in DOMAIN queue'
    BY <1>12 DEF Drop, DeleteQueued, Without
  <2>6. Keys(queue') \subseteq Keys(queue)
    BY <2>5 DEF Keys
  <2>7. ASSUME i \in DOMAIN queue
        PROVE  Past(KeyOf(queue[i]), s.from)
    <3>1. /\ KeyOf(queue[i]) \in Key /\ KeyOf(queue[i]) \in Keys(queue)
          /\ KeyOf(queue[i]).due = queue[i].due
      BY <1>1, <2>7 DEF IsTable, Row, Key, KeyOf, Keys
    <3>2. queue[i].due <= s.to /\ KeyOf(queue[i]) \notin planned
      BY <1>12, <2>4, <2>7 DEF Marked
    <3> QED BY <1>1, <1>5, <2>4, <3>1, <3>2, PastIsUncalled DEF OnceInv
  <2>8. TableOnce(pass'[p], queue', settled', now')
    <3> SUFFICES ASSUME NEW k \in Key, <<k, "inbox">> \in settled
                 PROVE  \/ k \notin Keys(queue') /\ Past(k, s.from)
                        \/ \E j \in DOMAIN queue' : KeyOf(queue'[j]) = k /\ queue'[j].mailed
      BY <1>3, <2>2 DEF TableOnce, Since, Planning
    <3>1. \/ k \notin Keys(queue) /\ Past(k, s.from)
          \/ \E j \in DOMAIN queue : KeyOf(queue[j]) = k /\ queue[j].mailed
      BY <1>5, <2>1 DEF TableOnce, Since, Planning
    <3>2. ASSUME NEW j \in DOMAIN queue, KeyOf(queue[j]) = k, queue[j].mailed,
                 j \notin DOMAIN queue'
          PROVE  k \notin Keys(queue') /\ Past(k, s.from)
      <4>1. j = i /\ Past(k, s.from)
        BY <2>5, <2>7, <3>2
      <4>2. \A n \in DOMAIN queue' : KeyOf(queue'[n]) # k
        BY <2>5, <3>2 DEF OnceInv, Filed, KeysOnce
      <4> QED BY <4>1, <4>2 DEF Keys
    <3> QED BY <2>5, <2>6, <3>1, <3>2
  <2>9. PassOnce(pass[p])'
    BY <1>3, <2>2, <2>3, <2>8 DEF PassOnce, BatchOnce, Planning, Delivering
  <2> QED BY <1>4, <2>6, <2>9
<1> QED BY <1>7, <1>8, <1>9, <1>10, <1>11, <1>12 DEF PlanStep

LEMMA DeliverCalm ==
    ASSUME OnceInv, TypeInv', SingleWriter, edits = 0, faults = 0,
           NEW p \in Passes, DeliverStep(p)
    PROVE  Calm'
<1> DEFINE s   == pass[p]
           id  == Current(p).id
           key == CurrentKey(p)
<1> USE DEF stored
<1>1. /\ s \in Pass /\ IsTable(queue) /\ now \in Nat /\ PassOnce(s)
      /\ \A k \in Keys(queue) : Based(k)
      /\ TypeInv /\ Vouched /\ Filed
  BY PassFit DEF OnceInv, TypeInv, TypeOK, Calm
<1>2. ASSUME NEW state, Become(p, state) PROVE pass'[p] = state
  BY <1>1, <1>2 DEF Become, TypeInv, TypeOK
<1>3. /\ appt' = appt /\ prefs' = prefs /\ now' = now
      /\ s.pc \notin Planning /\ pass'[p].pc \notin Planning /\ Settles(queue, queue')
  BY <1>1, DeliveryHolds
<1>4. up' = up /\ up /\ s.pc \in {"drain"} \cup Delivering
  BY DEF DeliverStep, Drain, SkipStale, DeferBackingOff, Attempt, ReadRecipient,
         SkipEmpty, Push, MailNotNeeded, MailAccepted, MailRefused, RecordMail,
         DeferIncomplete, Deliver, At, Delivering
<1>5. DOMAIN queue' = DOMAIN queue /\ Keys(queue') = Keys(queue)
      /\ \A i \in DOMAIN queue : KeyOf(queue'[i]) = KeyOf(queue[i])
  BY <1>3 DEF Settles, Keys, KeyOf
<1>6. TableOnce(s, queue, settled, now) /\ BatchOnce(s, queue, settled)
  BY <1>1 DEF PassOnce
<1>7. ASSUME pass'[p].pc \notin {"lock", "boot"},
             TableOnce(pass'[p], queue', settled', now'),
             BatchOnce(pass'[p], queue', settled')
      PROVE  Calm'
  <2>1. PassOnce(pass[p])'
    BY <1>3, <1>4, <1>7 DEF PassOnce
  <2>2. \A k \in Keys(queue') : Based(k)
    BY <1>1, <1>5
  <2> QED BY <1>3, <2>1, <2>2 DEF Calm, SingleWriter, Based
<1>8. Since(s, now) = now /\ s.pc \notin {"lock", "boot"}
  BY <1>3, <1>4 DEF Since, Delivering
<1>9. ASSUME s.pc # "record", pass'[p].pc \notin {"record", "lock"},
             \A i \in DOMAIN queue : queue[i].mailed => queue'[i].mailed,
             \A k \in Key : <<k, "inbox">> \in settled' => <<k, "inbox">> \in settled
      PROVE  TableOnce(pass'[p], queue', settled', now')
  <2>1. PICK r : r = pass'[p]
    OBVIOUS
  <2>2. Since(r, now') = now
    BY <1>3, <1>9, <2>1 DEF Since
  <2> QED BY <1>1, <1>5, <1>6, <1>8, <1>9, <2>1, <2>2, OnceKept
<1>10. ASSUME NEW outcome, Answer(p, outcome), s.pc \in Delivering,
              s.pc # "record", settled' = settled,
              \A i \in DOMAIN queue : queue[i].mailed => queue'[i].mailed
       PROVE  Calm'
  <2>1. pass'[p] = NextRow(p, outcome)
    BY <1>2, <1>10 DEF Answer
  <2>2. NextRow(p, outcome).pc \in {"idle", "drain", "judge"}
    BY DEF NextRow, Idle
  <2>3. TableOnce(pass'[p], queue', settled', now')
    BY <1>9, <1>10, <2>1, <2>2
  <2>4. BatchOnce(pass'[p], queue', settled')
    <3> SUFFICES ASSUME pass'[p].pc \in Delivering
                 PROVE  \A c \in pass'[p].batch :
                           /\ c.id \in DOMAIN queue
                           /\ <<KeyOf(c.row), "inbox">> \in settled => c.row.mailed
      BY <1>5, <1>10 DEF BatchOnce
    <3>1. pass'[p].batch \subseteq s.batch \ {First(s.batch)}
      BY <2>1, NextRowRest DEF Current
    <3> QED BY <1>6, <1>10, <3>1 DEF BatchOnce
  <2> QED BY <1>7, <2>1, <2>2, <2>3, <2>4
<1>11. ASSUME NEW state, Become(p, state), state.pc \in {"recipient", "push", "mail", "finish"},
              state.batch = s.batch, s.pc \in {"judge", "recipient", "push", "mail"},
              \A i \in DOMAIN queue : queue[i].mailed => queue'[i].mailed,
              \A k \in Key : <<k, "inbox">> \in settled' => <<k, "inbox">> \in settled
       PROVE  Calm'
  <2>1. pass'[p] = state
    BY <1>2, <1>11
  <2>2. TableOnce(pass'[p], queue', settled', now')
    BY <1>9, <1>11, <2>1
  <2>3. BatchOnce(pass'[p], queue', settled')
    <3>1. \A c \in s.batch : KeyOf(c.row) \in Key
      BY <1>1 DEF Pass, Copy, Row, KeyOf, Key
    <3> QED BY <1>5, <1>6, <1>11, <2>1, <3>1 DEF BatchOnce, Delivering
  <2> QED BY <1>7, <1>11, <2>1, <2>2, <2>3
<1>12. CASE Drain(p)
  <2> DEFINE due  == DueNotifications(queue, now, DrainBatch)
             full == Cardinality(due) = DrainBatch
  <2>1. /\ s.pc = "drain" /\ queue' = queue /\ settled' = settled
        /\ \/ pass'[p] = Idle
           \/ pass'[p] = [Idle EXCEPT !.pc = "judge", !.batch = due,
                             !.rounds = s.rounds, !.full = full]
    BY <1>2, <1>12 DEF Drain, At
  <2>2. /\ pass'[p].pc \in {"idle", "judge"}
        /\ pass'[p].pc = "judge" => pass'[p].batch = due
    <3> HIDE DEF due, full
    <3>1. CASE pass'[p] = Idle
      BY <3>1 DEF Idle
    <3>2. CASE pass'[p] = [Idle EXCEPT !.pc = "judge", !.batch = due,
                              !.rounds = s.rounds, !.full = full]
      BY <3>2 DEF Idle
    <3> QED BY <2>1, <3>1, <3>2
  <2>3. TableOnce(pass'[p], queue', settled', now')
    BY <1>9, <2>1, <2>2
  <2>4. \A c \in due : c.id \in DOMAIN queue /\ c.row = queue[c.id]
    BY DEF DueNotifications, LiveIds
  <2>5. ASSUME NEW c \in due, <<KeyOf(c.row), "inbox">> \in settled
        PROVE  c.row.mailed
    <3>1. KeyOf(c.row) \in Keys(queue) /\ KeyOf(c.row) \in Key
      BY <1>1, <2>4, <2>5 DEF Keys, IsTable, Row, KeyOf, Key
    <3>2. PICK i \in DOMAIN queue : KeyOf(queue[i]) = KeyOf(c.row) /\ queue[i].mailed
      BY <1>6, <2>1, <2>5, <3>1 DEF TableOnce
    <3>3. i = c.id
      BY <1>1, <2>4, <3>2 DEF Filed, KeysOnce
    <3> QED BY <2>4, <3>2, <3>3
  <2>6. BatchOnce(pass'[p], queue', settled')
    <3> HIDE DEF due
    <3> QED BY <2>1, <2>2, <2>4, <2>5 DEF BatchOnce, Delivering
  <2> QED BY <1>7, <2>2, <2>3, <2>6
<1>13. CASE SkipStale(p) \/ SkipEmpty(p) \/ Deliver(p)
  <2>1. \A i \in DOMAIN queue : queue[i].mailed => queue'[i].mailed
    BY <1>1, <1>13, StatementsMail DEF SkipStale, SkipEmpty, Deliver
  <2>2. s.pc \in Delivering /\ s.pc # "record" /\ settled' = settled /\ \E o : Answer(p, o)
    BY <1>13 DEF SkipStale, SkipEmpty, Deliver, At, Delivering
  <2> QED BY <1>10, <2>1, <2>2
<1>14. CASE DeferBackingOff(p) \/ DeferIncomplete(p)
  BY <1>10, <1>14 DEF DeferBackingOff, DeferIncomplete, At, Delivering
<1>15. CASE Attempt(p)
  <2>1. \A i \in DOMAIN queue : queue[i].mailed => queue'[i].mailed
    BY <1>1, <1>15, StatementsMail DEF Attempt
  <2>2. s.pc = "judge" /\ settled' = settled
    BY <1>15 DEF Attempt, At
  <2> DEFINE state == [s EXCEPT !.pc = "recipient"]
  <2>3. state.pc = "recipient" /\ state.batch = s.batch
    BY <1>1 DEF Pass
  <2>4. Become(p, state) \/ Answer(p, "deferred")
    BY <1>15 DEF Attempt
  <2> HIDE DEF state
  <2> QED BY <1>10, <1>11, <2>1, <2>2, <2>3, <2>4 DEF Delivering
<1>16. CASE ReadRecipient(p)
  <2> DEFINE state == [s EXCEPT !.pc = "push", !.owed = prefs.email]
  <2>1. state.pc = "push" /\ state.batch = s.batch
    BY <1>1 DEF Pass
  <2>2. Become(p, state) /\ queue' = queue /\ settled' = settled /\ s.pc = "recipient"
    BY <1>16 DEF ReadRecipient, At
  <2> HIDE DEF state
  <2> QED BY <1>11, <2>1, <2>2
<1>17. ASSUME NEW took, NEW gone, Push(p, took, gone)
       PROVE  Calm'
  <2> DEFINE state == [s EXCEPT !.pc = "mail", !.tried = (devices # gone),
                                !.took = (took # {})]
  <2>1. state.pc = "mail" /\ state.batch = s.batch
    BY <1>1 DEF Pass
  <2>2. Become(p, state) /\ queue' = queue /\ s.pc = "push"
    BY <1>17 DEF Push, At
  <2>3. settled' \subseteq settled \cup {<<key, "push">>}
    BY <1>17 DEF Push
  <2> HIDE DEF state, key
  <2> QED BY <1>11, <2>1, <2>2, <2>3
<1>18. CASE MailNotNeeded(p)
  <2> DEFINE state == [s EXCEPT !.pc = "finish", !.mailed = Current(p).row.mailed]
  <2>1. state.pc = "finish" /\ state.batch = s.batch
    BY <1>1 DEF Pass
  <2>2. Become(p, state) /\ queue' = queue /\ s.pc = "mail"
    BY <1>18 DEF MailNotNeeded, At
  <2>3. settled' \subseteq settled \cup {<<key, "mail">>}
    BY <1>18 DEF MailNotNeeded
  <2> HIDE DEF state, key
  <2> QED BY <1>11, <2>1, <2>2, <2>3
<1>19. CASE MailRefused(p)
  <2> DEFINE state == [s EXCEPT !.pc = "finish"]
  <2>1. state.pc = "finish" /\ state.batch = s.batch
    BY <1>1 DEF Pass
  <2>2. Become(p, state) /\ queue' = queue /\ settled' = settled /\ s.pc = "mail"
    BY <1>19 DEF MailRefused, At
  <2> HIDE DEF state
  <2> QED BY <1>11, <2>1, <2>2
<1>20. ASSUME s.pc \in Delivering
       PROVE  /\ Current(p) \in s.batch /\ Current(p) = First(s.batch)
              /\ key = KeyOf(First(s.batch).row)
              /\ id \in DOMAIN queue /\ KeyOf(queue[id]) = key /\ key \in Key
              /\ \A c \in s.batch : KeyOf(c.row) = key => c = Current(p)
  <2>1. Current(p) \in s.batch /\ \A c \in s.batch : c # Current(p) => c.id # id
    BY <1>1, <1>20, CurrentFiled
  <2>2. \A c \in s.batch : c.id \in DOMAIN queue
    BY <1>6, <1>20 DEF BatchOnce
  <2>3. \A c \in s.batch : KeyOf(queue[c.id]) = KeyOf(c.row)
    BY <1>1, <1>20, <2>2 DEF Vouched, PassVouched, BatchVouched
  <2>4. \A c \in s.batch : KeyOf(c.row) = key => c.id = id
    BY <1>1, <2>1, <2>2, <2>3 DEF Filed, KeysOnce, CurrentKey
  <2>5. key \in Key
    BY <1>1, <1>20, PassFit
  <2> QED BY <2>1, <2>2, <2>3, <2>4, <2>5 DEF CurrentKey, Current
<1>21. CASE MailAccepted(p)
  <2>1. /\ pass'[p] = [s EXCEPT !.pc = "record", !.mailed = TRUE]
        /\ queue' = queue /\ s.pc = "mail"
    BY <1>2, <1>21 DEF MailAccepted, At
  <2>2. pass'[p].pc = "record" /\ pass'[p].batch = s.batch
    BY <1>1, <2>1 DEF Pass
  <2>3. settled' = settled \cup {<<key, "mail">>, <<key, "inbox">>}
    BY <1>21 DEF MailAccepted
  <2>4. \A k : <<k, "inbox">> \in settled' => <<k, "inbox">> \in settled \/ k = key
    <3> HIDE DEF key
    <3> QED BY <2>3
  <2>5. TableOnce(pass'[p], queue', settled', now')
    <3> SUFFICES ASSUME NEW k \in Key, <<k, "inbox">> \in settled'
                 PROVE  \/ k \notin Keys(queue) /\ Past(k, now)
                        \/ \E i \in DOMAIN queue :
                              /\ KeyOf(queue[i]) = k
                              /\ queue[i].mailed \/ KeyOf(First(s.batch).row) = k
      BY <1>3, <2>1, <2>2 DEF TableOnce, Since, Planning
    <3>1. CASE k = key
      BY <1>20, <2>1, <3>1 DEF Delivering
    <3>2. CASE <<k, "inbox">> \in settled
      BY <1>6, <1>8, <2>1, <3>2 DEF TableOnce
    <3> QED BY <2>4, <3>1, <3>2
  <2>6. BatchOnce(pass'[p], queue', settled')
    <3> SUFFICES ASSUME NEW c \in s.batch
                 PROVE  /\ c.id \in DOMAIN queue
                        /\ <<KeyOf(c.row), "inbox">> \in settled' =>
                              c.row.mailed \/ c = First(s.batch)
      BY <2>1, <2>2 DEF BatchOnce
    <3>1. c.id \in DOMAIN queue /\ (<<KeyOf(c.row), "inbox">> \in settled => c.row.mailed)
      BY <1>6, <2>1 DEF BatchOnce, Delivering
    <3>2. KeyOf(c.row) = key => c = First(s.batch)
      BY <1>20, <2>1 DEF Delivering
    <3> QED BY <2>4, <3>1, <3>2
  <2> QED BY <1>7, <2>2, <2>5, <2>6
<1>22. CASE RecordMail(p)
  <2>1. /\ pass'[p] = [s EXCEPT !.pc = "finish"] /\ settled' = settled
        /\ queue' = MarkEmailSent(queue, id) /\ s.pc = "record"
    BY <1>2, <1>22 DEF RecordMail, At
  <2>2. pass'[p].pc = "finish" /\ pass'[p].batch = s.batch
    BY <1>1, <2>1 DEF Pass
  <2>3. /\ \A i \in DOMAIN queue : queue[i].mailed => queue'[i].mailed
        /\ id \in DOMAIN queue => queue'[id].mailed
    BY <1>1, <2>1, StatementsMail
  <2>4. TableOnce(pass'[p], queue', settled', now')
    <3> SUFFICES ASSUME NEW k \in Key, <<k, "inbox">> \in settled
                 PROVE  \/ k \notin Keys(queue') /\ Past(k, now)
                        \/ \E i \in DOMAIN queue' : KeyOf(queue'[i]) = k /\ queue'[i].mailed
      BY <1>3, <2>1, <2>2 DEF TableOnce, Since, Planning
    <3>1. CASE k = key
      BY <1>5, <1>20, <2>1, <2>3, <3>1 DEF Delivering
    <3>2. CASE k # key
      <4>1. \/ k \notin Keys(queue) /\ Past(k, now)
            \/ \E i \in DOMAIN queue : KeyOf(queue[i]) = k /\ queue[i].mailed
        BY <1>6, <1>8, <1>20, <2>1, <3>2 DEF TableOnce, Delivering
      <4> QED BY <1>5, <2>3, <4>1
    <3> QED BY <3>1, <3>2
  <2>5. BatchOnce(pass'[p], queue', settled')
    BY <1>5, <1>6, <2>1, <2>2 DEF BatchOnce, Delivering
  <2> QED BY <1>7, <2>2, <2>4, <2>5
<1> QED BY <1>12, <1>13, <1>14, <1>15, <1>16, <1>17, <1>18, <1>19, <1>21, <1>22
       DEF DeliverStep

LEMMA NextCalm ==
    ASSUME OnceInv, TypeInv', SingleWriter, [Next]_vars
    PROVE  Calm'
<1> USE DEF stored
<1>1. SUFFICES ASSUME edits' = 0, faults' = 0
               PROVE  Calm'
  BY DEF Calm
<1>2. edits \in Nat /\ faults \in Nat /\ now \in Nat
  BY DEF OnceInv, TypeInv, TypeOK
<1>3. ~Family /\ ~Crash
      /\ \A p \in Passes : ~PlanFails(p) /\ ~ReconcileFails(p) /\ ~DeliverFails(p)
  <2>1. ~Edit
    BY <1>1, <1>2 DEF Edit
  <2>2. ~Fault
    BY <1>1, <1>2 DEF Fault
  <2> QED BY <2>1, <2>2 DEF Family, CreateEvent, MoveEvent, DeleteEvent, SetHeard,
                            PatchPrefs, Subscribe, PressTest, Crash, PlanFails,
                            ReconcileFails, DeliverFails
<1>4. ASSUME NEW p \in Passes, PassStep(p) PROVE Calm'
  <2>1. edits' = edits /\ faults' = faults
    BY <1>4 DEF PassStep, PlanStep, DeliverStep, CatchUp, Tick, Start, Plan, Enqueue,
                PlanPartial, Reconcile, Drop, RecordHorizon, Drain, SkipStale,
                DeferBackingOff, Attempt, ReadRecipient, SkipEmpty, Push,
                MailNotNeeded, MailAccepted, MailRefused, RecordMail,
                DeferIncomplete, Deliver
  <2> QED BY <1>1, <1>4, <2>1, PlanCalm, DeliverCalm DEF PassStep
<1>5. ASSUME UNCHANGED <<stored, settled, edits, faults>>
      PROVE  /\ \A k \in Keys(queue') : Based(k)'
             /\ \A p \in Passes : PassOnce(pass[p])
  BY <1>1, <1>5 DEF OnceInv, Calm, Based
<1>6. CASE UNCHANGED vars
  <2>1. \A p \in Passes : PassOnce(pass[p])'
    BY <1>5, <1>6 DEF vars, PassOnce
  <2> QED BY <1>5, <1>6, <2>1 DEF vars, Calm
<1>7. CASE Advance
  <2>1. now' = now + 1 /\ pass' = pass /\ up' = up
        /\ UNCHANGED <<stored, settled, edits, faults>>
    BY <1>7 DEF Advance
  <2>2. ASSUME NEW p \in Passes PROVE PassOnce(pass[p])'
    <3>1. PassOnce(pass[p]) /\ pass[p].from \in Nat /\ pass[p] \in Pass
      BY <1>5, <2>1, PassFit DEF OnceInv, Pass
    <3>2. /\ Since(pass[p], now) \in Nat /\ Since(pass[p], now') \in Nat
          /\ Since(pass[p], now) <= Since(pass[p], now')
      BY <1>2, <2>1, <3>1 DEF Since
    <3>3. TableOnce(pass[p], queue, settled, now')
      BY <3>1, <3>2, PastStays DEF PassOnce, TableOnce
    <3>4. pass[p].pc \in {"lock"} \cup Planning => pass[p].from <= now'
      BY <1>2, <2>1, <3>1 DEF PassOnce
    <3> QED BY <2>1, <3>1, <3>3, <3>4 DEF PassOnce
  <2> QED BY <1>5, <2>1, <2>2 DEF Calm
<1>8. CASE Boot
  <2>1. /\ ~up /\ UNCHANGED <<stored, settled, edits, faults, now>>
        /\ pass'[Scheduler] = [Idle EXCEPT !.pc = "boot"]
    BY <1>8, NotifierConstants DEF Boot, Become, OnceInv, TypeInv, TypeOK
  <2>2. settled = {}
    BY <1>5, <2>1, NotifierConstants DEF PassOnce
  <2>3. pass'[Scheduler].pc = "boot"
    BY <2>1 DEF Idle
  <2>4. PassOnce(pass[Scheduler])'
    BY <2>1, <2>2, <2>3 DEF PassOnce, TableOnce, BatchOnce, Planning, Delivering
  <2> QED BY <1>5, <2>1, <2>4 DEF Calm, SingleWriter
<1> QED BY <1>3, <1>4, <1>6, <1>7, <1>8 DEF Next

MailsOnce ==
    \A p \in Passes :
        MailAccepted(p) /\ <<CurrentKey(p), "inbox">> \in settled
            => edits > 0 \/ faults > 0

(* With one pass at a time, no edit and no fault, no notification is mailed *)
(* twice: however often the push of a row is refused and the row retried,   *)
(* skipped or dropped by reconcile, what was mailed is on its row or the    *)
(* row is gone for good.                                                    *)
THEOREM MailGoesOutOnce ==
    ASSUME SingleWriter
    PROVE  Spec => MailedOnce
<1>1. Init => OnceInv
  BY InitType, InitVouched, InitFiled, InitHeld, InitCalm DEF OnceInv
<1>2. OnceInv /\ [Next]_vars => OnceInv'
  <2> SUFFICES ASSUME OnceInv, [Next]_vars PROVE OnceInv'
    OBVIOUS
  <2>1. TypeInv /\ Vouched /\ Filed /\ Held
    BY DEF OnceInv
  <2>2. TypeInv'
    BY <2>1, NextType
  <2>3. Vouched' /\ Filed' /\ Held' /\ Calm'
    BY <2>1, <2>2, NextVouched, NextFiled, NextHeld, NextCalm
  <2> QED BY <2>2, <2>3 DEF OnceInv
<1>3. OnceInv => MailsOnce
  <2> SUFFICES ASSUME OnceInv, NEW p \in Passes, MailAccepted(p),
                      <<CurrentKey(p), "inbox">> \in settled, edits = 0, faults = 0
               PROVE  FALSE
    BY DEF MailsOnce, OnceInv, TypeInv, TypeOK
  <2>1. pass[p].pc = "mail" /\ ~Current(p).row.mailed
    BY DEF MailAccepted, At
  <2>2. Current(p) \in pass[p].batch
    BY <2>1, CurrentFiled DEF OnceInv, Delivering
  <2>3. BatchOnce(pass[p], queue, settled)
    BY DEF OnceInv, Calm, PassOnce
  <2> QED BY <2>1, <2>2, <2>3 DEF BatchOnce, Delivering, CurrentKey
<1>4. MailedOnce <=> [][MailsOnce]_vars
  BY DEF MailedOnce, MailsOnce
<1> QED BY <1>1, <1>2, <1>3, <1>4, PTL DEF Spec
=============================================================================
