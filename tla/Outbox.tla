------------------------------- MODULE Outbox -------------------------------
(***************************************************************************)
(* The durable outbox: the notification_queue table and the statements     *)
(* internal/store runs against it (internal/store/notify.go), together     *)
(* with the two judgements internal/notify makes about a row from the row  *)
(* alone: whether it is stale and how long a failure keeps it back.        *)
(*                                                                         *)
(* Its row ids are handed out again (Rowid).                               *)
(***************************************************************************)
EXTENDS Rowid, FiniteSets

CONSTANTS
    RowIds,             \* the row ids an instance may use
    Reminders,          \* sources: one reminder of one member for one occurrence,
    Digests,            \*   one day's digest or summary of one member,
    Tests,              \*   one press of the "send me a test" button
    Lead,               \* how long after its slot a reminder's event stays ahead
    LateThreshold,      \* lateness within which delivery is unconditional
    MaxDigestLateness,  \* lateness at which a digest is dropped
    BaseBackoff,        \* the retry backoff is min(BaseBackoff * 2^attempts,
    MaxBackoff          \*                          MaxBackoff)

Sources == Reminders \cup Digests \cup Tests

ASSUME OutboxConstants ==
    /\ RowIds \subseteq Nat \ {0}
    /\ Reminders \cap Digests = {}
    /\ Reminders \cap Tests = {}
    /\ Digests \cap Tests = {}
    /\ Lead \in [Reminders \cup Tests -> Nat]
    /\ LateThreshold \in Nat
    /\ MaxDigestLateness \in Nat
    /\ BaseBackoff \in Nat
    /\ MaxBackoff \in Nat

(* UNIQUE(user_id, kind, source_ref, due_at): what a row is about and when. *)
Key == [src : Sources, due : Nat]

Reason == {"no", "stale", "empty"}

Row == [src     : Sources,
        due     : Nat,
        tries   : Nat,            \* attempts
        touched : Nat,            \* sending_started_at, read only when tries > 0
        mailed  : BOOLEAN,        \* email_sent_at IS NOT NULL
        sent    : BOOLEAN,        \* sent_at IS NOT NULL
        skipped : Reason]         \* "no": skipped IS NULL

IsTable(table) ==
    /\ DOMAIN table \subseteq RowIds
    /\ table \in [DOMAIN table -> Row]

KeyOf(row) == [src |-> row.src, due |-> row.due]

Retired(row) == row.sent \/ row.skipped # "no"

(* Between two tables: what was sent stays, under its number and its key. *)
KeepsSent(before, after) ==
    \A i \in DOMAIN before : before[i].sent =>
        /\ i \in DOMAIN after
        /\ after[i].sent
        /\ KeyOf(after[i]) = KeyOf(before[i])

LiveIds(table) == {i \in DOMAIN table : ~Retired(table[i])}

Keys(table) == {KeyOf(table[i]) : i \in DOMAIN table}

-----------------------------------------------------------------------------
(* The statements that write. Each is one autocommitted statement. *)

NewRow(key) == [src |-> key.src, due |-> key.due, tries |-> 0, touched |-> 0,
                mailed |-> FALSE, sent |-> FALSE, skipped |-> "no"]

(* Mutation: INSERT OR REPLACE. *)
EnqueueReplacing(table, key, after) ==
    IF key \in Keys(table)
    THEN after = [i \in DOMAIN table |->
                     IF KeyOf(table[i]) = key THEN NewRow(key) ELSE table[i]]
    ELSE \E n \in RowIds :
            /\ IsNextId(table, n)
            /\ after = Insert(table, n, NewRow(key))

(* EnqueueNotification: INSERT OR IGNORE. *)
EnqueueNotification(table, key, after) ==
    IF key \in Keys(table)
    THEN after = table
    ELSE \E n \in RowIds :
            /\ IsNextId(table, n)
            /\ after = Insert(table, n, NewRow(key))

(* An UPDATE ... WHERE id = ?: it names the row by its number alone, and *)
(* changes nothing when no row has that number any more.                 *)
Update(table, id, row) ==
    IF id \in DOMAIN table THEN [table EXCEPT ![id] = row] ELSE table

MarkSending(table, id, now) ==
    Update(table, id, [table[id] EXCEPT !.touched = now, !.tries = @ + 1])

MarkSent(table, id) ==
    Update(table, id, [table[id] EXCEPT !.sent = TRUE])

(* Mutation: the email leg is not recorded until the row is finished. *)
MarkEmailForgotten(table, id) == table

MarkEmailSent(table, id) ==
    Update(table, id, [table[id] EXCEPT !.mailed = TRUE])

MarkSkipped(table, id, reason, now) ==
    Update(table, id, [table[id] EXCEPT !.skipped = reason, !.touched = now])

(* Mutation: the deletion loses "AND sent_at IS NULL". *)
DeleteBySource(table, src) ==
    Without(table, {i \in DOMAIN table : table[i].src = src})

(* DeleteQueued: DELETE ... WHERE id = ? AND sent_at IS NULL. *)
DeleteQueued(table, id) ==
    Without(table, {i \in DOMAIN table : i = id /\ ~table[i].sent})

(* DeleteUnsentBySourcePrefix, for the prefix that names one source. *)
DeleteUnsentBySource(table, src) ==
    Without(table, {i \in LiveIds(table) : table[i].src = src})

-----------------------------------------------------------------------------
(* The statements that read. *)

(* A row as a query returned it: later changes of the table do not reach it. *)
Copy == [id : RowIds, row : Row]

(* ORDER BY due_at, id *)
Earlier(c, d) ==
    \/ c.row.due < d.row.due
    \/ c.row.due = d.row.due /\ c.id < d.id

First(copies) == CHOOSE c \in copies : \A d \in copies : ~Earlier(d, c)

(* DueNotifications: the oldest limit live rows whose slot has come. *)
DueNotifications(table, now, limit) ==
    LET due == {[id |-> i, row |-> table[i]] :
                   i \in {i \in LiveIds(table) : table[i].due <= now}}
    IN  {c \in due : Cardinality({d \in due : Earlier(d, c)}) < limit}

(* ListUnsentByKind over the reconcilable kinds. A test row is filed under *)
(* the reminder kind, so the listing returns it too.                       *)
ListUnsent(table, from, to) ==
    {i \in LiveIds(table) : table[i].due >= from /\ table[i].due <= to}

-----------------------------------------------------------------------------
(* What internal/notify concludes from a row. *)

(* payload.eventStillAhead: the thing the row warns about is in the future. *)
EventStillAhead(key, now) == key.due + Lead[key.src] > now

(* Mutation: a reminder never goes stale. *)
StaleDigestsOnly(row, now) ==
    row.src \in Digests /\ now - row.due >= MaxDigestLateness

(* Notifier.staleness *)
Stale(row, now) ==
    /\ now - row.due > LateThreshold
    /\ IF row.src \in Digests
       THEN now - row.due >= MaxDigestLateness
       ELSE ~EventStillAhead(row, now)

(* events.PlannerOwns: a planning pass produces rows of this source. *)
PlannerOwns(src) == src \notin Tests

RetryBackoff(attempts) ==
    IF attempts <= 0 THEN 0
    ELSE IF attempts > 7 \/ BaseBackoff * 2^attempts > MaxBackoff
         THEN MaxBackoff
         ELSE BaseBackoff * 2^attempts

BackingOff(row, now) ==
    row.tries > 0 /\ now - row.touched < RetryBackoff(row.tries)
=============================================================================
