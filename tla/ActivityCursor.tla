--------------------------- MODULE ActivityCursor ---------------------------
(***************************************************************************)
(* How a change of the calendar becomes an announcement. An edit commits a *)
(* row of activity_log with itself; each planning pass reads the log from  *)
(* a cursor kept in four keys of the meta table, files an announcement of  *)
(* each change for each member it concerns, and moves the cursor           *)
(* (Notifier.planActivity). The ids of the log and of the calendars are    *)
(* both handed out again, so the cursor carries a witness of the change it *)
(* was set from and is repaired when that no longer agrees                 *)
(* (Notifier.repairCursor).                                                *)
(*                                                                         *)
(* One member is followed, the reader; the others make the changes. Passes *)
(* are one at a time (Notifier.planMu). Every statement is a step.         *)
(***************************************************************************)
EXTENDS Rowid, FiniteSets

CONSTANTS
    CalendarIds,   \* bound: calendar ids
    Founding,      \* the calendars of the household at the start
    LogIds,        \* bound: activity_log ids
    MaxLateness,   \* maxActivityLateness
    Limit,         \* activityCatchUpLimit
    MaxTime,       \* bound: the clock stops here
    MaxEdits,      \* bound: how many times the family changes something
    MaxFaults      \* bound: how many errors and crashes happen

ASSUME CursorConstants ==
    /\ CalendarIds \subseteq Nat \ {0}
    /\ Founding \subseteq CalendarIds
    /\ LogIds \subseteq Nat \ {0}
    /\ 1 \in LogIds
    /\ MaxLateness \in Nat
    /\ Limit \in Nat \ {0}
    /\ MaxTime \in Nat
    /\ MaxEdits \in Nat
    /\ MaxFaults \in Nat

VARIABLES
    now,          \* the clock, in seconds; 0 is the zero time
    calendars,    \* calendars and the reader's row of calendar_members
    log,          \* activity_log
    meta,         \* the four keys of the cursor
    outbox,       \* the reader's announcements in notification_queue
    pass,         \* the local state of planActivity
    serial,       \* history: how many changes were ever logged
    overlooked,   \* history: changes made while a pass was between its reads
    edits, faults \* how much of the two bounds is used

vars == <<now, calendars, log, meta, outbox, pass, serial, overlooked, edits, faults>>

(* joined = 0: the reader is not a member. *)
Calendar == [joined : Nat, muted : BOOLEAN]

(* uid = 0: logged before migration 0006, without a change_uid. owed: the  *)
(* reader has been a listening member ever since the change was made, by   *)
(* somebody else and after the first pass.                                 *)
Change == [cal : CalendarIds, at : Nat, uid : Nat, mine : BOOLEAN,
           serial : Nat, owed : BOOLEAN]

(* started = FALSE: no cursor is stored. A zero is an absent key. *)
Cursor == [id : Nat, cal : Nat, at : Nat, uid : Nat]

Key == [id : LogIds, uid : Nat, at : Nat]

Copy == [id : LogIds, row : Change]

Pass == [pc     : {"idle", "cursor", "newest", "check", "reset", "list",
                   "look", "file", "end", "write"},
         since  : Nat,                  \* history: serial when it began
         cals   : SUBSET CalendarIds,   \* allCalendarIDs
         cursor : Cursor,               \* the cursor read, or reset to
         next   : Cursor,               \* the change last handled
         acts   : SUBSET Copy,          \* changes still to announce
         named  : SUBSET CalendarIds,   \* the cache of calendar names
         tell   : BOOLEAN,              \* the current change concerns the reader
         field  : 1 .. 4,               \* which of the four keys is next
         then   : {"list", "idle"}]     \* what follows the write

NoCursor == [id |-> 0, cal |-> 0, at |-> 0, uid |-> 0]

Idle == [pc |-> "idle", since |-> 0, cals |-> {}, cursor |-> NoCursor, next |-> NoCursor,
         acts |-> {}, named |-> {}, tell |-> FALSE, field |-> 1, then |-> "idle"]

(* ActivitySourceRef and the slot: what the outbox files a change under. *)
KeyOf(i, row) == [id |-> i, uid |-> row.uid, at |-> row.at]

CursorAt(i, row) == [id |-> i, cal |-> row.cal, at |-> row.at, uid |-> row.uid]

Fault == faults < MaxFaults /\ faults' = faults + 1

-----------------------------------------------------------------------------
(* A fresh household, or one that upgrades: its last change has no name    *)
(* and its cursor, if it ever planned, has the witness of some release.    *)
Init ==
    /\ now = 1
    /\ calendars = [c \in Founding |-> [joined |-> 1, muted |-> FALSE]]
    /\ \/ /\ log = [i \in {} |-> 0]
          /\ serial = 0
          /\ meta = [started |-> FALSE, cursor |-> NoCursor]
       \/ /\ \E c \in Founding :
                log = [i \in {1} |-> [cal |-> c, at |-> 1, uid |-> 0, mine |-> FALSE,
                                      serial |-> 1, owed |-> FALSE]]
          /\ serial = 1
          /\ meta \in {[started |-> FALSE, cursor |-> NoCursor],
                       [started |-> TRUE, cursor |-> [NoCursor EXCEPT !.id = 1]],
                       [started |-> TRUE, cursor |-> CursorAt(1, log[1])]}
    /\ outbox = {}
    /\ pass = Idle
    /\ overlooked = {}
    /\ edits = 0
    /\ faults = 0

-----------------------------------------------------------------------------
(* The family. *)

Advance ==
    /\ now < MaxTime
    /\ now' = now + 1
    /\ UNCHANGED <<calendars, log, meta, outbox, pass, serial, overlooked, edits, faults>>

Edit ==
    /\ edits < MaxEdits
    /\ edits' = edits + 1
    /\ UNCHANGED <<now, meta, pass, overlooked, faults>>

(* The reader or somebody else makes a calendar, and is its first member.  *)
(* Its number may be one that was in use.                                  *)
CreateCalendar ==
    /\ Edit
    /\ \E c \in CalendarIds, joined \in {0, now} :
          /\ IsNextId(calendars, c)
          /\ calendars' = Insert(calendars, c, [joined |-> joined, muted |-> FALSE])
    /\ UNCHANGED <<log, outbox, serial>>

(* The log rows cascade; the announcements not yet delivered go first, in  *)
(* the same transaction, and which those are is the dispatcher's affair.   *)
DeleteCalendar(c) ==
    LET gone == {i \in DOMAIN log : log[i].cal = c}
    IN  /\ Edit
        /\ calendars' = Without(calendars, {c})
        /\ log' = Without(log, gone)
        /\ \E unsent \in SUBSET {KeyOf(i, log[i]) : i \in gone} :
              outbox' = outbox \ unsent
        /\ UNCHANGED serial

(* AddMember is idempotent. *)
Join(c) ==
    /\ Edit
    /\ calendars[c].joined = 0
    /\ calendars' = [calendars EXCEPT ![c] = [joined |-> now, muted |-> FALSE]]
    /\ UNCHANGED <<log, outbox, serial>>

(* Leaving or muting: the reader is owed nothing more of this calendar. *)
Disown(c) ==
    log' = [i \in DOMAIN log |->
               IF log[i].cal = c THEN [log[i] EXCEPT !.owed = FALSE] ELSE log[i]]

Leave(c) ==
    /\ Edit
    /\ calendars[c].joined # 0
    /\ calendars' = [calendars EXCEPT ![c] = [joined |-> 0, muted |-> FALSE]]
    /\ Disown(c)
    /\ UNCHANGED <<outbox, serial>>

SetMuted(c, b) ==
    /\ Edit
    /\ calendars[c].joined # 0
    /\ calendars[c].muted # b
    /\ calendars' = [calendars EXCEPT ![c].muted = b]
    /\ Disown(c)
    /\ UNCHANGED <<outbox, serial>>

(* LogActivity, in the transaction of the edit. *)
LogChange(c, mine) ==
    /\ Edit
    /\ mine => calendars[c].joined # 0
    /\ serial' = serial + 1
    /\ \E i \in LogIds :
          /\ IsNextId(log, i)
          /\ log' = Insert(log, i,
                [cal |-> c, at |-> now, uid |-> serial', mine |-> mine,
                 serial |-> serial',
                 owed |-> ~mine /\ calendars[c].joined # 0 /\ ~calendars[c].muted])
    /\ UNCHANGED <<calendars, outbox>>

-----------------------------------------------------------------------------
(* Reads of the log, scoped to the calendars the pass knows. *)

Known(cals) == {i \in DOMAIN log : log[i].cal \in cals}

Highest(ids) == CHOOSE i \in ids : \A j \in ids : j <= i
Lowest(ids) == CHOOSE i \in ids : \A j \in ids : i <= j

CursorAtLast(ids) == IF ids = {} THEN NoCursor
                     ELSE CursorAt(Highest(ids), log[Highest(ids)])

(* ListActivityBetween(zero, now - maxActivityLateness): what delivery     *)
(* would refuse anyway.                                                    *)
Settled(cals) == {i \in Known(cals) : now - log[i].at > MaxLateness}

(* ListActivityAfter: the oldest limit changes past the cursor. *)
After(cals, id) ==
    LET later == {i \in Known(cals) : i > id}
    IN  {i \in later : Cardinality({j \in later : j < i}) < Limit}

Vouched(cursor) == cursor.cal # 0 /\ cursor.at # 0

(* Mutation: the witness of the release before 0006. *)
NamesByThree(cursor, i) ==
    /\ i = cursor.id
    /\ log[i].cal = cursor.cal /\ log[i].at = cursor.at

(* activityCursor.names *)
Names(cursor, i) == CursorAt(i, log[i]) = cursor

-----------------------------------------------------------------------------
(* One pass of planActivity. *)

Unchanged == UNCHANGED <<now, calendars, log, serial, edits>>

ReadCalendars ==
    /\ pass.pc = "idle"
    /\ DOMAIN calendars # {}
    /\ pass' = [Idle EXCEPT !.pc = "cursor", !.since = serial,
                          !.cals = DOMAIN calendars]
    /\ UNCHANGED <<meta, outbox, overlooked, faults>> /\ Unchanged

(* A cursor of 0 is trusted: nothing was announced, nothing stepped over. *)
ReadCursor ==
    /\ pass.pc = "cursor"
    /\ pass' = [pass EXCEPT
          !.cursor = meta.cursor,
          !.pc = CASE ~meta.started            -> "newest"
                   [] meta.started /\ meta.cursor.id = 0 -> "list"
                   [] meta.started /\ meta.cursor.id # 0 ->
                        IF Vouched(meta.cursor) THEN "check" ELSE "reset"]
    /\ UNCHANGED <<meta, outbox, overlooked, faults>> /\ Unchanged

Write(cursor, then) ==
    pass' = [Idle EXCEPT !.pc = "write", !.then = then, !.cursor = cursor,
                         !.cals = IF then = "list" THEN pass.cals ELSE {},
                         !.since = IF then = "list" THEN pass.since ELSE 0]

(* First ever pass: start from the present, history is nobody's news. *)
StartFromPresent ==
    /\ pass.pc = "newest"
    /\ Write(CursorAtLast(Known(pass.cals)), "idle")
    /\ log' = [i \in DOMAIN log |-> [log[i] EXCEPT !.owed = FALSE]]
    /\ UNCHANGED <<now, calendars, meta, outbox, serial, overlooked, edits, faults>>

CheckCursor ==
    /\ pass.pc = "check"
    /\ LET id == pass.cursor.id
       IN  pass' = [pass EXCEPT !.pc =
              IF id \in Known(pass.cals) /\ Names(pass.cursor, id)
              THEN "list" ELSE "reset"]
    /\ UNCHANGED <<meta, outbox, overlooked, faults>> /\ Unchanged

ResetCursor ==
    /\ pass.pc = "reset"
    /\ Write(CursorAtLast(Settled(pass.cals)), "list")
    /\ UNCHANGED <<meta, outbox, overlooked, faults>> /\ Unchanged

LastField == 4

(* setActivityCursor: four statements, the id first. *)
WriteField ==
    /\ pass.pc = "write"
    /\ meta' = [started |-> TRUE,
                cursor |-> CASE pass.field = 1 -> [meta.cursor EXCEPT !.id = pass.cursor.id]
                             [] pass.field = 2 -> [meta.cursor EXCEPT !.cal = pass.cursor.cal]
                             [] pass.field = 3 -> [meta.cursor EXCEPT !.at = pass.cursor.at]
                             [] pass.field = 4 -> [meta.cursor EXCEPT !.uid = pass.cursor.uid]]
    /\ pass' = IF pass.field < LastField THEN [pass EXCEPT !.field = @ + 1]
               ELSE IF pass.then = "list"
               THEN [pass EXCEPT !.pc = "list", !.field = 1, !.then = "idle"]
               ELSE Idle
    /\ UNCHANGED <<outbox, overlooked, faults>> /\ Unchanged

ListLog ==
    /\ pass.pc = "list"
    /\ LET acts == After(pass.cals, pass.cursor.id)
       IN  /\ pass' = [Idle EXCEPT !.pc = IF acts = {} THEN "end" ELSE "look",
                          !.cursor = pass.cursor, !.next = pass.cursor,
                          !.acts = {[id |-> i, row |-> log[i]] : i \in acts}]
           /\ overlooked' = overlooked \cup
                 {log[i].serial : i \in {i \in DOMAIN log \ acts :
                     log[i].serial > pass.since /\ \E j \in acts : i < j}}
    /\ UNCHANGED <<meta, outbox, faults>> /\ Unchanged

(* The change the pass is announcing, as the listing returned it. *)
Current == CHOOSE a \in pass.acts : a.id = Lowest({b.id : b \in pass.acts})

(* planOneActivity's verdict on the reader as a member. *)
Concerns(row) ==
    /\ row.cal \in DOMAIN calendars
    /\ ~row.mine
    /\ calendars[row.cal].joined # 0
    /\ ~calendars[row.cal].muted
    /\ calendars[row.cal].joined <= row.at

(* planOneActivity reads the members and the calendar; a calendar that is  *)
(* gone ends the batch, unless its name is cached.                         *)
Look ==
    /\ pass.pc = "look"
    /\ LET cal == Current.row.cal
       IN  pass' = IF cal \in DOMAIN calendars \cup pass.named
                   THEN [pass EXCEPT !.pc = "file", !.tell = Concerns(Current.row),
                                     !.named = @ \cup {cal}]
                   ELSE [pass EXCEPT !.pc = "end", !.acts = {}]
    /\ UNCHANGED <<meta, outbox, overlooked, faults>> /\ Unchanged

Handled ==
    LET rest == pass.acts \ {Current}
    IN  [pass EXCEPT !.acts = rest, !.tell = FALSE, !.next = CursorAt(Current.id, Current.row),
                     !.pc = IF rest = {} THEN "end" ELSE "look"]

(* INSERT OR IGNORE; only then does the cursor count the change. *)
File ==
    /\ pass.pc = "file"
    /\ outbox' = IF pass.tell THEN outbox \cup {KeyOf(Current.id, Current.row)}
                 ELSE outbox
    /\ pass' = Handled
    /\ UNCHANGED <<meta, overlooked, faults>> /\ Unchanged

EndBatch ==
    /\ pass.pc = "end"
    /\ IF pass.next = pass.cursor THEN pass' = Idle ELSE Write(pass.next, "idle")
    /\ UNCHANGED <<meta, outbox, overlooked, faults>> /\ Unchanged

-----------------------------------------------------------------------------
(* Faults. *)

(* Mutation: a change that could not be announced is skipped. *)
SkipFails ==
    /\ pass.pc \in {"look", "file"}
    /\ Fault
    /\ pass' = Handled
    /\ UNCHANGED <<meta, outbox, overlooked>> /\ Unchanged

(* A change that could not be announced stops the batch: the cursor is one *)
(* high-water mark.                                                        *)
AnnounceFails ==
    /\ pass.pc \in {"look", "file"}
    /\ Fault
    /\ pass' = [pass EXCEPT !.pc = "end", !.acts = {}, !.tell = FALSE]
    /\ UNCHANGED <<meta, outbox, overlooked>> /\ Unchanged

(* Any other error returns, and a crash may come anywhere: what the meta   *)
(* table and the outbox have stays.                                        *)
Abandon ==
    /\ pass.pc # "idle"
    /\ Fault
    /\ pass' = Idle
    /\ UNCHANGED <<meta, outbox, overlooked>> /\ Unchanged

-----------------------------------------------------------------------------
Family ==
    \/ CreateCalendar
    \/ \E c \in DOMAIN calendars :
          \/ DeleteCalendar(c) \/ Join(c) \/ Leave(c)
          \/ \E b \in BOOLEAN : SetMuted(c, b) \/ LogChange(c, b)

PlanActivity ==
    \/ ReadCalendars \/ ReadCursor \/ StartFromPresent
    \/ CheckCursor \/ ResetCursor \/ WriteField
    \/ ListLog \/ Look \/ File \/ EndBatch

Next == Advance \/ Family \/ PlanActivity \/ AnnounceFails \/ Abandon

Spec == Init /\ [][Next]_vars

(* The scheduler plans on every tick; nothing else has to happen. *)
FairSpec == Spec /\ WF_vars(PlanActivity)

-----------------------------------------------------------------------------
TypeOK ==
    /\ now \in Nat
    /\ DOMAIN calendars \subseteq CalendarIds
    /\ calendars \in [DOMAIN calendars -> Calendar]
    /\ DOMAIN log \subseteq LogIds
    /\ log \in [DOMAIN log -> Change]
    /\ meta \in [started : BOOLEAN, cursor : Cursor]
    /\ outbox \subseteq Key
    /\ pass \in Pass
    /\ serial \in Nat
    /\ overlooked \subseteq Nat
    /\ edits \in Nat
    /\ faults \in Nat

(* The stored cursor would be taken at its word by the next pass. *)
Trusted ==
    /\ meta.started
    /\ \/ meta.cursor.id = 0
       \/ /\ Vouched(meta.cursor)
          /\ meta.cursor.id \in DOMAIN log
          /\ CursorAt(meta.cursor.id, log[meta.cursor.id]) = meta.cursor

(* The changes the reader still has to hear of: owed to her, young enough  *)
(* to be delivered, and not in the outbox.                                 *)
Pending ==
    {i \in DOMAIN log :
        /\ log[i].owed
        /\ now - log[i].at <= MaxLateness
        /\ KeyOf(i, log[i]) \notin outbox}

(* "Nothing ever reads a row the cursor has passed" (planActivity), so a   *)
(* cursor that vouches for itself never has a pending change behind it:    *)
(* through deleted calendars, reused ids of changes and of calendars, one  *)
(* second for many changes, an interruption between any two of the four    *)
(* writes, and errors in the middle of a batch. Changes made while a pass  *)
(* is between its first read and its listing are set apart: the cursor of  *)
(* the code does pass those of a calendar the pass has not listed.         *)
CursorIsSound ==
    Trusted => \A i \in Pending :
                  i > meta.cursor.id \/ log[i].serial \in overlooked

(* Each change owed to the reader is filed, as long as it is young enough  *)
(* and its calendar and her membership last: a stranded cursor, a batch    *)
(* stopped by an error or by the limit is always taken up again.           *)
EveryChangeIsTold ==
    \A i \in LogIds :
        (i \in Pending /\ log[i].serial \notin overlooked)
            ~> (i \notin Pending \/ log[i].serial \in overlooked)
=============================================================================
