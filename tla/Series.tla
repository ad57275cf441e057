------------------------------- MODULE Series -------------------------------
(***************************************************************************)
(* Repeating events: the tables an edit writes (events, recurrences,       *)
(* event_overrides, reminders, reminder_detachments, the unsent rows of    *)
(* notification_queue), the scoped edits of internal/events/edit.go, each  *)
(* one transaction, and the reads that turn rows back into a calendar      *)
(* (internal/events/events.go, the range read of internal/store/events.go, *)
(* the links of a search).                                                 *)
(*                                                                         *)
(* Days are numbers and a week has Week of them; a rule repeats weekly on  *)
(* a set of days of the week, or on the day of its start (the full rules   *)
(* are Recurrence's). An event lasts Span days after its first. The        *)
(* activity row each edit appends is ActivityCursor's, the membership each *)
(* request is checked against Household's.                                 *)
(***************************************************************************)
EXTENDS Rowid, FiniteSets

CONSTANTS
    LastDay,    \* bound: the days an edit can name are 1..LastDay
    Week,       \* days in a week
    Span,       \* days an event lasts beyond its first
    Tail,       \* seriesTailDays
    Rules,      \* bound: the repeats a client sends, [on, until]
    Members,    \* members of the calendar
    Shapes,     \* what a reminder can say: so long before
    MaxEvents,  \* bound: events beyond which no new one is planned
    MaxEdits    \* bound: edits in a behaviour

ASSUME SeriesConstants ==
    /\ LastDay \in Nat \ {0}
    /\ Week \in Nat \ {0}
    /\ Span \in Nat
    /\ Tail \in Nat /\ Span <= Tail
    /\ Rules \subseteq [on : SUBSET (0 .. Week - 1), until : Nat]
    /\ MaxEvents \in Nat /\ MaxEdits \in Nat

VARIABLES
    events,     \* events: id -> row
    recs,       \* recurrences: id -> row
    overrides,  \* event_overrides: <<recurrence, date>> -> event id, 0 for NULL
    reminders,  \* reminders: <<"event" or "series", id, member, shape>> -> the edit that wrote the row
    detached,   \* reminder_detachments: <<event id, member>>
    queued,     \* unsent reminder rows: [event, date, day]
    edits,      \* history: edits so far
    did         \* history: the last request

tables == <<events, recs, overrides, reminders, detached, queued, edits>>
vars == <<tables, did>>

Days == 1 .. LastDay
Horizon == LastDay + Week       \* one week beyond shows what a rule does from then on
Forever == Horizon + 1          \* until IS NULL

EventRow == [rec : Nat, day : Nat]    \* rec 0: NULL
RecRow == [dt : Nat, until : Nat, on : SUBSET (0 .. Week - 1)]
IsTable(table, Row) == DOMAIN table \subseteq Nat \ {0} /\ table \in [DOMAIN table -> Row]

-----------------------------------------------------------------------------
(* internal/recur, of a weekly rule. *)

On(r) == IF r.on = {} THEN {r.dt % Week} ELSE r.on

Occurs(r, d) == r.dt <= d /\ d <= r.until /\ d % Week \in On(r)

Expand(r, from, to) == {d \in from .. to : Occurs(r, d)}

Valid(r) == r.dt <= r.until

ReanchorUnwrapped(r, from, to) == {d + to - from : d \in r.on}    \* mutant
Reanchor(r, from, to) == {(d + to - from + Week * Horizon) % Week : d \in r.on}

-----------------------------------------------------------------------------
(* Rows and how they refer to each other. *)

NoEvent == 0

Templates(r) == {e \in DOMAIN events : events[e].rec = r}
TemplateOf(r) == CHOOSE e \in Templates(r) : \A f \in Templates(r) : e <= f

ExceptionsOf(r) == {k \in DOMAIN overrides : k[1] = r}
CopiesOf(r) == {overrides[k] : k \in ExceptionsOf(r)} \ {NoEvent}
IsCopy(e) == \E k \in DOMAIN overrides : overrides[k] = e

(* OverrideRefByEventID and resolveOverride: the occurrence a copy stands for. *)
StandsFor(e) ==
    {[event |-> TemplateOf(k[1]), date |-> k[2]] :
        k \in {x \in DOMAIN overrides : overrides[x] = e /\ Templates(x[1]) # {}}}
Resolve(e, d) ==
    IF StandsFor(e) = {} THEN [event |-> e, date |-> d]
    ELSE CHOOSE ref \in StandsFor(e) : \A other \in StandsFor(e) : ref.date <= other.date

(* RemindersDetached: a marker, or rows of the member's own on a copy. *)
Own(scope, id, u) == {s \in Shapes : <<scope, id, u, s>> \in DOMAIN reminders}
DetachedByRows(e, u) == IsCopy(e) /\ Own("event", e, u) # {}    \* mutant
Detached(e, u) == <<e, u>> \in detached \/ (IsCopy(e) /\ Own("event", e, u) # {})

-----------------------------------------------------------------------------
(* Reads. An occurrence is the row it shows, the template of its series (0 *)
(* when it stands alone), its date in the series and the day it starts.    *)

Occ(e, t, date, day) == [event |-> e, series |-> t, date |-> date, day |-> day]

Alone(e) == Occ(e, NoEvent, events[e].day, events[e].day)
Edited(t, d, e) == Occ(e, t, d, events[e].day)
Shifted(t, d) == Occ(t, t, d, d)

Overlaps(o, from, to) == o.day <= to /\ o.day + Span >= from

(* The singles and the series EventsInRange reads for a window. *)
Singles(from, to) ==
    {e \in DOMAIN events : /\ events[e].rec = 0
                           /\ ~IsCopy(e)
                           /\ events[e].day <= to /\ events[e].day + Span >= from}
SeriesInReach(from, to) ==    \* mutant: forgets the occurrences moved in from elsewhere
    {t \in DOMAIN events : /\ events[t].rec # 0
                           /\ recs[events[t].rec].dt <= to
                           /\ recs[events[t].rec].until >= from - Tail}
SeriesInRange(from, to) ==
    {t \in DOMAIN events : /\ events[t].rec # 0
                           /\ \/ /\ recs[events[t].rec].dt <= to
                                 /\ recs[events[t].rec].until >= from - Tail
                              \/ CopiesOf(events[t].rec) # {}}

(* expandSeries *)
ExpandSeries(t, from, to) ==
    LET r     == events[t].rec
        dates == Expand(recs[r], from - Span - 1, to)
        plain == {Shifted(t, d) : d \in {x \in dates : <<r, x>> \notin DOMAIN overrides}}
        moved == {Edited(t, k[2], overrides[k]) :
                     k \in {x \in ExceptionsOf(r) : /\ overrides[x] \in DOMAIN events
                                                    /\ Occurs(recs[r], x[2])}}
    IN  {o \in plain \cup moved : Overlaps(o, from, to)}

Occurrences(from, to) ==
    {Alone(e) : e \in Singles(from, to)}
      \cup UNION {ExpandSeries(t, from, to) : t \in SeriesInRange(from, to)}

(* Service.Occurrence: the occurrence an id and a date open, or none. *)
Occurrence(id, when) ==
    LET e == Resolve(id, when).event
        d == Resolve(id, when).date
        r == events[e].rec
    IN  IF r = 0 THEN {Alone(e)}
        ELSE IF <<r, d>> \in DOMAIN overrides
        THEN {Edited(e, d, c) : c \in {overrides[<<r, d>>]} \cap DOMAIN events}
        ELSE {Shifted(e, x) : x \in {d} \cap Expand(recs[r], d, d)}

(* The reminders the planner acts on for an occurrence. *)
Effective(o, u) ==
    LET inherited == IF o.series = NoEvent \/ (o.event # o.series /\ Detached(o.event, u))
                     THEN {} ELSE Own("series", events[o.series].rec, u)
    IN  Own("event", o.event, u) \cup inherited

(* The reminders the editor shows for an occurrence (handleGetEvent).       *)
MyRemindersOfSeries(o, u) ==    \* mutant: a copy's own list is not asked for
    IF o.series = NoEvent THEN Own("event", o.event, u)
    ELSE Own("series", events[o.series].rec, u)
MyReminders(o, u) ==
    IF o.series = NoEvent THEN Own("event", o.event, u)
    ELSE IF o.event # o.series /\ Detached(o.event, u) THEN Own("event", o.event, u)
    ELSE Own("series", events[o.series].rec, u)

(* The date handleSearch links a series to: the next that is not struck    *)
(* out, or the last.                                                       *)
Struck(r) == {k[2] : k \in {x \in ExceptionsOf(r) : overrides[x] = NoEvent}}
LiveAndStruck(r) == Expand(recs[r], 1, Horizon)    \* mutant
Live(r) == Expand(recs[r], 1, Horizon) \ Struck(r)
LinkDates(r, today) ==
    LET ahead == {d \in Live(r) : d >= today}
    IN  IF ahead # {} THEN {d \in ahead : \A x \in ahead : d <= x}
        ELSE {d \in Live(r) : recs[r].until # Forever /\ \A x \in Live(r) : d >= x}

-----------------------------------------------------------------------------
(* Writes. Deleting an event takes with it, by the schema's cascades, its  *)
(* reminders, its markers and the override rows that point at it; deleting *)
(* a recurrence its overrides and its reminders.                           *)

CreateEvent(e, row) == IsNextId(events, e) /\ events' = Insert(events, e, row)
UpdateEvent(e, day) == events' = [events EXCEPT ![e].day = day]
UpdateRecurrence(r, row) == recs' = [recs EXCEPT ![r] = row]
SetOverride(k, e) == overrides' = Insert(overrides, k, e)

WithoutEvents(gone) ==
    /\ events' = Without(events, gone)
    /\ detached' = {m \in detached : m[1] \notin gone}

RemindersWithout(gone, r) ==
    Without(reminders, {k \in DOMAIN reminders : \/ k[1] = "event" /\ k[2] \in gone
                                                 \/ k[1] = "series" /\ k[2] = r})

OverridesWithout(gone) ==
    Without(overrides, {k \in DOMAIN overrides : overrides[k] \in gone})

(* pruneQueued with EventSourcePrefix and with OccurrenceSourcePrefix *)
PruneEvent(e) == {q \in queued : q.event # e}
PruneByDay(e, d) == {q \in queued : q.event # e \/ q.day # d}    \* mutant
PruneOccurrence(e, d) == {q \in queued : q.event # e \/ q.date # d}

Edit == edits < MaxEdits /\ edits' = edits + 1

Did(op, e, scope, when, day) ==
    did' = [op |-> op, event |-> e, scope |-> scope, date |-> when, day |-> day]

(* A calendar starts with one series, of which everyone is reminded.       *)
NoRule == [on |-> {}, until |-> 0]

Init ==
    \E rule \in Rules :
       /\ recs = [r \in {1} |-> [dt |-> 1, until |-> rule.until, on |-> rule.on]]
       /\ events = [e \in {1} |-> [rec |-> 1, day |-> 1]]
       /\ reminders = [k \in {"series"} \X {1} \X Members \X Shapes |-> 0]
       /\ overrides = [k \in {} |-> NoEvent]
       /\ detached = {}
       /\ queued = {}
       /\ edits = 0
       /\ did = [op |-> "none", event |-> 0, scope |-> "all", date |-> 0, day |-> 0]

(* Create: an event, or a series when a pattern comes with it. *)

Create(day, rule) ==
    /\ Edit
    /\ Cardinality(DOMAIN events) < MaxEvents
    /\ Did("create", 0, "all", 0, day)
    /\ \E e \in 1 .. MaxEdits + 1 :
          IF rule = NoRule
          THEN CreateEvent(e, [rec |-> 0, day |-> day]) /\ UNCHANGED recs
          ELSE LET new == [dt |-> day, until |-> rule.until, on |-> rule.on]
               IN  /\ Valid(new)
                   /\ \E r \in 1 .. MaxEdits + 1 :
                         /\ IsNextId(recs, r)
                         /\ recs' = Insert(recs, r, new)
                         /\ CreateEvent(e, [rec |-> r, day |-> day])
    /\ UNCHANGED <<overrides, reminders, detached, queued>>

UpdatePlain(e, day) ==
    /\ UpdateEvent(e, day)
    /\ queued' = PruneEvent(e)
    /\ UNCHANGED <<recs, overrides, reminders, detached>>

(* updateSeries, rec being the recurrence the request read. *)
Follow(rec, day) ==
    [rec EXCEPT !.dt = day, !.on = Reanchor(rec, rec.dt, day),
                !.until = IF rec.until < day THEN day ELSE rec.until]

UpdateSeries(t, rec, followMove, day, rule) ==
    LET moved == followMove /\ rule = NoRule
        new   == IF moved THEN Follow(rec, day)
                 ELSE [rec EXCEPT !.dt = day, !.on = rule.on, !.until = rule.until]
    IN  /\ Valid(new)
        /\ moved => Occurs(new, day)
        /\ UpdateRecurrence(events[t].rec, new)
        /\ UpdateEvent(t, day)
        /\ queued' = PruneEvent(t)
        /\ UNCHANGED <<overrides, reminders, detached>>

(* updateOccurrence *)
UpdateOccurrence(t, rec, d, day) ==
    LET k == <<events[t].rec, d>>
    IN  /\ Occurs(rec, d)
        /\ IF k \in DOMAIN overrides /\ overrides[k] # NoEvent
           THEN UpdateEvent(overrides[k], day) /\ UNCHANGED overrides
           ELSE \E e \in 1 .. MaxEdits + 1 :
                   CreateEvent(e, [rec |-> 0, day |-> day]) /\ SetOverride(k, e)
        /\ queued' = PruneOccurrence(t, d)
        /\ UNCHANGED <<recs, reminders, detached>>

(* endOfSeries *)
EndAt(rec, at) == at    \* mutant
EndOfSeries(rec, at) == IF rec.until < at THEN rec.until ELSE at

(* splitSeries: what the second half inherits of the first. *)
SecondHalf(rec, at, day, rule) ==
    [rec EXCEPT !.dt = day,
                !.on = IF rule = NoRule THEN Reanchor(rec, at, day) ELSE rule.on,
                !.until = IF rec.until < day THEN day ELSE rec.until]

(* RepointOverrides, then detachUnreachableOverrides on the second half. *)
RepointedTwice(r, n, at) ==    \* mutant: inserts where it should move
    LET moved == {<<n, k[2]>> : k \in {x \in ExceptionsOf(r) : x[2] >= at}}
    IN  [k \in DOMAIN overrides \cup moved |->
            IF k \in moved THEN overrides[<<r, k[2]>>] ELSE overrides[k]]
RepointedAfter(r, n, at) ==    \* mutant: off by one
    LET kept  == {k \in DOMAIN overrides : k[1] # r \/ k[2] <= at}
        moved == {<<n, k[2]>> : k \in ExceptionsOf(r) \ kept}
    IN  [k \in kept \cup moved |-> IF k \in kept THEN overrides[k] ELSE overrides[<<r, k[2]>>]]
Repointed(r, n, at) ==
    LET kept  == {k \in DOMAIN overrides : k[1] # r \/ k[2] < at}
        moved == {<<n, k[2]>> : k \in ExceptionsOf(r) \ kept}
    IN  [k \in kept \cup moved |-> IF k \in kept THEN overrides[k] ELSE overrides[<<r, k[2]>>]]
Unreachable(table, n, new) == {k \in DOMAIN table : k[1] = n /\ ~Occurs(new, k[2])}

(* copyReminders and keepInheritedReminders: the reminders of series r     *)
(* given to series n, and to the copies that leave it unless the member    *)
(* has set some there.                                                     *)
Inherits(c, u, r) == ~Detached(c, u) /\ Own("series", r, u) # {}
CarriedToSeries(r, n, left) ==    \* mutant: the copies that leave go without
    {<<"series", n, u, s>> : u \in Members, s \in Shapes}
      \cap {<<"series", n, k[3], k[4]>> : k \in {x \in DOMAIN reminders : x[1] = "series" /\ x[2] = r}}
Carried(r, n, left) ==
    LET onSeries == {<<"series", n, u, s>> : u \in Members, s \in Shapes}
        onCopies == {<<"event", c, u, s>> : c \in left, u \in Members, s \in Shapes}
        given(k) == /\ k[4] \in Own("series", r, k[3])
                    /\ k[1] = "series" \/ Inherits(k[2], k[3], r)
    IN  {k \in onSeries \cup onCopies : given(k)}

SplitSeries(t, rec, at, day, rule) ==
    LET r     == events[t].rec
        old   == [rec EXCEPT !.until = EndOfSeries(rec, at - 1)]
        new   == SecondHalf(rec, at, day, rule)
    IN  /\ Valid(new) /\ Occurs(new, day)
        /\ Valid(old)
        /\ \E e \in 1 .. MaxEdits + 1, n \in 1 .. MaxEdits + 1 :
              LET moved == Repointed(r, n, at)
                  lost  == Unreachable(moved, n, new)
                  left  == {moved[k] : k \in lost} \ {NoEvent}
                  given == Carried(r, n, left)
              IN  /\ IsNextId(recs, n)
                  /\ recs' = Insert([recs EXCEPT ![r] = old], n, new)
                  /\ CreateEvent(e, [rec |-> n, day |-> day])
                  /\ overrides' = Without(moved, lost)
                  /\ reminders' = [k \in DOMAIN reminders \cup given |->
                                      IF k \in given THEN edits' ELSE reminders[k]]
                  /\ detached' = detached \cup {m \in left \X Members : Inherits(m[1], m[2], r)}
                  /\ queued' = {q \in queued : q.event \notin {t, e}}

(* Update: the scope of a single is ignored, and a rule comes with it only *)
(* where the code takes one.                                               *)
Update(e, scope, when, day) ==
    LET ref == Resolve(e, when)
        t   == ref.event
        d   == ref.date
        rec == recs[events[t].rec]
    IN  /\ Edit
        /\ Did("update", t, scope, d, day)
        /\ IF events[t].rec = 0
           THEN scope = "all" /\ UpdatePlain(t, day)
           ELSE \/ /\ scope = "all"
                   /\ \E rule \in Rules : UpdateSeries(t, rec, FALSE, day, rule)
                \/ scope = "this" /\ UpdateOccurrence(t, rec, d, day)
                \/ /\ scope = "upcoming"
                   /\ \E rule \in Rules \cup {NoRule} :
                         IF d <= rec.dt THEN UpdateSeries(t, rec, TRUE, day, rule)
                                        ELSE SplitSeries(t, rec, d, day, rule)

(* Delete *)
DeletePlain(e) ==
    /\ WithoutEvents({e})
    /\ overrides' = OverridesWithout({e})
    /\ reminders' = RemindersWithout({e}, 0)
    /\ queued' = PruneEvent(e)
    /\ UNCHANGED recs

CancelOccurrence(t, rec, d) ==
    LET k    == <<events[t].rec, d>>
        copy == {overrides[x] : x \in {k} \cap DOMAIN overrides} \ {NoEvent}
    IN  /\ Occurs(rec, d)
        /\ SetOverride(k, NoEvent)
        /\ WithoutEvents(copy)
        /\ reminders' = RemindersWithout(copy, 0)
        /\ queued' = PruneOccurrence(t, d)
        /\ UNCHANGED recs

DeleteSeries(t) ==
    LET r    == events[t].rec
        gone == CopiesOf(r) \cup {t}
    IN  /\ WithoutEvents(gone)
        /\ recs' = Without(recs, {r})
        /\ overrides' = Without(overrides, ExceptionsOf(r))
        /\ reminders' = RemindersWithout(gone, r)
        /\ queued' = PruneEvent(t)

EndSeries(t, rec, until) ==
    /\ UpdateRecurrence(events[t].rec, [rec EXCEPT !.until = EndOfSeries(rec, until)])
    /\ queued' = PruneEvent(t)
    /\ UNCHANGED <<events, overrides, reminders, detached>>

Delete(e, scope, when) ==
    LET ref == Resolve(e, when)
        t   == ref.event
        d   == ref.date
        rec == recs[events[t].rec]
    IN  /\ Edit
        /\ Did("delete", t, scope, d, 0)
        /\ IF events[t].rec = 0
           THEN scope = "all" /\ DeletePlain(t)
           ELSE \/ scope = "this" /\ CancelOccurrence(t, rec, d)
                \/ scope = "all" /\ DeleteSeries(t)
                \/ /\ scope = "upcoming"
                   /\ IF d <= rec.dt THEN DeleteSeries(t) ELSE EndSeries(t, rec, d - 1)

(* ReplaceReminders: a reminder in both lists keeps its row; a list saved   *)
(* on a copy marks it.                                                      *)
ReplaceReminders(scope, id, u, shapes) ==
    LET asked == {<<scope, id, u, s>> : s \in shapes}
        kept  == {k \in DOMAIN reminders : <<k[1], k[2], k[3]>> # <<scope, id, u>> \/ k \in asked}
    IN  /\ reminders' = [k \in kept \cup asked |-> IF k \in kept THEN reminders[k] ELSE edits']
        /\ detached' = detached \cup (IF scope = "event" /\ IsCopy(id) THEN {<<id, u>>} ELSE {})

(* handlePutReminders: filed with the series of an event that has one.     *)
PutReminders(e, u, shapes) ==
    /\ Edit
    /\ did' = [op |-> "remind", event |-> e, who |-> u, shapes |-> shapes]
    /\ IF events[e].rec = 0 THEN ReplaceReminders("event", e, u, shapes)
                            ELSE ReplaceReminders("series", events[e].rec, u, shapes)
    /\ UNCHANGED <<events, recs, overrides, queued>>

(* A planning pass leaves the unsent rows the calendar calls for (Notifier *)
(* has the pass in detail), filed with the series of an occurrence. After the  *)
(* last edit of a behaviour nothing can go stale any more.                 *)
Source(o) == IF o.series = NoEvent THEN o.event ELSE o.series
Ref(o) == [event |-> Source(o), date |-> o.date, day |-> o.day]

Plan ==
    /\ edits < MaxEdits
    /\ queued' = {Ref(o) : o \in {x \in Occurrences(1, Horizon) :
                                     \E u \in Members : Effective(x, u) # {}}}
    /\ queued' # queued
    /\ Did("plan", 0, "all", 0, 0)
    /\ UNCHANGED <<events, recs, overrides, reminders, detached, edits>>

Scopes == {"this", "upcoming", "all"}

Next ==
    \/ \E day \in Days, rule \in Rules \cup {NoRule} : Create(day, rule)
    \/ \E e \in DOMAIN events, scope \in Scopes, when \in Days, day \in Days :
          Update(e, scope, when, day)
    \/ \E e \in DOMAIN events, scope \in Scopes, when \in Days : Delete(e, scope, when)
    \/ \E e \in DOMAIN events, u \in Members, shapes \in SUBSET Shapes : PutReminders(e, u, shapes)
    \/ Plan

Spec == Init /\ [][Next]_vars

-----------------------------------------------------------------------------
(* Properties. *)

(* The tables hold rows of the right kind. *)
TypeOK ==
    /\ IsTable(events, EventRow) /\ IsTable(recs, RecRow)
    /\ DOMAIN overrides \subseteq Nat \X Nat /\ overrides \in [DOMAIN overrides -> Nat]
    /\ DOMAIN reminders \subseteq {"event", "series"} \X Nat \X Members \X Shapes
    /\ detached \subseteq Nat \X Members
    /\ queued \subseteq [event : Nat, date : Nat, day : Nat]
    /\ edits \in 0 .. MaxEdits

(* A series has exactly one template, every reference finds its row, and a *)
(* copy is a plain event that stands for one occurrence (what              *)
(* OverrideRefByEventID takes for granted and no constraint of the schema  *)
(* says).                                                                  *)
Linked ==
    /\ \A r \in DOMAIN recs : \E t \in Templates(r) : Templates(r) = {t}
    /\ \A e \in DOMAIN events : events[e].rec \in DOMAIN recs \cup {0}
    /\ \A k \in DOMAIN overrides :
          /\ k[1] \in DOMAIN recs
          /\ overrides[k] # NoEvent => /\ overrides[k] \in DOMAIN events
                                       /\ events[overrides[k]].rec = 0
                                       /\ \A x \in DOMAIN overrides \ {k} : overrides[x] # overrides[k]
    /\ \A k \in DOMAIN reminders : k[2] \in IF k[1] = "event" THEN DOMAIN events ELSE DOMAIN recs
    /\ \A m \in detached : m[1] \in DOMAIN events

(* What the family has planned: events that stand alone, and of each       *)
(* series the dates of its rule, as they are or as they were edited, less  *)
(* the ones struck out.                                                    *)
Calendar ==
    {Alone(e) : e \in {x \in DOMAIN events : events[x].rec = 0 /\ ~IsCopy(x)}}
      \cup UNION {LET r == events[t].rec IN
                  {Shifted(t, d) : d \in {x \in Expand(recs[r], 1, Horizon) :
                                             <<r, x>> \notin DOMAIN overrides}}
                    \cup {Edited(t, k[2], overrides[k]) :
                             k \in {x \in ExceptionsOf(r) : /\ overrides[x] # NoEvent
                                                            /\ Occurs(recs[r], x[2])}} :
                  t \in {x \in DOMAIN events : events[x].rec # 0}}

(* A day's view shows what the whole calendar has on that day, an          *)
(* occurrence moved in from outside the reach of its series included: the  *)
(* filter of the range read loses nothing, nothing is drawn twice.         *)
DaysAgree ==
    LET all == Calendar
    IN  \A d \in Days : Occurrences(d, d) = {o \in all : Overlaps(o, d, d)}

(* What is shown opens as shown, by the id of its row or of its series,    *)
(* and so does the date a search links to, on any day the search is made.  *)
LinksOpen ==
    /\ \A o \in Calendar :
          /\ Occurrence(o.event, o.date) = {o}
          /\ o.series # NoEvent => Occurrence(o.series, o.date) = {o}
    /\ \A r \in DOMAIN recs, today \in Days :
          \A d \in LinkDates(r, today) : Occurrence(TemplateOf(r), d) # {}

(* A reminder waiting to be sent is about an occurrence as it stands: no   *)
(* edit leaves one behind for the time an occurrence used to have.         *)
QueuedIsCurrent == queued \subseteq {Ref(o) : o \in Calendar}

(* The editor shows the reminders that will fire: on the template, on a    *)
(* copy that follows its series, on one that does not, on a copy its       *)
(* series has left behind.                                                 *)
EditorIsRight == \A o \in Calendar, u \in Members : MyReminders(o, u) = Effective(o, u)

(* The occurrences a request of a scope is about. *)
Selected(t, scope, d) ==
    {o \in Calendar : /\ o.event = t \/ o.series = t
                      /\ o.series = NoEvent \/ scope = "all"
                           \/ (scope = "this" /\ o.date = d)
                           \/ (scope = "upcoming" /\ o.date >= d)}

(* A deletion removes the occurrences it is about and does nothing else:   *)
(* no other goes, none comes back. An edit leaves the ones it is not about *)
(* where they are.                                                         *)
EditsAreScoped ==
    [][LET about == Selected(did'.event, did'.scope, did'.date) IN
       /\ did'.op = "delete" => Calendar' = Calendar \ about
       /\ did'.op = "update" => Calendar \ about \subseteq Calendar']_vars

(* What the family struck out of a series stays out when the series is     *)
(* edited, cut or split, and what was struck out from the split on stays   *)
(* out of the second half.                                                 *)
Halves(t) == {t} \cup {e \in DOMAIN events' : e \notin DOMAIN events /\ events'[e].rec # 0}
StruckStaysStruck ==
    [][did'.op = "update" =>
       \A t \in DOMAIN events \cap DOMAIN events' :
          events[t].rec # 0 =>
             LET now == Calendar' IN
             \A d \in Struck(events[t].rec) :
                /\ Shifted(t, d) \notin now
                /\ t = did'.event /\ d >= did'.date =>
                      \A h \in Halves(t) : Shifted(h, d) \notin now]_vars

(* After an edit, an occurrence that is still there reminds each member as *)
(* it did: the halves of a series, the copy of an occurrence, the copy its *)
(* series left behind.                                                     *)
Same(o, p, new) ==
    \/ o.event = p.event /\ (o.event = o.series => o.date = p.date)
    \/ o.event = o.series /\ o.event = did'.event /\ p.event \in new /\ o.date = p.date
RemindersAreKept ==
    [][did'.op \in {"update", "delete"} /\ DOMAIN reminders \cup DOMAIN reminders' # {} =>
       LET new == {e \in DOMAIN events' : e \notin DOMAIN events}
           old == Calendar
       IN  \A p \in Calendar' : \A o \in old, u \in Members :
              Same(o, p, new) => Effective(p, u)' = Effective(o, u)]_vars

(* A saved list is the list: on the occurrences of the row it was saved    *)
(* for, for the member who saved it, also when it is empty; on a copy it   *)
(* concerns that occurrence alone. A reminder in both lists keeps its row, *)
(* or the outbox would announce it twice.                                  *)
RemindersAsSaved ==
    [][did'.op = "remind" =>
       /\ \A o \in Calendar, u \in Members :
             IF u = did'.who /\ did'.event \in {o.event, o.series}
             THEN o.event = did'.event => Effective(o, u)' = did'.shapes
             ELSE Effective(o, u)' = Effective(o, u)
       /\ \A k \in DOMAIN reminders \cap DOMAIN reminders' :
             reminders'[k] = reminders[k]]_vars

(* Whatever date an occurrence is moved to, alone or with the ones that    *)
(* follow it, it is shown there afterwards (edit.go: "a series must contain *)
(* its own start; otherwise the edit silently swallows the occurrence it   *)
(* was meant to move").                                                    *)
MovedIsShown ==
    [][did'.op = "update" /\ did'.scope # "all" =>
       \E o \in Calendar' : o.day = did'.day /\ o.series \in Halves(did'.event)]_vars
=============================================================================
