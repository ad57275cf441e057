---------------------------- MODULE SeriesProofs ----------------------------
(***************************************************************************)
(* What the edits of repeating events preserve, for every length of week,  *)
(* of event and of tail, every rule, member and reminder, and any number   *)
(* of edits: the tables refer to each other as the reads expect, so a day  *)
(* shows what the calendar has, a link opens what it shows, the editor     *)
(* shows what will fire and nothing stale waits to be sent; and each edit  *)
(* changes the occurrences it is about and no others.                      *)
(***************************************************************************)
EXTENDS Series, TLAPS

-----------------------------------------------------------------------------
(* The inductive invariant: how the rows refer to each other, in the form  *)
(* an edit can be seen to keep.                                            *)
Anchored == \A r \in DOMAIN recs : recs[r].dt # 0

OneTemplate ==
    \A s, t \in DOMAIN events :
        events[s].rec # 0 /\ events[s].rec = events[t].rec => s = t

HasTemplate == \A r \in DOMAIN recs : \E t \in DOMAIN events : events[t].rec = r

RecsExist == \A e \in DOMAIN events : events[e].rec # 0 => events[e].rec \in DOMAIN recs

ExceptionsOK ==
    \A k \in DOMAIN overrides :
        /\ k[1] \in DOMAIN recs
        /\ overrides[k] # NoEvent => /\ overrides[k] \in DOMAIN events
                                     /\ events[overrides[k]].rec = 0

CopiesDistinct ==
    \A k, l \in DOMAIN overrides :
        overrides[k] = overrides[l] /\ overrides[k] # NoEvent => k = l

(* A template has no reminders of its own: its list is the series'.        *)
RemindersOK ==
    \A k \in DOMAIN reminders :
        /\ k[1] = "event" => k[2] \in DOMAIN events /\ events[k[2]].rec = 0
        /\ k[1] = "series" => k[2] \in DOMAIN recs

MarkersOK == \A m \in detached : m[1] \in DOMAIN events

Shape == /\ Anchored /\ OneTemplate /\ HasTemplate /\ RecsExist
         /\ ExceptionsOK /\ CopiesDistinct /\ RemindersOK /\ MarkersOK

Sound == TypeOK /\ Shape

-----------------------------------------------------------------------------
(* What the tables hold. *)

LEMMA Constants ==
    /\ LastDay \in Nat /\ LastDay # 0 /\ Week \in Nat /\ Week # 0
    /\ Span \in Nat /\ Tail \in Nat /\ Span <= Tail
    /\ Horizon \in Nat /\ LastDay <= Horizon
    /\ MaxEdits \in Nat
BY SeriesConstants DEF Horizon

LEMMA EventFacts ==
    ASSUME TypeOK, NEW e \in DOMAIN events
    PROVE  /\ e \in Nat /\ e # 0
           /\ events[e] \in EventRow /\ events[e].rec \in Nat /\ events[e].day \in Nat
BY DEF TypeOK, IsTable, EventRow

LEMMA RecFacts ==
    ASSUME TypeOK, NEW r \in DOMAIN recs
    PROVE  /\ r \in Nat /\ r # 0
           /\ recs[r] \in RecRow /\ recs[r].dt \in Nat /\ recs[r].until \in Nat
           /\ recs[r].on \in SUBSET (0 .. Week - 1)
BY DEF TypeOK, IsTable, RecRow

LEMMA OverrideFacts ==
    ASSUME TypeOK, NEW k \in DOMAIN overrides
    PROVE  /\ k \in Nat \X Nat /\ k[1] \in Nat /\ k[2] \in Nat /\ k = <<k[1], k[2]>>
           /\ overrides[k] \in Nat
BY DEF TypeOK

LEMMA ReminderFacts ==
    ASSUME TypeOK, NEW k \in DOMAIN reminders
    PROVE  /\ k[1] \in {"event", "series"} /\ k[2] \in Nat /\ k[3] \in Members /\ k[4] \in Shapes
           /\ k = <<k[1], k[2], k[3], k[4]>>
BY DEF TypeOK

(* The invariant gives the links the run checks. *)
LEMMA ShapeIsLinked == Sound => Linked
<1> SUFFICES ASSUME TypeOK, Shape PROVE Linked
  BY DEF Sound
<1>1. ASSUME NEW r \in DOMAIN recs
      PROVE  \E t \in Templates(r) : Templates(r) = {t}
  <2>1. PICK t \in DOMAIN events : events[t].rec = r
    BY DEF Shape, HasTemplate
  <2>2. r # 0
    BY RecFacts
  <2>3. Templates(r) = {t}
    BY <2>1, <2>2 DEF Templates, Shape, OneTemplate
  <2> QED BY <2>3
<1>2. \A e \in DOMAIN events : events[e].rec \in DOMAIN recs \cup {0}
  BY DEF Shape, RecsExist
<1>3. ASSUME NEW k \in DOMAIN overrides
      PROVE  /\ k[1] \in DOMAIN recs
             /\ overrides[k] # NoEvent => /\ overrides[k] \in DOMAIN events
                                          /\ events[overrides[k]].rec = 0
                                          /\ \A x \in DOMAIN overrides \ {k} : overrides[x] # overrides[k]
  BY DEF Shape, ExceptionsOK, CopiesDistinct
<1>4. ASSUME NEW k \in DOMAIN reminders
      PROVE  k[2] \in IF k[1] = "event" THEN DOMAIN events ELSE DOMAIN recs
  BY ReminderFacts DEF Shape, RemindersOK
<1>5. \A m \in detached : m[1] \in DOMAIN events
  BY DEF Shape, MarkersOK
<1> QED BY <1>1, <1>2, <1>3, <1>4, <1>5 DEF Linked

LEMMA SoundInit == Init => Sound
<1> SUFFICES ASSUME Init PROVE Sound
  OBVIOUS
<1>1. PICK rule \in Rules :
          /\ recs = [r \in {1} |-> [dt |-> 1, until |-> rule.until, on |-> rule.on]]
          /\ events = [e \in {1} |-> [rec |-> 1, day |-> 1]]
          /\ reminders = [k \in {"series"} \X {1} \X Members \X Shapes |-> 0]
          /\ overrides = [k \in {} |-> NoEvent]
          /\ detached = {} /\ queued = {} /\ edits = 0
  BY DEF Init
<1>2. rule.until \in Nat /\ rule.on \in SUBSET (0 .. Week - 1)
  BY SeriesConstants
<1>3. DOMAIN recs = {1} /\ recs[1] \in RecRow /\ recs[1].dt = 1
  BY <1>1, <1>2 DEF RecRow
<1>4. DOMAIN events = {1} /\ events[1] \in EventRow /\ events[1].rec = 1
  BY <1>1 DEF EventRow
<1>5. IsTable(recs, RecRow) /\ IsTable(events, EventRow)
  BY <1>1, <1>3, <1>4 DEF IsTable
<1>6. DOMAIN overrides = {} /\ DOMAIN reminders = {"series"} \X {1} \X Members \X Shapes
  BY <1>1
<1>7. \A k \in DOMAIN reminders : k[1] = "series" /\ k[2] = 1
  BY <1>6
<1>8. TypeOK
  BY <1>1, <1>5, <1>6, SeriesConstants DEF TypeOK
<1>9. Shape
  BY <1>1, <1>3, <1>4, <1>6, <1>7 DEF Shape, Anchored, OneTemplate, HasTemplate, RecsExist,
     ExceptionsOK, CopiesDistinct, RemindersOK, MarkersOK
<1> QED BY <1>8, <1>9 DEF Sound

-----------------------------------------------------------------------------
(* The statements. *)

LEMMA UpdateEventIs ==
    ASSUME TypeOK, NEW e \in DOMAIN events, NEW day \in Nat, UpdateEvent(e, day)
    PROVE  /\ IsTable(events', EventRow) /\ DOMAIN events' = DOMAIN events
           /\ events'[e].day = day
           /\ \A x \in DOMAIN events : events'[x].rec = events[x].rec
           /\ \A x \in DOMAIN events : x # e => events'[x] = events[x]
<1>1. events' = [events EXCEPT ![e] = [events[e] EXCEPT !.day = day]]
  BY DEF UpdateEvent
<1>2. /\ [events[e] EXCEPT !.day = day] \in EventRow
      /\ [events[e] EXCEPT !.day = day].rec = events[e].rec
      /\ [events[e] EXCEPT !.day = day].day = day
  BY EventFacts DEF EventRow
<1> QED BY <1>1, <1>2 DEF TypeOK, IsTable

LEMMA CreateEventIs ==
    ASSUME TypeOK, NEW e \in Nat, e # 0, NEW row \in EventRow, CreateEvent(e, row)
    PROVE  /\ IsTable(events', EventRow) /\ DOMAIN events' = DOMAIN events \cup {e}
           /\ e \notin DOMAIN events /\ events'[e] = row
           /\ \A x \in DOMAIN events : events'[x] = events[x]
<1>1. /\ \A i \in DOMAIN events : i < e
      /\ events' = [i \in DOMAIN events \cup {e} |-> IF i = e THEN row ELSE events[i]]
  BY DEF CreateEvent, IsNextId, Insert
<1>2. e \notin DOMAIN events
  BY <1>1
<1>3. \A x \in DOMAIN events : events[x] \in EventRow /\ x \in Nat \ {0}
  BY EventFacts
<1> QED BY <1>1, <1>2, <1>3 DEF IsTable

LEMMA UpdateRecIs ==
    ASSUME TypeOK, NEW r \in DOMAIN recs, NEW row \in RecRow, NEW table,
           table = [recs EXCEPT ![r] = row]
    PROVE  /\ IsTable(table, RecRow) /\ DOMAIN table = DOMAIN recs /\ table[r] = row
           /\ \A x \in DOMAIN recs : x # r => table[x] = recs[x]
BY DEF TypeOK, IsTable

LEMMA ReanchorType ==
    ASSUME NEW r \in RecRow, NEW from \in Nat, NEW to \in Nat
    PROVE  Reanchor(r, from, to) \in SUBSET (0 .. Week - 1)
<1>1. \A d \in r.on : d \in Int
  BY DEF RecRow
<1>2. \A d \in r.on : (d + to - from + Week * Horizon) \in Int
  BY <1>1, Constants
<1>3. \A n \in Int : n % Week \in 0 .. Week - 1
  BY Constants
<1> QED BY <1>2, <1>3 DEF Reanchor

LEMMA FollowType ==
    ASSUME NEW rec \in RecRow, NEW day \in Nat
    PROVE  Follow(rec, day) \in RecRow /\ Follow(rec, day).dt = day
<1> DEFINE on == Reanchor(rec, rec.dt, day)
           until == IF rec.until < day THEN day ELSE rec.until
<1>1. rec.dt \in Nat /\ rec.until \in Nat
  BY DEF RecRow
<1>2. on \in SUBSET (0 .. Week - 1) /\ until \in Nat
  BY <1>1, ReanchorType
<1>3. Follow(rec, day) = [rec EXCEPT !.dt = day, !.on = on, !.until = until]
  BY DEF Follow
<1> HIDE DEF on, until
<1> QED BY <1>2, <1>3 DEF RecRow

LEMMA SecondHalfType ==
    ASSUME NEW rec \in RecRow, NEW at \in Nat, NEW day \in Nat, NEW rule \in Rules \cup {NoRule}
    PROVE  SecondHalf(rec, at, day, rule) \in RecRow /\ SecondHalf(rec, at, day, rule).dt = day
<1> DEFINE on == IF rule = NoRule THEN Reanchor(rec, at, day) ELSE rule.on
           until == IF rec.until < day THEN day ELSE rec.until
<1>1. rec.dt \in Nat /\ rec.until \in Nat
  BY DEF RecRow
<1>2. on \in SUBSET (0 .. Week - 1) /\ until \in Nat
  BY <1>1, ReanchorType, SeriesConstants
<1>3. SecondHalf(rec, at, day, rule) = [rec EXCEPT !.dt = day, !.on = on, !.until = until]
  BY DEF SecondHalf
<1> HIDE DEF on, until
<1> QED BY <1>2, <1>3 DEF RecRow

LEMMA EndedType ==
    ASSUME NEW rec \in RecRow, NEW at \in Nat
    PROVE  LET old == [rec EXCEPT !.until = EndOfSeries(rec, at)]
           IN  /\ old \in RecRow /\ old.dt = rec.dt /\ old.on = rec.on
               /\ \A d \in Nat : d <= old.until <=> (d <= rec.until /\ d <= at)
<1> DEFINE until == EndOfSeries(rec, at)
<1>1. rec.until \in Nat
  BY DEF RecRow
<1>2. until \in Nat /\ \A d \in Nat : d <= until <=> (d <= rec.until /\ d <= at)
  BY <1>1 DEF EndOfSeries
<1> HIDE DEF until
<1>3. [rec EXCEPT !.until = until] \in RecRow
      /\ [rec EXCEPT !.until = until].dt = rec.dt /\ [rec EXCEPT !.until = until].on = rec.on
      /\ [rec EXCEPT !.until = until].until = until
  BY <1>2 DEF RecRow
<1> QED BY <1>2, <1>3 DEF until

(* The occurrence a request names belongs to an event that is no copy. *)
LEMMA ResolveIs ==
    ASSUME Sound, NEW e \in DOMAIN events, NEW when \in Nat
    PROVE  /\ Resolve(e, when).event \in DOMAIN events
           /\ Resolve(e, when).date \in Nat
           /\ ~IsCopy(Resolve(e, when).event)
           /\ ~IsCopy(e) => Resolve(e, when) = [event |-> e, date |-> when]
<1>1. CASE StandsFor(e) = {}
  <2>1. ~IsCopy(e)
    <3> SUFFICES ASSUME NEW k \in DOMAIN overrides, overrides[k] = e PROVE FALSE
      BY DEF IsCopy
    <3>1. e # 0 /\ k[1] \in DOMAIN recs
      BY EventFacts DEF Sound, Shape, ExceptionsOK
    <3>2. Templates(k[1]) # {}
      BY <3>1 DEF Sound, Shape, HasTemplate, Templates
    <3> QED BY <1>1, <3>2 DEF StandsFor
  <2>2. Resolve(e, when) = [event |-> e, date |-> when]
    BY <1>1 DEF Resolve
  <2> QED BY <2>1, <2>2
<1>2. CASE StandsFor(e) # {}
  <2>1. PICK k \in DOMAIN overrides : overrides[k] = e /\ Templates(k[1]) # {}
    BY <1>2 DEF StandsFor
  <2>2. e # 0 /\ e \in Nat
    BY EventFacts DEF Sound
  <2>3. \A x \in DOMAIN overrides : overrides[x] = e => x = k
    BY <2>1, <2>2 DEF Sound, Shape, CopiesDistinct, NoEvent
  <2> DEFINE ref == [event |-> TemplateOf(k[1]), date |-> k[2]]
  <2>4. StandsFor(e) = {ref}
    BY <2>1, <2>3 DEF StandsFor
  <2>5. k[2] \in Nat /\ k[1] \in DOMAIN recs
    BY OverrideFacts DEF Sound, Shape, ExceptionsOK
  <2>6. Resolve(e, when) = ref
    <3>1. \A other \in StandsFor(e) : ref.date <= other.date
      BY <2>4, <2>5
    <3>2. \A x \in StandsFor(e) : x = ref
      BY <2>4
    <3> HIDE DEF ref
    <3> QED BY <1>2, <2>4, <3>1, <3>2 DEF Resolve
  <2>7. PICK t \in Templates(k[1]) : Templates(k[1]) = {t}
    BY <2>5, ShapeIsLinked DEF Linked
  <2>8. TemplateOf(k[1]) = t
    <3>1. t \in Nat
      BY EventFacts DEF Sound, Templates
    <3> QED BY <2>7, <3>1 DEF TemplateOf
  <2>9. t \in DOMAIN events /\ events[t].rec = k[1] /\ k[1] # 0
    BY <2>5, RecFacts DEF Templates, Sound
  <2>10. ~IsCopy(t)
    <3>1. t # 0
      BY <2>9, EventFacts DEF Sound
    <3> QED BY <2>9, <3>1 DEF IsCopy, Sound, Shape, ExceptionsOK, NoEvent
  <2>11. IsCopy(e)
    BY <2>1 DEF IsCopy
  <2> QED BY <2>5, <2>6, <2>8, <2>9, <2>10, <2>11
<1> QED BY <1>1, <1>2

(* A template is nobody's copy, and a series has one.                      *)
LEMMA TemplateIs ==
    ASSUME Sound, NEW t \in DOMAIN events, events[t].rec # 0
    PROVE  /\ ~IsCopy(t) /\ events[t].rec \in DOMAIN recs
           /\ Templates(events[t].rec) = {t} /\ TemplateOf(events[t].rec) = t
<1>1. ~IsCopy(t)
  BY EventFacts DEF IsCopy, Sound, Shape, ExceptionsOK, NoEvent
<1>2. events[t].rec \in DOMAIN recs
  BY DEF Sound, Shape, RecsExist
<1>3. Templates(events[t].rec) = {t}
  BY DEF Templates, Sound, Shape, OneTemplate
<1>4. t \in Nat
  BY EventFacts DEF Sound
<1>5. TemplateOf(events[t].rec) = t
  BY <1>3, <1>4 DEF TemplateOf
<1> QED BY <1>1, <1>2, <1>3, <1>5

-----------------------------------------------------------------------------
(* Every request keeps the shape. First what they have in common.          *)

LEMMA EditType == Sound /\ Edit => edits' \in 0 .. MaxEdits
BY SeriesConstants DEF Edit, Sound, TypeOK

LEMMA PruneType ==
    ASSUME Sound, NEW e, NEW d
    PROVE  /\ PruneEvent(e) \subseteq [event : Nat, date : Nat, day : Nat]
           /\ PruneOccurrence(e, d) \subseteq [event : Nat, date : Nat, day : Nat]
BY DEF Sound, TypeOK, PruneEvent, PruneOccurrence

(* Days and rules may change under the references. *)
LEMMA SameShape ==
    ASSUME Shape, DOMAIN events' = DOMAIN events,
           \A x \in DOMAIN events : events'[x].rec = events[x].rec,
           DOMAIN recs' = DOMAIN recs, \A r \in DOMAIN recs : recs'[r].dt # 0,
           UNCHANGED <<overrides, reminders, detached>>
    PROVE  Shape'
<1>1. Anchored' /\ HasTemplate' /\ RecsExist' /\ MarkersOK' /\ OneTemplate'
  BY DEF Shape, Anchored, HasTemplate, RecsExist, MarkersOK, OneTemplate
<1>2. ExceptionsOK' /\ CopiesDistinct' /\ RemindersOK'
  BY DEF Shape, ExceptionsOK, CopiesDistinct, RemindersOK
<1> QED BY <1>1, <1>2 DEF Shape

LEMMA UpdatePlainSound ==
    ASSUME Sound, Edit, NEW t \in DOMAIN events, NEW day \in Days, UpdatePlain(t, day)
    PROVE  Sound'
<1>1. day \in Nat
  BY DEF Days
<1>2. /\ IsTable(events', EventRow) /\ DOMAIN events' = DOMAIN events
      /\ \A x \in DOMAIN events : events'[x].rec = events[x].rec
  BY <1>1, UpdateEventIs DEF UpdatePlain, Sound
<1>3. Shape'
  BY <1>2, SameShape DEF UpdatePlain, Sound, Shape, Anchored
<1>4. TypeOK'
  BY <1>2, EditType, PruneType DEF UpdatePlain, Sound, TypeOK
<1> QED BY <1>3, <1>4 DEF Sound

LEMMA TypeStays ==
    ASSUME TypeOK, IsTable(events', EventRow), IsTable(recs', RecRow),
           edits' \in 0 .. MaxEdits, queued' \subseteq [event : Nat, date : Nat, day : Nat],
           UNCHANGED <<overrides, reminders, detached>>
    PROVE  TypeOK'
BY DEF TypeOK

(* The new rule of an edited series is a rule, and starts on a day. *)
LEMMA NewRule ==
    ASSUME Sound, NEW t \in DOMAIN events, events[t].rec # 0, NEW day \in Days,
           NEW rule \in Rules \cup {NoRule}, NEW followMove \in BOOLEAN,
           followMove \/ rule \in Rules
    PROVE  LET rec == recs[events[t].rec]
               new == IF followMove /\ rule = NoRule THEN Follow(rec, day)
                      ELSE [rec EXCEPT !.dt = day, !.on = rule.on, !.until = rule.until]
           IN  new \in RecRow /\ new.dt = day
<1> DEFINE rec == recs[events[t].rec]
<1>1. rec \in RecRow /\ day \in Nat
  BY TemplateIs, RecFacts DEF Days, Sound
<1>2. rule.on \in SUBSET (0 .. Week - 1) /\ rule.until \in Nat
  BY SeriesConstants DEF NoRule
<1> HIDE DEF rec
<1>3. [rec EXCEPT !.dt = day, !.on = rule.on, !.until = rule.until] \in RecRow
      /\ [rec EXCEPT !.dt = day, !.on = rule.on, !.until = rule.until].dt = day
  BY <1>1, <1>2 DEF RecRow
<1> QED BY <1>1, <1>3, FollowType DEF rec

LEMMA UpdateSeriesIs ==
    ASSUME Sound, NEW t \in DOMAIN events, events[t].rec # 0, NEW day \in Days,
           NEW rule \in Rules \cup {NoRule}, NEW followMove \in BOOLEAN,
           followMove \/ rule \in Rules,
           UpdateSeries(t, recs[events[t].rec], followMove, day, rule)
    PROVE  /\ IsTable(events', EventRow) /\ DOMAIN events' = DOMAIN events
           /\ \A x \in DOMAIN events : events'[x].rec = events[x].rec
           /\ \A x \in DOMAIN events : x # t => events'[x] = events[x]
           /\ IsTable(recs', RecRow) /\ DOMAIN recs' = DOMAIN recs
           /\ recs'[events[t].rec].dt = day
           /\ \A x \in DOMAIN recs : x # events[t].rec => recs'[x] = recs[x]
           /\ UNCHANGED <<overrides, reminders, detached>> /\ queued' = PruneEvent(t)
<1> DEFINE rec == recs[events[t].rec]
           new == IF followMove /\ rule = NoRule THEN Follow(rec, day)
                  ELSE [rec EXCEPT !.dt = day, !.on = rule.on, !.until = rule.until]
<1>1. /\ UpdateRecurrence(events[t].rec, new) /\ UpdateEvent(t, day)
      /\ UNCHANGED <<overrides, reminders, detached>> /\ queued' = PruneEvent(t)
  BY DEF UpdateSeries
<1>2. new \in RecRow /\ new.dt = day
  BY NewRule
<1>3. day \in Nat /\ events[t].rec \in DOMAIN recs
  BY TemplateIs DEF Days
<1> HIDE DEF new
<1>4. recs' = [recs EXCEPT ![events[t].rec] = new]
  BY <1>1 DEF UpdateRecurrence
<1>5. /\ IsTable(recs', RecRow) /\ DOMAIN recs' = DOMAIN recs /\ recs'[events[t].rec] = new
      /\ \A x \in DOMAIN recs : x # events[t].rec => recs'[x] = recs[x]
  BY <1>2, <1>3, <1>4, UpdateRecIs DEF Sound
<1>6. /\ IsTable(events', EventRow) /\ DOMAIN events' = DOMAIN events
      /\ \A x \in DOMAIN events : events'[x].rec = events[x].rec
      /\ \A x \in DOMAIN events : x # t => events'[x] = events[x]
  BY <1>1, <1>3, UpdateEventIs DEF Sound
<1> QED BY <1>1, <1>2, <1>5, <1>6

LEMMA UpdateSeriesSound ==
    ASSUME Sound, Edit, NEW t \in DOMAIN events, events[t].rec # 0, NEW day \in Days,
           NEW rule \in Rules \cup {NoRule}, NEW followMove \in BOOLEAN,
           followMove \/ rule \in Rules,
           UpdateSeries(t, recs[events[t].rec], followMove, day, rule)
    PROVE  Sound'
<1>1. day # 0
  BY DEF Days
<1>2. \A r \in DOMAIN recs : recs'[r].dt # 0
  BY <1>1, UpdateSeriesIs DEF Sound, Shape, Anchored
<1>3. Shape'
  BY <1>2, UpdateSeriesIs, SameShape DEF Sound
<1>4. TypeOK'
  <2>1. IsTable(events', EventRow) /\ IsTable(recs', RecRow)
        /\ UNCHANGED <<overrides, reminders, detached>> /\ queued' = PruneEvent(t)
    BY UpdateSeriesIs
  <2> QED BY <2>1, EditType, PruneType, TypeStays DEF Sound
<1> QED BY <1>3, <1>4 DEF Sound

LEMMA EndSeriesIs ==
    ASSUME Sound, NEW t \in DOMAIN events, events[t].rec # 0, NEW at \in Nat,
           EndSeries(t, recs[events[t].rec], at)
    PROVE  /\ IsTable(recs', RecRow) /\ DOMAIN recs' = DOMAIN recs
           /\ recs'[events[t].rec].dt = recs[events[t].rec].dt
           /\ recs'[events[t].rec].on = recs[events[t].rec].on
           /\ \A d \in Nat : d <= recs'[events[t].rec].until
                                <=> (d <= recs[events[t].rec].until /\ d <= at)
           /\ \A x \in DOMAIN recs : x # events[t].rec => recs'[x] = recs[x]
           /\ UNCHANGED <<events, overrides, reminders, detached>> /\ queued' = PruneEvent(t)
<1> DEFINE rec == recs[events[t].rec]
           old == [rec EXCEPT !.until = EndOfSeries(rec, at)]
<1>1. rec \in RecRow /\ events[t].rec \in DOMAIN recs
  BY TemplateIs, RecFacts DEF Sound
<1>2. /\ old \in RecRow /\ old.dt = rec.dt /\ old.on = rec.on
      /\ \A d \in Nat : d <= old.until <=> (d <= rec.until /\ d <= at)
  <2> HIDE DEF rec
  <2> QED BY <1>1, EndedType
<1>3. recs' = [recs EXCEPT ![events[t].rec] = old]
  BY DEF EndSeries, UpdateRecurrence
<1> HIDE DEF old
<1>4. /\ IsTable(recs', RecRow) /\ DOMAIN recs' = DOMAIN recs /\ recs'[events[t].rec] = old
      /\ \A x \in DOMAIN recs : x # events[t].rec => recs'[x] = recs[x]
  BY <1>1, <1>2, <1>3, UpdateRecIs DEF Sound
<1> QED BY <1>2, <1>4 DEF EndSeries

LEMMA EndSeriesSound ==
    ASSUME Sound, Edit, NEW t \in DOMAIN events, events[t].rec # 0, NEW at \in Nat,
           EndSeries(t, recs[events[t].rec], at)
    PROVE  Sound'
<1>1. \A r \in DOMAIN recs : recs'[r].dt # 0
  BY EndSeriesIs DEF Sound, Shape, Anchored
<1>2. Shape'
  BY <1>1, EndSeriesIs, SameShape DEF Sound
<1>3. TypeOK'
  <2>1. IsTable(recs', RecRow)
        /\ UNCHANGED <<events, overrides, reminders, detached>> /\ queued' = PruneEvent(t)
    BY EndSeriesIs
  <2>2. IsTable(events', EventRow)
    BY <2>1 DEF Sound, TypeOK
  <2> QED BY <2>1, <2>2, EditType, PruneType, TypeStays DEF Sound
<1> QED BY <1>2, <1>3 DEF Sound

(* An occurrence is edited: its copy moves, or there is one from now on. *)
LEMMA UpdateOccurrenceIs ==
    ASSUME Sound, NEW t \in DOMAIN events, events[t].rec # 0, NEW d \in Nat, NEW day \in Days,
           UpdateOccurrence(t, recs[events[t].rec], d, day)
    PROVE  /\ Occurs(recs[events[t].rec], d) /\ queued' = PruneOccurrence(t, d)
           /\ UNCHANGED <<recs, reminders, detached>>
           /\ IsTable(events', EventRow)
           /\ \E c \in DOMAIN events' :
                 /\ DOMAIN events' = DOMAIN events \cup {c}
                 /\ events'[c].rec = 0 /\ events'[c].day = day
                 /\ \A x \in DOMAIN events : events'[x].rec = events[x].rec
                 /\ \A x \in DOMAIN events : x # c => events'[x] = events[x]
                 /\ DOMAIN overrides' = DOMAIN overrides \cup {<<events[t].rec, d>>}
                 /\ overrides'[<<events[t].rec, d>>] = c /\ c # 0 /\ c \in Nat
                 /\ \A k \in DOMAIN overrides : k # <<events[t].rec, d>> => overrides'[k] = overrides[k]
                 /\ c \in DOMAIN events => /\ <<events[t].rec, d>> \in DOMAIN overrides
                                           /\ overrides[<<events[t].rec, d>>] = c
<1> DEFINE k == <<events[t].rec, d>>
<1>1. /\ Occurs(recs[events[t].rec], d) /\ queued' = PruneOccurrence(t, d)
      /\ UNCHANGED <<recs, reminders, detached>> /\ day \in Nat
  BY DEF UpdateOccurrence, Days
<1>2. CASE k \in DOMAIN overrides /\ overrides[k] # NoEvent
  <2> DEFINE c == overrides[k]
  <2>1. c \in DOMAIN events /\ events[c].rec = 0 /\ c # 0 /\ c \in Nat
    BY <1>2, EventFacts DEF Sound, Shape, ExceptionsOK, NoEvent
  <2>2. UpdateEvent(c, day) /\ overrides' = overrides
    BY <1>2 DEF UpdateOccurrence
  <2> HIDE DEF c
  <2>3. /\ IsTable(events', EventRow) /\ DOMAIN events' = DOMAIN events /\ events'[c].day = day
        /\ \A x \in DOMAIN events : events'[x].rec = events[x].rec
        /\ \A x \in DOMAIN events : x # c => events'[x] = events[x]
    BY <1>1, <2>1, <2>2, UpdateEventIs DEF Sound
  <2>4. DOMAIN events' = DOMAIN events \cup {c} /\ events'[c].rec = 0 /\ c \in DOMAIN events'
    BY <2>1, <2>3
  <2>5. DOMAIN overrides' = DOMAIN overrides \cup {k} /\ overrides'[k] = c
    BY <1>2, <2>2 DEF c
  <2> HIDE DEF k
  <2>6. \A l \in DOMAIN overrides : l # k => overrides'[l] = overrides[l]
    BY <2>2
  <2>7. c \in DOMAIN events => k \in DOMAIN overrides /\ overrides[k] = c
    BY <1>2 DEF c
  <2> QED BY <1>1, <2>1, <2>3, <2>4, <2>5, <2>6, <2>7 DEF k
<1>3. CASE ~(k \in DOMAIN overrides /\ overrides[k] # NoEvent)
  <2>1. PICK c \in 1 .. MaxEdits + 1 :
            CreateEvent(c, [rec |-> 0, day |-> day]) /\ SetOverride(k, c)
    BY <1>3 DEF UpdateOccurrence
  <2>2. c \in Nat /\ c # 0 /\ [rec |-> 0, day |-> day] \in EventRow
    BY <1>1, <2>1, Constants DEF EventRow
  <2>3. /\ IsTable(events', EventRow) /\ DOMAIN events' = DOMAIN events \cup {c}
        /\ c \notin DOMAIN events /\ events'[c] = [rec |-> 0, day |-> day]
        /\ \A x \in DOMAIN events : events'[x] = events[x]
    BY <2>1, <2>2, CreateEventIs DEF Sound
  <2>4. /\ DOMAIN overrides' = DOMAIN overrides \cup {k} /\ overrides'[k] = c
        /\ \A l \in DOMAIN overrides : l # k => overrides'[l] = overrides[l]
    <3>1. overrides' = Insert(overrides, k, c)
      BY <2>1 DEF SetOverride
    <3> HIDE DEF k
    <3> QED BY <3>1 DEF Insert
  <2> HIDE DEF k
  <2> QED BY <1>1, <2>2, <2>3, <2>4 DEF k
<1> QED BY <1>2, <1>3

LEMMA UpdateOccurrenceSound ==
    ASSUME Sound, Edit, NEW t \in DOMAIN events, events[t].rec # 0, NEW d \in Nat,
           NEW day \in Days, UpdateOccurrence(t, recs[events[t].rec], d, day)
    PROVE  Sound'
<1> DEFINE k == <<events[t].rec, d>>
<1>1. PICK c \in DOMAIN events' :
          /\ DOMAIN events' = DOMAIN events \cup {c}
          /\ events'[c].rec = 0
          /\ \A x \in DOMAIN events : events'[x].rec = events[x].rec
          /\ DOMAIN overrides' = DOMAIN overrides \cup {k}
          /\ overrides'[k] = c /\ c # 0 /\ c \in Nat
          /\ \A l \in DOMAIN overrides : l # k => overrides'[l] = overrides[l]
          /\ c \in DOMAIN events => k \in DOMAIN overrides /\ overrides[k] = c
  BY UpdateOccurrenceIs
<1>2. /\ queued' = PruneOccurrence(t, d) /\ UNCHANGED <<recs, reminders, detached>>
      /\ IsTable(events', EventRow)
  BY UpdateOccurrenceIs
<1>3. k \in Nat \X Nat /\ k[1] \in DOMAIN recs /\ k[1] = events[t].rec
  BY TemplateIs, RecFacts DEF Sound
<1> HIDE DEF k
<1>4. TypeOK'
  <2>1. DOMAIN overrides' \subseteq Nat \X Nat
    BY <1>1, <1>3 DEF Sound, TypeOK
  <2>2. \A l \in DOMAIN overrides' : overrides'[l] \in Nat
    BY <1>1, OverrideFacts DEF Sound
  <2>3. overrides' \in [DOMAIN overrides' -> Nat]
    <3>1. overrides' = [l \in DOMAIN overrides' |-> overrides'[l]]
      <4>1. \E n : overrides' = Insert(overrides, <<events[t].rec, d>>, n) \/ overrides' = overrides
        BY DEF UpdateOccurrence, SetOverride
      <4> QED BY <4>1 DEF Insert, Sound, TypeOK
    <3> QED BY <2>2, <3>1
  <2> QED BY <1>2, <2>1, <2>3, EditType, PruneType DEF Sound, TypeOK
<1>5. Anchored' /\ OneTemplate' /\ HasTemplate' /\ RecsExist'
  <2>1. \A x \in DOMAIN events' : events'[x].rec # 0 => x \in DOMAIN events
    BY <1>1
  <2> QED BY <1>1, <1>2, <2>1 DEF Sound, Shape, Anchored, OneTemplate, HasTemplate, RecsExist
<1>6. ExceptionsOK'
  <2>1. ASSUME NEW l \in DOMAIN overrides', l # k
        PROVE  /\ l[1] \in DOMAIN recs'
               /\ overrides'[l] # NoEvent => /\ overrides'[l] \in DOMAIN events'
                                             /\ events'[overrides'[l]].rec = 0
    <3>1. l \in DOMAIN overrides /\ overrides'[l] = overrides[l]
      BY <1>1, <2>1
    <3> QED BY <1>1, <1>2, <3>1 DEF Sound, Shape, ExceptionsOK
  <2> QED BY <1>1, <1>2, <1>3, <2>1 DEF ExceptionsOK
<1>7. CopiesDistinct'
  <2>1. \A l \in DOMAIN overrides : l # k => overrides[l] # c
    <3>1. CASE c \in DOMAIN events
      BY <1>1, <3>1 DEF Sound, Shape, CopiesDistinct, NoEvent
    <3>2. CASE c \notin DOMAIN events
      BY <1>1, <3>2 DEF Sound, Shape, ExceptionsOK, NoEvent
    <3> QED BY <3>1, <3>2
  <2> QED BY <1>1, <2>1 DEF Sound, Shape, CopiesDistinct
<1>8. RemindersOK' /\ MarkersOK'
  BY <1>1, <1>2 DEF Sound, Shape, RemindersOK, MarkersOK
<1> QED BY <1>4, <1>5, <1>6, <1>7, <1>8 DEF Sound, Shape

-----------------------------------------------------------------------------
(* What a deletion takes with it. *)

LEMMA WithoutEventsIs ==
    ASSUME Sound, NEW gone, WithoutEvents(gone)
    PROVE  /\ IsTable(events', EventRow) /\ DOMAIN events' = DOMAIN events \ gone
           /\ \A x \in DOMAIN events' : events'[x] = events[x]
           /\ detached' = {m \in detached : m[1] \notin gone}
<1>1. events' = Without(events, gone) /\ detached' = {m \in detached : m[1] \notin gone}
  BY DEF WithoutEvents
<1>2. IsTable(events, EventRow)
  BY DEF Sound, TypeOK
<1> QED BY <1>1, <1>2 DEF Without, IsTable

(* The reminders that stay. *)
LEMMA RemindersWithoutIs ==
    ASSUME NEW gone, NEW r, reminders' = RemindersWithout(gone, r)
    PROVE  /\ DOMAIN reminders' \subseteq DOMAIN reminders
           /\ \A k \in DOMAIN reminders' : /\ reminders'[k] = reminders[k]
                                           /\ ~(k[1] = "event" /\ k[2] \in gone)
                                           /\ ~(k[1] = "series" /\ k[2] = r)
           /\ \A k \in DOMAIN reminders :
                 \/ (k[1] = "event" /\ k[2] \in gone)
                 \/ (k[1] = "series" /\ k[2] = r)
                 \/ k \in DOMAIN reminders'
<1> DEFINE lost == {k \in DOMAIN reminders : \/ k[1] = "event" /\ k[2] \in gone
                                             \/ k[1] = "series" /\ k[2] = r}
<1>1. reminders' = Without(reminders, lost)
  BY DEF RemindersWithout
<1>2. \A k \in DOMAIN reminders :
          k \in lost <=> ((k[1] = "event" /\ k[2] \in gone) \/ (k[1] = "series" /\ k[2] = r))
  OBVIOUS
<1> HIDE DEF lost
<1>3. /\ DOMAIN reminders' = DOMAIN reminders \ lost
      /\ \A k \in DOMAIN reminders' : reminders'[k] = reminders[k]
  BY <1>1 DEF Without
<1> QED BY <1>2, <1>3

(* Of the exceptions and the reminders some go, those of deleted events    *)
(* and series among them, and the rest stays as it was.                    *)
LEMMA DeletionKeepsShape ==
    ASSUME Sound, NEW gone, WithoutEvents(gone),
           DOMAIN recs' \subseteq DOMAIN recs, \A r \in DOMAIN recs' : recs'[r] = recs[r],
           \A r \in DOMAIN recs' : \E t \in DOMAIN events \ gone : events[t].rec = r,
           \A t \in DOMAIN events \ gone : events[t].rec # 0 => events[t].rec \in DOMAIN recs',
           \A k \in DOMAIN overrides' :
               \/ overrides'[k] = NoEvent
               \/ k \in DOMAIN overrides /\ overrides'[k] = overrides[k] /\ overrides[k] \notin gone,
           \A k \in DOMAIN overrides' : k[1] \in DOMAIN recs',
           NEW r \in Nat, r \notin DOMAIN recs', DOMAIN recs \subseteq DOMAIN recs' \cup {r},
           reminders' = RemindersWithout(gone, r)
    PROVE  Shape'
<1>1. /\ DOMAIN events' = DOMAIN events \ gone
      /\ \A x \in DOMAIN events' : events'[x] = events[x]
      /\ detached' = {m \in detached : m[1] \notin gone}
  BY WithoutEventsIs
<1>2. Anchored' /\ OneTemplate' /\ MarkersOK'
  BY <1>1 DEF Sound, Shape, Anchored, OneTemplate, MarkersOK
<1>3. HasTemplate' /\ RecsExist'
  BY <1>1 DEF HasTemplate, RecsExist
<1>4. ExceptionsOK'
  BY <1>1 DEF Sound, Shape, ExceptionsOK
<1>5. CopiesDistinct'
  BY DEF Sound, Shape, CopiesDistinct
<1>6. RemindersOK'
  <2>1. \A k \in DOMAIN reminders' :
            /\ k \in DOMAIN reminders
            /\ ~(k[1] = "event" /\ k[2] \in gone) /\ ~(k[1] = "series" /\ k[2] = r)
    BY RemindersWithoutIs
  <2> QED BY <1>1, <2>1 DEF Sound, Shape, RemindersOK
<1> QED BY <1>2, <1>3, <1>4, <1>5, <1>6 DEF Shape

LEMMA DeletionType ==
    ASSUME Sound, Edit, NEW gone, WithoutEvents(gone), IsTable(recs', RecRow),
           DOMAIN overrides' \subseteq Nat \X Nat, overrides' \in [DOMAIN overrides' -> Nat],
           NEW r, reminders' = RemindersWithout(gone, r),
           queued' \subseteq [event : Nat, date : Nat, day : Nat]
    PROVE  TypeOK'
<1>1. IsTable(events', EventRow) /\ detached' \subseteq detached
  BY WithoutEventsIs
<1>2. DOMAIN reminders' \subseteq DOMAIN reminders
  BY RemindersWithoutIs
<1> QED BY <1>1, <1>2, EditType DEF TypeOK, Sound

LEMMA DeletePlainSound ==
    ASSUME Sound, Edit, NEW t \in DOMAIN events, events[t].rec = 0, DeletePlain(t)
    PROVE  Sound'
<1>1. /\ WithoutEvents({t}) /\ reminders' = RemindersWithout({t}, 0) /\ recs' = recs
      /\ overrides' = OverridesWithout({t}) /\ queued' = PruneEvent(t)
  BY DEF DeletePlain
<1>2. /\ DOMAIN overrides' \subseteq DOMAIN overrides
      /\ \A k \in DOMAIN overrides' : overrides'[k] = overrides[k] /\ overrides[k] \notin {t}
  <2> DEFINE lost == {k \in DOMAIN overrides : overrides[k] \in {t}}
  <2>1. overrides' = Without(overrides, lost)
    BY <1>1 DEF OverridesWithout
  <2>2. \A k \in DOMAIN overrides \ lost : overrides[k] \notin {t}
    OBVIOUS
  <2> HIDE DEF lost
  <2> QED BY <2>1, <2>2 DEF Without
<1>3. overrides' \in [DOMAIN overrides' -> Nat]
  BY <1>1, <1>2, OverrideFacts DEF OverridesWithout, Without, Sound
<1>4. 0 \notin DOMAIN recs
  BY RecFacts DEF Sound
<1>5. \A r \in DOMAIN recs : \E x \in DOMAIN events \ {t} : events[x].rec = r
  BY <1>4 DEF Sound, Shape, HasTemplate
<1>6. \A x \in DOMAIN events \ {t} : events[x].rec # 0 => events[x].rec \in DOMAIN recs
  BY DEF Sound, Shape, RecsExist
<1>7. \A k \in DOMAIN overrides' : k[1] \in DOMAIN recs
  BY <1>2 DEF Sound, Shape, ExceptionsOK
<1>8. Shape'
  <2>1. \A k \in DOMAIN overrides' :
            \/ overrides'[k] = NoEvent
            \/ (k \in DOMAIN overrides /\ overrides'[k] = overrides[k] /\ overrides[k] \notin {t})
    BY <1>2
  <2>2. /\ DOMAIN recs' = DOMAIN recs /\ 0 \in Nat /\ 0 \notin DOMAIN recs'
        /\ DOMAIN recs \subseteq DOMAIN recs' \cup {0}
        /\ \A r \in DOMAIN recs' : recs'[r] = recs[r]
    BY <1>1, <1>4
  <2> DEFINE gone == {t}
  <2> HIDE DEF gone
  <2>3. /\ WithoutEvents(gone) /\ reminders' = RemindersWithout(gone, 0)
        /\ \A r \in DOMAIN recs' : \E x \in DOMAIN events \ gone : events[x].rec = r
        /\ \A x \in DOMAIN events \ gone : events[x].rec # 0 => events[x].rec \in DOMAIN recs'
        /\ \A k \in DOMAIN overrides' : k[1] \in DOMAIN recs'
    BY <1>1, <1>5, <1>6, <1>7, <2>2 DEF gone
  <2>4. \A k \in DOMAIN overrides' :
            \/ overrides'[k] = NoEvent
            \/ (k \in DOMAIN overrides /\ overrides'[k] = overrides[k] /\ overrides[k] \notin gone)
    BY <2>1 DEF gone
  <2> QED BY <2>2, <2>3, <2>4, DeletionKeepsShape
<1>9. TypeOK'
  BY <1>1, <1>2, <1>3, DeletionType, PruneType DEF Sound, TypeOK
<1> QED BY <1>8, <1>9 DEF Sound

(* Striking an occurrence out takes its copy. *)
LEMMA CancelOccurrenceIs ==
    ASSUME Sound, NEW t \in DOMAIN events, events[t].rec # 0, NEW d \in Nat,
           CancelOccurrence(t, recs[events[t].rec], d)
    PROVE  /\ Occurs(recs[events[t].rec], d) /\ queued' = PruneOccurrence(t, d) /\ recs' = recs
           /\ DOMAIN overrides' = DOMAIN overrides \cup {<<events[t].rec, d>>}
           /\ overrides' \in [DOMAIN overrides' -> Nat]
           /\ overrides'[<<events[t].rec, d>>] = NoEvent
           /\ \A l \in DOMAIN overrides : l # <<events[t].rec, d>> => overrides'[l] = overrides[l]
           /\ \E gone \in SUBSET DOMAIN events :
                 /\ WithoutEvents(gone) /\ reminders' = RemindersWithout(gone, 0)
                 /\ \A c \in gone : /\ events[c].rec = 0 /\ IsCopy(c)
                                    /\ <<events[t].rec, d>> \in DOMAIN overrides
                                    /\ overrides[<<events[t].rec, d>>] = c
                 /\ \A c \in DOMAIN events :
                       <<events[t].rec, d>> \in DOMAIN overrides /\ overrides[<<events[t].rec, d>>] = c
                          => c \in gone
<1> DEFINE k == <<events[t].rec, d>>
           gone == {overrides[x] : x \in {k} \cap DOMAIN overrides} \ {NoEvent}
<1>1. /\ Occurs(recs[events[t].rec], d) /\ queued' = PruneOccurrence(t, d) /\ recs' = recs
      /\ overrides' = Insert(overrides, k, NoEvent)
      /\ WithoutEvents(gone) /\ reminders' = RemindersWithout(gone, 0)
  BY DEF CancelOccurrence, SetOverride
<1>2. \A c \in gone : k \in DOMAIN overrides /\ overrides[k] = c /\ c # NoEvent
  OBVIOUS
<1>6. \A c \in DOMAIN events : k \in DOMAIN overrides /\ overrides[k] = c => c \in gone
  <2> SUFFICES ASSUME NEW c \in DOMAIN events, k \in DOMAIN overrides, overrides[k] = c
               PROVE  c \in gone
    OBVIOUS
  <2>1. c # NoEvent
    BY EventFacts DEF Sound, NoEvent
  <2> HIDE DEF k
  <2> QED BY <2>1
<1> HIDE DEF k, gone
<1>3. \A c \in gone : c \in DOMAIN events /\ events[c].rec = 0 /\ IsCopy(c)
  BY <1>2 DEF Sound, Shape, ExceptionsOK, IsCopy
<1>4. /\ DOMAIN overrides' = DOMAIN overrides \cup {k} /\ overrides'[k] = NoEvent
      /\ \A l \in DOMAIN overrides : l # k => overrides'[l] = overrides[l]
  BY <1>1 DEF Insert
<1>5. overrides' \in [DOMAIN overrides' -> Nat]
  BY <1>1, OverrideFacts DEF Insert, Sound, NoEvent
<1> QED BY <1>1, <1>2, <1>3, <1>4, <1>5, <1>6 DEF k

LEMMA CancelOccurrenceSound ==
    ASSUME Sound, Edit, NEW t \in DOMAIN events, events[t].rec # 0, NEW d \in Nat,
           CancelOccurrence(t, recs[events[t].rec], d)
    PROVE  Sound'
<1> DEFINE k == <<events[t].rec, d>>
<1>1. PICK gone \in SUBSET DOMAIN events :
          /\ WithoutEvents(gone) /\ reminders' = RemindersWithout(gone, 0)
          /\ \A c \in gone : /\ events[c].rec = 0
                             /\ k \in DOMAIN overrides /\ overrides[k] = c
  <2> PICK gone \in SUBSET DOMAIN events :
          /\ WithoutEvents(gone) /\ reminders' = RemindersWithout(gone, 0)
          /\ \A c \in gone : /\ events[c].rec = 0 /\ IsCopy(c)
                             /\ <<events[t].rec, d>> \in DOMAIN overrides
                             /\ overrides[<<events[t].rec, d>>] = c
    BY CancelOccurrenceIs
  <2> QED OBVIOUS
<1>2. /\ queued' = PruneOccurrence(t, d) /\ recs' = recs
      /\ DOMAIN overrides' = DOMAIN overrides \cup {k}
      /\ overrides' \in [DOMAIN overrides' -> Nat]
      /\ overrides'[k] = NoEvent
      /\ \A l \in DOMAIN overrides : l # k => overrides'[l] = overrides[l]
  BY CancelOccurrenceIs
<1>3. k \in Nat \X Nat /\ k[1] \in DOMAIN recs
  BY TemplateIs, RecFacts DEF Sound
<1> HIDE DEF k
<1>4. 0 \notin DOMAIN recs
  BY RecFacts DEF Sound
<1>5. \A r \in DOMAIN recs : \E x \in DOMAIN events \ gone : events[x].rec = r
  BY <1>1, <1>4 DEF Sound, Shape, HasTemplate
<1>6. \A x \in DOMAIN events \ gone : events[x].rec # 0 => events[x].rec \in DOMAIN recs
  BY DEF Sound, Shape, RecsExist
<1>7. \A l \in DOMAIN overrides' : l[1] \in DOMAIN recs
  BY <1>2, <1>3 DEF Sound, Shape, ExceptionsOK
<1>8. \A l \in DOMAIN overrides' :
          \/ overrides'[l] = NoEvent
          \/ l \in DOMAIN overrides /\ overrides'[l] = overrides[l] /\ overrides[l] \notin gone
  <2> SUFFICES ASSUME NEW l \in DOMAIN overrides', overrides'[l] # NoEvent
               PROVE  l \in DOMAIN overrides /\ overrides'[l] = overrides[l] /\ overrides[l] \notin gone
    OBVIOUS
  <2>1. l # k /\ l \in DOMAIN overrides /\ overrides'[l] = overrides[l]
    BY <1>2
  <2>2. overrides[l] \in gone => overrides[l] = overrides[k] /\ k \in DOMAIN overrides
    BY <1>1
  <2>3. overrides[l] \notin gone
    BY <2>1, <2>2 DEF Sound, Shape, CopiesDistinct
  <2> QED BY <2>1, <2>3
<1>9. Shape'
  BY <1>1, <1>2, <1>4, <1>5, <1>6, <1>7, <1>8, DeletionKeepsShape
<1>10. TypeOK'
  BY <1>1, <1>2, <1>3, DeletionType, PruneType DEF Sound, TypeOK
<1> QED BY <1>9, <1>10 DEF Sound

LEMMA DeleteSeriesSound ==
    ASSUME Sound, Edit, NEW t \in DOMAIN events, events[t].rec # 0, DeleteSeries(t)
    PROVE  Sound'
<1> DEFINE r == events[t].rec
           gone == CopiesOf(r) \cup {t}
<1>1. /\ WithoutEvents(gone) /\ recs' = Without(recs, {r})
      /\ overrides' = Without(overrides, ExceptionsOf(r))
      /\ reminders' = RemindersWithout(gone, r) /\ queued' = PruneEvent(t)
  BY DEF DeleteSeries
<1>2. r \in DOMAIN recs /\ r \in Nat /\ r # 0
  BY TemplateIs, EventFacts DEF Sound
<1>3. \A c \in CopiesOf(r) : /\ c \in DOMAIN events /\ events[c].rec = 0
                             /\ \E k \in DOMAIN overrides : k[1] = r /\ overrides[k] = c /\ c # NoEvent
  BY DEF CopiesOf, ExceptionsOf, Sound, Shape, ExceptionsOK
<1>4. \A x \in DOMAIN events : events[x].rec = r <=> x = t
  BY <1>2 DEF Sound, Shape, OneTemplate
<1>5. \A x \in gone : events[x].rec # 0 => x = t
  BY <1>3
<1> HIDE DEF r, gone
<1>6. /\ IsTable(recs', RecRow) /\ DOMAIN recs' = DOMAIN recs \ {r}
      /\ \A x \in DOMAIN recs' : recs'[x] = recs[x]
  BY <1>1 DEF Without, IsTable, Sound, TypeOK
<1>7. /\ DOMAIN overrides' = DOMAIN overrides \ ExceptionsOf(r)
      /\ \A k \in DOMAIN overrides' : overrides'[k] = overrides[k] /\ k[1] # r
  <2>1. \A k \in DOMAIN overrides \ ExceptionsOf(r) : k[1] # r
    BY DEF ExceptionsOf
  <2> QED BY <1>1, <2>1 DEF Without
<1>8. \A k \in DOMAIN overrides' : k \in DOMAIN overrides /\ k[1] \in DOMAIN recs'
  BY <1>6, <1>7 DEF Sound, Shape, ExceptionsOK
<1>9. ASSUME NEW k \in DOMAIN overrides', overrides'[k] # NoEvent PROVE overrides[k] \notin gone
  <2>1. k \in DOMAIN overrides /\ overrides[k] # NoEvent /\ k[1] # r /\ overrides'[k] = overrides[k]
    BY <1>7, <1>9
  <2>2. overrides[k] # t
    BY <1>2, <2>1 DEF r, Sound, Shape, ExceptionsOK
  <2>3. overrides[k] \notin CopiesOf(r)
    BY <1>3, <2>1 DEF Sound, Shape, CopiesDistinct
  <2> QED BY <2>2, <2>3 DEF gone
<1>10. \A x \in DOMAIN recs' : \E y \in DOMAIN events \ gone : events[y].rec = x
  <2> SUFFICES ASSUME NEW x \in DOMAIN recs' PROVE \E y \in DOMAIN events \ gone : events[y].rec = x
    OBVIOUS
  <2>1. PICK y \in DOMAIN events : events[y].rec = x
    BY <1>6 DEF Sound, Shape, HasTemplate
  <2>2. x # r /\ x # 0
    BY <1>6, RecFacts DEF Sound
  <2>3. y \notin gone
    BY <1>4, <1>5, <2>1, <2>2
  <2> QED BY <2>1, <2>3
<1>11. \A x \in DOMAIN events \ gone : events[x].rec # 0 => events[x].rec \in DOMAIN recs'
  <2>1. t \in gone
    BY DEF gone
  <2> QED BY <1>4, <1>6, <2>1 DEF Sound, Shape, RecsExist
<1>12. Shape'
  <2>1. \A k \in DOMAIN overrides' :
            \/ overrides'[k] = NoEvent
            \/ k \in DOMAIN overrides /\ overrides'[k] = overrides[k] /\ overrides[k] \notin gone
    BY <1>7, <1>8, <1>9
  <2>2. \A k \in DOMAIN overrides' : k[1] \in DOMAIN recs'
    BY <1>8
  <2>3. DOMAIN recs' \subseteq DOMAIN recs /\ DOMAIN recs \subseteq DOMAIN recs' \cup {r} /\ r \notin DOMAIN recs'
        /\ \A x \in DOMAIN recs' : recs'[x] = recs[x]
    BY <1>6
  <2> QED BY <1>1, <1>2, <1>10, <1>11, <2>1, <2>2, <2>3, DeletionKeepsShape
<1>13. TypeOK'
  <2>1. DOMAIN overrides' \subseteq Nat \X Nat
    BY <1>7 DEF Sound, TypeOK
  <2>2. overrides' \in [DOMAIN overrides' -> Nat]
    BY <1>1, <1>7, OverrideFacts DEF Without, Sound
  <2> QED BY <1>1, <1>6, <2>1, <2>2, DeletionType, PruneType
<1> QED BY <1>12, <1>13 DEF Sound

-----------------------------------------------------------------------------
(* A series is split at a date: its exceptions from there on go to the     *)
(* second half, those the new rule reaches; the copies of the others are   *)
(* left behind as events of their own.                                     *)
OverridesSplit(r, n, at, new) ==
    /\ \A k \in DOMAIN overrides' :
          \/ /\ k \in DOMAIN overrides /\ overrides'[k] = overrides[k]
             /\ (k[1] # r \/ k[2] < at)
          \/ /\ k = <<n, k[2]>> /\ k[1] = n /\ k[2] \in Nat
             /\ <<r, k[2]>> \in DOMAIN overrides /\ ~(k[2] < at) /\ Occurs(new, k[2])
             /\ overrides'[k] = overrides[<<r, k[2]>>]
    /\ \A k \in DOMAIN overrides :
          IF k[1] # r \/ k[2] < at THEN k \in DOMAIN overrides'
          ELSE Occurs(new, k[2]) => <<n, k[2]>> \in DOMAIN overrides'

LeftBehind(r, at, new) ==
    {overrides[k] : k \in {x \in ExceptionsOf(r) : ~(x[2] < at) /\ ~Occurs(new, x[2])}} \ {NoEvent}

LEMMA RepointedIs ==
    ASSUME Sound, NEW r \in DOMAIN recs, NEW n \in Nat, n \notin DOMAIN recs, NEW at \in Nat,
           NEW moved, moved = Repointed(r, n, at)
    PROVE  /\ \A k \in DOMAIN moved :
                 \/ /\ k \in DOMAIN overrides /\ moved[k] = overrides[k] /\ k[1] # n
                    /\ (k[1] # r \/ k[2] < at)
                 \/ /\ k = <<n, k[2]>> /\ k[1] = n /\ k[2] \in Nat
                    /\ <<r, k[2]>> \in DOMAIN overrides /\ ~(k[2] < at)
                    /\ moved[k] = overrides[<<r, k[2]>>]
           /\ \A k \in DOMAIN overrides :
                 IF k[1] # r \/ k[2] < at THEN k \in DOMAIN moved ELSE <<n, k[2]>> \in DOMAIN moved
           /\ moved = [k \in DOMAIN moved |-> moved[k]]
<1> DEFINE kept == {k \in DOMAIN overrides : k[1] # r \/ k[2] < at}
           gone == {<<n, k[2]>> : k \in ExceptionsOf(r) \ kept}
<1>1. moved = [k \in kept \cup gone |-> IF k \in kept THEN overrides[k] ELSE overrides[<<r, k[2]>>]]
  BY DEF Repointed
<1>2. \A k \in DOMAIN overrides : k[1] # n
  BY DEF Sound, Shape, ExceptionsOK
<1>3. \A k \in DOMAIN overrides : k \in kept <=> (k[1] # r \/ k[2] < at)
  OBVIOUS
<1>4. kept \subseteq DOMAIN overrides
  OBVIOUS
<1>5. ASSUME NEW k \in gone
      PROVE  /\ k = <<n, k[2]>> /\ k[1] = n /\ k[2] \in Nat
             /\ <<r, k[2]>> \in DOMAIN overrides /\ ~(k[2] < at)
  <2>1. PICK x \in ExceptionsOf(r) \ kept : k = <<n, x[2]>>
    OBVIOUS
  <2>2. x \in DOMAIN overrides /\ x[1] = r /\ ~(x[2] < at)
    BY <2>1 DEF ExceptionsOf
  <2>3. x = <<r, x[2]>> /\ x[2] \in Nat
    BY <2>2, OverrideFacts DEF Sound
  <2> QED BY <2>1, <2>2, <2>3
<1>6. \A k \in DOMAIN overrides : k \notin kept => <<n, k[2]>> \in gone
  BY DEF ExceptionsOf
<1> HIDE DEF kept, gone
<1>7. \A k \in gone : k \notin kept
  BY <1>2, <1>4, <1>5
<1>8. /\ DOMAIN moved = kept \cup gone
      /\ \A k \in kept : moved[k] = overrides[k]
      /\ \A k \in gone : moved[k] = overrides[<<r, k[2]>>]
  BY <1>1, <1>7
<1>9. moved = [k \in DOMAIN moved |-> moved[k]]
  BY <1>1
<1> QED BY <1>2, <1>3, <1>4, <1>5, <1>6, <1>8, <1>9

LEMMA OverridesSplitIs ==
    ASSUME Sound, NEW r \in DOMAIN recs, NEW n \in Nat, n \notin DOMAIN recs, NEW at \in Nat,
           NEW new, NEW moved, moved = Repointed(r, n, at), NEW lost, lost = Unreachable(moved, n, new),
           overrides' = Without(moved, lost)
    PROVE  /\ OverridesSplit(r, n, at, new)
           /\ {moved[k] : k \in lost} \ {NoEvent} = LeftBehind(r, at, new)
           /\ DOMAIN overrides' \subseteq Nat \X Nat /\ overrides' \in [DOMAIN overrides' -> Nat]
<1>1. /\ \A k \in DOMAIN moved :
            \/ /\ k \in DOMAIN overrides /\ moved[k] = overrides[k] /\ k[1] # n
               /\ (k[1] # r \/ k[2] < at)
            \/ /\ k = <<n, k[2]>> /\ k[1] = n /\ k[2] \in Nat
               /\ <<r, k[2]>> \in DOMAIN overrides /\ ~(k[2] < at)
               /\ moved[k] = overrides[<<r, k[2]>>]
      /\ \A k \in DOMAIN overrides :
            IF k[1] # r \/ k[2] < at THEN k \in DOMAIN moved ELSE <<n, k[2]>> \in DOMAIN moved
  BY RepointedIs
<1>2. \A k \in DOMAIN moved : k \in lost <=> (k[1] = n /\ ~Occurs(new, k[2]))
  BY DEF Unreachable
<1>3. lost \subseteq DOMAIN moved
  BY DEF Unreachable
<1>4. /\ DOMAIN overrides' = DOMAIN moved \ lost
      /\ \A k \in DOMAIN overrides' : overrides'[k] = moved[k]
      /\ overrides' = [k \in DOMAIN overrides' |-> overrides'[k]]
  BY DEF Without
<1>5. \A k \in DOMAIN overrides : k[1] # n /\ (~(k[1] # r \/ k[2] < at) => k = <<r, k[2]>>)
  BY OverrideFacts DEF Sound, Shape, ExceptionsOK
<1>6. OverridesSplit(r, n, at, new)
  <2>1. ASSUME NEW k \in DOMAIN overrides'
        PROVE  \/ /\ k \in DOMAIN overrides /\ overrides'[k] = overrides[k]
                  /\ (k[1] # r \/ k[2] < at)
               \/ /\ k = <<n, k[2]>> /\ k[1] = n /\ k[2] \in Nat
                  /\ <<r, k[2]>> \in DOMAIN overrides /\ ~(k[2] < at) /\ Occurs(new, k[2])
                  /\ overrides'[k] = overrides[<<r, k[2]>>]
    BY <1>1, <1>2, <1>4
  <2>2. ASSUME NEW k \in DOMAIN overrides
        PROVE  IF k[1] # r \/ k[2] < at THEN k \in DOMAIN overrides'
               ELSE Occurs(new, k[2]) => <<n, k[2]>> \in DOMAIN overrides'
    <3>1. CASE k[1] # r \/ k[2] < at
      BY <1>1, <1>2, <1>4, <1>5, <3>1
    <3>2. CASE ~(k[1] # r \/ k[2] < at)
      <4> DEFINE l == <<n, k[2]>>
      <4>1. l \in DOMAIN moved /\ l[1] = n /\ l[2] = k[2]
        BY <1>1, <3>2
      <4> HIDE DEF l
      <4>2. Occurs(new, k[2]) => l \in DOMAIN overrides'
        BY <1>2, <1>4, <4>1
      <4> QED BY <3>2, <4>2 DEF l
    <3> QED BY <3>1, <3>2
  <2> QED BY <2>1, <2>2 DEF OverridesSplit
<1>7. {moved[k] : k \in lost} = {overrides[k] : k \in {x \in ExceptionsOf(r) : ~(x[2] < at) /\ ~Occurs(new, x[2])}}
  <2> DEFINE L == {x \in ExceptionsOf(r) : ~(x[2] < at) /\ ~Occurs(new, x[2])}
  <2>1. ASSUME NEW k \in lost PROVE \E x \in L : moved[k] = overrides[x]
    <3> DEFINE x == <<r, k[2]>>
    <3>1. /\ x \in DOMAIN overrides /\ x[1] = r /\ x[2] = k[2] /\ ~(k[2] < at)
          /\ moved[k] = overrides[x] /\ ~Occurs(new, k[2])
      BY <1>1, <1>2, <1>3
    <3> HIDE DEF x
    <3>2. x \in L
      BY <3>1 DEF ExceptionsOf
    <3> QED BY <3>1, <3>2
  <2>2. ASSUME NEW x \in L PROVE \E k \in lost : moved[k] = overrides[x]
    <3> DEFINE k == <<n, x[2]>>
    <3>1. x \in DOMAIN overrides /\ x[1] = r /\ ~(x[2] < at) /\ ~Occurs(new, x[2])
      BY DEF ExceptionsOf
    <3>2. k \in DOMAIN moved /\ k[1] = n /\ k[2] = x[2]
      BY <1>1, <3>1
    <3>3. x = <<r, k[2]>>
      BY <1>5, <3>1, <3>2
    <3> HIDE DEF k
    <3>4. k \in lost
      BY <1>2, <3>1, <3>2
    <3>5. moved[k] = overrides[<<r, k[2]>>]
      BY <1>1, <1>5, <3>2
    <3> QED BY <3>3, <3>4, <3>5
  <2> HIDE DEF L
  <2>3. {moved[k] : k \in lost} = {overrides[k] : k \in L}
    BY <2>1, <2>2
  <2> QED BY <2>3 DEF L
<1>8. DOMAIN overrides' \subseteq Nat \X Nat
  <2>1. ASSUME NEW k \in DOMAIN moved PROVE k \in Nat \X Nat
    <3>1. CASE k \in DOMAIN overrides
      BY <3>1, OverrideFacts DEF Sound
    <3>2. CASE k \notin DOMAIN overrides
      <4>1. k = <<n, k[2]>> /\ k[2] \in Nat
        BY <1>1, <3>2
      <4> QED BY <4>1
    <3> QED BY <3>1, <3>2
  <2> QED BY <1>4, <2>1
<1>9. overrides' \in [DOMAIN overrides' -> Nat]
  <2>1. \A k \in DOMAIN moved : moved[k] \in Nat
    BY <1>1, OverrideFacts DEF Sound
  <2> QED BY <1>4, <2>1
<1> QED BY <1>6, <1>7, <1>8, <1>9 DEF LeftBehind

(* The second half has the reminders of the first, and a copy left behind  *)
(* has those it inherited.                                                 *)
LEMMA CarriedIs ==
    ASSUME Sound, NEW r, NEW n, NEW left, NEW given, given = Carried(r, n, left)
    PROVE  /\ \A k \in given :
                 /\ k = <<k[1], k[2], k[3], k[4]>> /\ k[3] \in Members /\ k[4] \in Shapes
                 /\ k[1] \in {"event", "series"} /\ <<"series", r, k[3], k[4]>> \in DOMAIN reminders
                 /\ k[1] = "series" => k[2] = n
                 /\ k[1] = "event" => k[2] \in left /\ Inherits(k[2], k[3], r)
           /\ \A u \in Members, s \in Shapes : <<"series", r, u, s>> \in DOMAIN reminders =>
                 /\ <<"series", n, u, s>> \in given
                 /\ \A c \in left : Inherits(c, u, r) => <<"event", c, u, s>> \in given
<1> DEFINE onSeries == {<<"series", n, u, s>> : u \in Members, s \in Shapes}
           onCopies == {<<"event", c, u, s>> : c \in left, u \in Members, s \in Shapes}
           owed(k) == /\ k[4] \in Own("series", r, k[3])
                      /\ k[1] = "series" \/ Inherits(k[2], k[3], r)
<1>1. given = {k \in onSeries \cup onCopies : owed(k)}
  BY DEF Carried
<1>2. ASSUME NEW k \in onSeries
      PROVE  /\ k = <<k[1], k[2], k[3], k[4]>> /\ k[3] \in Members /\ k[4] \in Shapes
             /\ k[1] = "series" /\ k[2] = n
  OBVIOUS
<1>3. ASSUME NEW k \in onCopies
      PROVE  /\ k = <<k[1], k[2], k[3], k[4]>> /\ k[3] \in Members /\ k[4] \in Shapes
             /\ k[1] = "event" /\ k[2] \in left
  OBVIOUS
<1>4. \A u, s : s \in Own("series", r, u) <=> (s \in Shapes /\ <<"series", r, u, s>> \in DOMAIN reminders)
  BY DEF Own
<1>5. ASSUME NEW k \in given
      PROVE  /\ k = <<k[1], k[2], k[3], k[4]>> /\ k[3] \in Members /\ k[4] \in Shapes
             /\ k[1] \in {"event", "series"} /\ <<"series", r, k[3], k[4]>> \in DOMAIN reminders
             /\ k[1] = "series" => k[2] = n
             /\ k[1] = "event" => k[2] \in left /\ Inherits(k[2], k[3], r)
  <2>1. (k \in onSeries \/ k \in onCopies) /\ owed(k)
    BY <1>1
  <2>2. <<"series", r, k[3], k[4]>> \in DOMAIN reminders
        /\ (k[1] = "series" \/ Inherits(k[2], k[3], r))
    BY <1>4, <2>1
  <2> HIDE DEF onSeries, onCopies, owed
  <2>3. CASE k \in onSeries
    BY <1>2, <2>2, <2>3
  <2>4. CASE k \in onCopies
    BY <1>3, <2>2, <2>4
  <2> QED BY <2>1, <2>3, <2>4
<1>6. ASSUME NEW u \in Members, NEW s \in Shapes, <<"series", r, u, s>> \in DOMAIN reminders
      PROVE  <<"series", n, u, s>> \in given
  <2>1. <<"series", n, u, s>> \in onSeries
    OBVIOUS
  <2>2. owed(<<"series", n, u, s>>)
    BY <1>4, <1>6
  <2> QED BY <1>1, <2>1, <2>2
<1>7. ASSUME NEW u \in Members, NEW s \in Shapes, <<"series", r, u, s>> \in DOMAIN reminders,
             NEW c \in left, Inherits(c, u, r)
      PROVE  <<"event", c, u, s>> \in given
  <2>1. <<"event", c, u, s>> \in onCopies
    OBVIOUS
  <2>2. owed(<<"event", c, u, s>>)
    BY <1>4, <1>7
  <2> QED BY <1>1, <2>1, <2>2
<1> QED BY <1>5, <1>6, <1>7

(* What the split of a series does to the tables. *)
SplitInto(t, at, day, new, e, n) ==
    LET r    == events[t].rec
        left == LeftBehind(r, at, new)
    IN  /\ IsTable(recs', RecRow) /\ DOMAIN recs' = DOMAIN recs \cup {n}
        /\ n \in Nat /\ n # 0 /\ n \notin DOMAIN recs /\ recs'[n] = new
        /\ recs'[r].dt = recs[r].dt /\ recs'[r].on = recs[r].on
        /\ \A d \in Nat : d <= recs'[r].until <=> (d <= recs[r].until /\ d <= at - 1)
        /\ \A x \in DOMAIN recs : x # r => recs'[x] = recs[x]
        /\ IsTable(events', EventRow) /\ DOMAIN events' = DOMAIN events \cup {e}
        /\ e \in Nat /\ e # 0 /\ e \notin DOMAIN events
        /\ events'[e] = [rec |-> n, day |-> day]
        /\ \A x \in DOMAIN events : events'[x] = events[x]
        /\ OverridesSplit(r, n, at, new)
        /\ DOMAIN overrides' \subseteq Nat \X Nat /\ overrides' \in [DOMAIN overrides' -> Nat]
        /\ DOMAIN reminders' = DOMAIN reminders \cup Carried(r, n, left)
        /\ detached' = detached \cup {m \in left \X Members : Inherits(m[1], m[2], r)}
        /\ queued' = {q \in queued : q.event \notin {t, e}}

LEMMA SplitSeriesIs ==
    ASSUME Sound, NEW t \in DOMAIN events, events[t].rec # 0, NEW at \in Nat, at # 0,
           NEW day \in Days, NEW rule \in Rules \cup {NoRule},
           SplitSeries(t, recs[events[t].rec], at, day, rule)
    PROVE  LET new == SecondHalf(recs[events[t].rec], at, day, rule)
           IN  /\ new \in RecRow /\ new.dt = day /\ Valid(new) /\ Occurs(new, day)
               /\ \E e, n : SplitInto(t, at, day, new, e, n)
<1> DEFINE r   == events[t].rec
           rec == recs[r]
           old == [rec EXCEPT !.until = EndOfSeries(rec, at - 1)]
           new == SecondHalf(rec, at, day, rule)
<1>1. Valid(new) /\ Occurs(new, day)
  BY DEF SplitSeries
<1>2. PICK e \in 1 .. MaxEdits + 1, n \in 1 .. MaxEdits + 1 :
          LET moved == Repointed(r, n, at)
              lost  == Unreachable(moved, n, new)
              left  == {moved[k] : k \in lost} \ {NoEvent}
              given == Carried(r, n, left)
          IN  /\ IsNextId(recs, n)
              /\ recs' = Insert([recs EXCEPT ![r] = old], n, new)
              /\ CreateEvent(e, [rec |-> n, day |-> day])
              /\ overrides' = Without(moved, lost)
              /\ reminders' = [k \in DOMAIN reminders \cup given |->
                                  IF k \in given THEN edits' ELSE reminders[k]]
              /\ detached' = detached \cup {m \in left \X Members : Inherits(m[1], m[2], r)}
              /\ queued' = {q \in queued : q.event \notin {t, e}}
  BY DEF SplitSeries
<1> DEFINE moved == Repointed(r, n, at)
           lost  == Unreachable(moved, n, new)
           left  == {moved[k] : k \in lost} \ {NoEvent}
           given == Carried(r, n, left)
           table == [recs EXCEPT ![r] = old]
<1>3. /\ IsNextId(recs, n) /\ recs' = Insert(table, n, new)
      /\ CreateEvent(e, [rec |-> n, day |-> day])
      /\ overrides' = Without(moved, lost)
      /\ DOMAIN reminders' = DOMAIN reminders \cup given
      /\ detached' = detached \cup {m \in left \X Members : Inherits(m[1], m[2], r)}
      /\ queued' = {q \in queued : q.event \notin {t, e}}
  BY <1>2
<1>4. r \in DOMAIN recs /\ rec \in RecRow /\ at - 1 \in Nat /\ day \in Nat
  BY TemplateIs, RecFacts DEF Sound, Days
<1>5. e \in Nat /\ e # 0 /\ n \in Nat /\ n # 0
  BY Constants
<1>6. new \in RecRow /\ new.dt = day
  <2> HIDE DEF rec
  <2> QED BY <1>4, SecondHalfType
<1>7. /\ old \in RecRow /\ old.dt = rec.dt /\ old.on = rec.on
      /\ \A d \in Nat : d <= old.until <=> (d <= rec.until /\ d <= at - 1)
  <2> HIDE DEF rec
  <2> QED BY <1>4, EndedType
<1> HIDE DEF r, new, old
<1>8. /\ IsTable(table, RecRow) /\ DOMAIN table = DOMAIN recs /\ table[r] = old
      /\ \A x \in DOMAIN recs : x # r => table[x] = recs[x]
  BY <1>4, <1>7, UpdateRecIs DEF Sound
<1> HIDE DEF table, moved, lost, left, given
<1>9. /\ IsTable(recs', RecRow) /\ DOMAIN recs' = DOMAIN recs \cup {n}
      /\ n \notin DOMAIN recs /\ recs'[n] = new
      /\ \A x \in DOMAIN recs : recs'[x] = table[x]
  <2>1. \A i \in DOMAIN recs : i < n
    BY <1>3 DEF IsNextId
  <2>2. n \notin DOMAIN recs
    BY <1>5, <2>1
  <2> QED BY <1>3, <1>5, <1>6, <1>8, <2>2 DEF Insert, IsTable
<1>10. /\ IsTable(events', EventRow) /\ DOMAIN events' = DOMAIN events \cup {e}
       /\ e \notin DOMAIN events /\ events'[e] = [rec |-> n, day |-> day]
       /\ \A x \in DOMAIN events : events'[x] = events[x]
  <2>1. [rec |-> n, day |-> day] \in EventRow
    BY <1>4, <1>5 DEF EventRow
  <2> QED BY <1>3, <1>5, <2>1, CreateEventIs DEF Sound
<1>11. /\ OverridesSplit(r, n, at, new) /\ left = LeftBehind(r, at, new)
       /\ DOMAIN overrides' \subseteq Nat \X Nat /\ overrides' \in [DOMAIN overrides' -> Nat]
  BY <1>3, <1>4, <1>5, <1>9, OverridesSplitIs DEF moved, lost, left
<1>12. /\ recs'[r].dt = rec.dt /\ recs'[r].on = rec.on
       /\ \A d \in Nat : d <= recs'[r].until <=> (d <= rec.until /\ d <= at - 1)
       /\ \A x \in DOMAIN recs : x # r => recs'[x] = recs[x]
  BY <1>4, <1>7, <1>8, <1>9
<1>13. SplitInto(t, at, day, new, e, n)
  BY <1>3, <1>5, <1>9, <1>10, <1>11, <1>12 DEF SplitInto, given, r
<1> QED BY <1>1, <1>6, <1>13 DEF new, r

LEMMA SplitSeriesSound ==
    ASSUME Sound, Edit, NEW t \in DOMAIN events, events[t].rec # 0, NEW at \in Nat, at # 0,
           NEW day \in Days, NEW rule \in Rules \cup {NoRule},
           SplitSeries(t, recs[events[t].rec], at, day, rule)
    PROVE  Sound'
<1> DEFINE r    == events[t].rec
           new  == SecondHalf(recs[r], at, day, rule)
           left == LeftBehind(r, at, new)
<1>1. new \in RecRow /\ new.dt = day /\ \E e, n : SplitInto(t, at, day, new, e, n)
  BY SplitSeriesIs
<1>2. PICK e, n : SplitInto(t, at, day, new, e, n)
  BY <1>1
<1> HIDE DEF new
<1>3. /\ IsTable(recs', RecRow) /\ DOMAIN recs' = DOMAIN recs \cup {n}
      /\ n \in Nat /\ n # 0 /\ n \notin DOMAIN recs /\ recs'[n] = new
      /\ recs'[r].dt = recs[r].dt
      /\ \A x \in DOMAIN recs : x # r => recs'[x] = recs[x]
      /\ IsTable(events', EventRow) /\ DOMAIN events' = DOMAIN events \cup {e}
      /\ e \in Nat /\ e # 0 /\ e \notin DOMAIN events
      /\ events'[e] = [rec |-> n, day |-> day]
      /\ \A x \in DOMAIN events : events'[x] = events[x]
      /\ OverridesSplit(r, n, at, new)
      /\ DOMAIN overrides' \subseteq Nat \X Nat /\ overrides' \in [DOMAIN overrides' -> Nat]
      /\ DOMAIN reminders' = DOMAIN reminders \cup Carried(r, n, left)
      /\ detached' = detached \cup {m \in left \X Members : Inherits(m[1], m[2], r)}
      /\ queued' = {q \in queued : q.event \notin {t, e}}
  BY <1>2 DEF SplitInto
<1>4. \A c \in left : /\ c \in DOMAIN events /\ events[c].rec = 0 /\ c \in Nat
                      /\ \E k \in DOMAIN overrides : k[1] = r /\ overrides[k] = c
  <2> SUFFICES ASSUME NEW c \in left
               PROVE  /\ c \in DOMAIN events /\ events[c].rec = 0 /\ c \in Nat
                      /\ \E k \in DOMAIN overrides : k[1] = r /\ overrides[k] = c
    OBVIOUS
  <2>1. PICK k \in DOMAIN overrides : k[1] = r /\ overrides[k] = c /\ c # NoEvent
    BY DEF LeftBehind, ExceptionsOf
  <2>2. c \in DOMAIN events /\ events[c].rec = 0
    BY <2>1 DEF Sound, Shape, ExceptionsOK
  <2> QED BY <2>1, <2>2, EventFacts DEF Sound
<1>5. r \in DOMAIN recs /\ r # n
  BY <1>3, TemplateIs
<1> DEFINE given == Carried(r, n, left)
<1>6. \A k \in given :
          /\ k = <<k[1], k[2], k[3], k[4]>> /\ k[3] \in Members /\ k[4] \in Shapes
          /\ k[1] \in {"event", "series"}
          /\ k[1] = "series" => k[2] = n
          /\ k[1] = "event" => k[2] \in left
  <2> HIDE DEF r, left
  <2>1. given = Carried(r, n, left)
    OBVIOUS
  <2> HIDE DEF given
  <2> SUFFICES ASSUME NEW k \in given
               PROVE  /\ k = <<k[1], k[2], k[3], k[4]>> /\ k[3] \in Members /\ k[4] \in Shapes
                      /\ k[1] \in {"event", "series"}
                      /\ k[1] = "series" => k[2] = n
                      /\ k[1] = "event" => k[2] \in left
    OBVIOUS
  <2>2. /\ k = <<k[1], k[2], k[3], k[4]>> /\ k[3] \in Members /\ k[4] \in Shapes
        /\ k[1] \in {"event", "series"} /\ <<"series", r, k[3], k[4]>> \in DOMAIN reminders
        /\ k[1] = "series" => k[2] = n
        /\ k[1] = "event" => k[2] \in left /\ Inherits(k[2], k[3], r)
    BY <2>1, CarriedIs
  <2> QED BY <2>2
<1> HIDE DEF r, left, given
<1>7. DOMAIN reminders' = DOMAIN reminders \cup given
  BY <1>3 DEF given
<1>8. TypeOK'
  <2>1. \A k \in given : k \in {"event", "series"} \X Nat \X Members \X Shapes
    <3> SUFFICES ASSUME NEW k \in given PROVE k \in {"event", "series"} \X Nat \X Members \X Shapes
      OBVIOUS
    <3>1. k[2] \in Nat
      BY <1>3, <1>4, <1>6
    <3> QED BY <1>6, <3>1
  <2>2. DOMAIN reminders' \subseteq {"event", "series"} \X Nat \X Members \X Shapes
    BY <1>7, <2>1 DEF Sound, TypeOK
  <2>3. {m \in left \X Members : Inherits(m[1], m[2], r)} \subseteq Nat \X Members
    BY <1>4
  <2>4. detached' \subseteq Nat \X Members
    BY <1>3, <2>3 DEF Sound, TypeOK
  <2>5. queued' \subseteq [event : Nat, date : Nat, day : Nat]
    BY <1>3 DEF Sound, TypeOK
  <2> QED BY <1>3, <2>2, <2>4, <2>5, EditType DEF TypeOK
<1>9. Anchored'
  BY <1>1, <1>3 DEF Sound, Shape, Anchored, Days
<1>10. OneTemplate'
  <2>1. \A x \in DOMAIN events : events[x].rec # n
    BY <1>3 DEF Sound, Shape, RecsExist
  <2> QED BY <1>3, <2>1 DEF Sound, Shape, OneTemplate
<1>11. HasTemplate' /\ RecsExist'
  BY <1>3 DEF Sound, Shape, HasTemplate, RecsExist
<1>12. ASSUME NEW k \in DOMAIN overrides'
       PROVE  \E l \in DOMAIN overrides : /\ overrides'[k] = overrides[l] /\ l[2] = k[2]
                                          /\ IF k[1] = n THEN l = <<r, k[2]>> /\ ~(k[2] < at) /\ k = <<n, k[2]>>
                                             ELSE l = k /\ (k[1] # r \/ k[2] < at)
  <2>1. CASE /\ k \in DOMAIN overrides /\ overrides'[k] = overrides[k]
             /\ (k[1] # r \/ k[2] < at)
    BY <1>3, <2>1 DEF Sound, Shape, ExceptionsOK
  <2>2. CASE /\ k = <<n, k[2]>> /\ k[1] = n /\ k[2] \in Nat
             /\ <<r, k[2]>> \in DOMAIN overrides /\ ~(k[2] < at) /\ Occurs(new, k[2])
             /\ overrides'[k] = overrides[<<r, k[2]>>]
    <3> DEFINE l == <<r, k[2]>>
    <3>1. l[2] = k[2]
      OBVIOUS
    <3> HIDE DEF l
    <3>2. /\ overrides'[k] = overrides[l] /\ l[2] = k[2] /\ l \in DOMAIN overrides
          /\ k[1] = n /\ l = <<r, k[2]>> /\ ~(k[2] < at) /\ k = <<n, k[2]>>
      BY <2>2, <3>1 DEF l
    <3> QED BY <3>2
  <2> QED BY <1>3, <2>1, <2>2 DEF OverridesSplit
<1>13. ExceptionsOK'
  <2> SUFFICES ASSUME NEW k \in DOMAIN overrides'
               PROVE  /\ k[1] \in DOMAIN recs'
                      /\ overrides'[k] # NoEvent => /\ overrides'[k] \in DOMAIN events'
                                                    /\ events'[overrides'[k]].rec = 0
    BY DEF ExceptionsOK
  <2>1. PICK l \in DOMAIN overrides : /\ overrides'[k] = overrides[l]
                                      /\ k[1] # n => l = k
    BY <1>12
  <2> QED BY <1>3, <2>1 DEF Sound, Shape, ExceptionsOK
<1>14. CopiesDistinct'
  <2> SUFFICES ASSUME NEW k \in DOMAIN overrides', NEW l \in DOMAIN overrides',
                      overrides'[k] = overrides'[l], overrides'[k] # NoEvent
               PROVE  k = l
    BY DEF CopiesDistinct
  <2>1. PICK x \in DOMAIN overrides :
            /\ overrides'[k] = overrides[x] /\ x[2] = k[2]
            /\ IF k[1] = n THEN x = <<r, k[2]>> /\ ~(k[2] < at) /\ k = <<n, k[2]>>
               ELSE x = k /\ (k[1] # r \/ k[2] < at)
    BY <1>12
  <2>2. PICK y \in DOMAIN overrides :
            /\ overrides'[l] = overrides[y] /\ y[2] = l[2]
            /\ IF l[1] = n THEN y = <<r, l[2]>> /\ ~(l[2] < at) /\ l = <<n, l[2]>>
               ELSE y = l /\ (l[1] # r \/ l[2] < at)
    BY <1>12
  <2>3. x = y
    BY <2>1, <2>2 DEF Sound, Shape, CopiesDistinct
  <2>4. k[2] = l[2]
    BY <2>1, <2>2, <2>3
  <2>5. CASE k[1] = n /\ l[1] = n
    BY <2>1, <2>2, <2>4, <2>5
  <2>6. CASE k[1] # n /\ l[1] # n
    BY <2>1, <2>2, <2>3, <2>6
  <2>7. CASE k[1] = n /\ l[1] # n
    <3>1. l[1] = r
      BY <2>1, <2>2, <2>3, <2>7
    <3> QED BY <2>1, <2>2, <2>4, <2>7, <3>1
  <2>8. CASE k[1] # n /\ l[1] = n
    <3>1. k[1] = r
      BY <2>1, <2>2, <2>3, <2>8
    <3> QED BY <2>1, <2>2, <2>4, <2>8, <3>1
  <2> QED BY <2>5, <2>6, <2>7, <2>8
<1>15. RemindersOK'
  <2> SUFFICES ASSUME NEW k \in DOMAIN reminders'
               PROVE  /\ k[1] = "event" => k[2] \in DOMAIN events' /\ events'[k[2]].rec = 0
                      /\ k[1] = "series" => k[2] \in DOMAIN recs'
    BY DEF RemindersOK
  <2>1. CASE k \in DOMAIN reminders
    BY <1>3, <2>1 DEF Sound, Shape, RemindersOK
  <2>2. CASE k \in given
    BY <1>3, <1>4, <1>6, <2>2
  <2> QED BY <1>7, <2>1, <2>2
<1>16. MarkersOK'
  <2>1. \A m \in detached' : m \in detached \/ m[1] \in left
    BY <1>3
  <2> QED BY <1>3, <1>4, <2>1 DEF Sound, Shape, MarkersOK
<1> QED BY <1>8, <1>9, <1>10, <1>11, <1>13, <1>14, <1>15, <1>16 DEF Sound, Shape

-----------------------------------------------------------------------------
(* What the calendar has. *)
HasAlone(o) ==
    \E e \in DOMAIN events : events[e].rec = 0 /\ ~IsCopy(e) /\ o = Alone(e)

HasShifted(o) ==
    \E t \in DOMAIN events, d \in 1 .. Horizon :
        /\ events[t].rec # 0 /\ Occurs(recs[events[t].rec], d)
        /\ <<events[t].rec, d>> \notin DOMAIN overrides
        /\ o = Shifted(t, d)

HasEdited(o) ==
    \E t \in DOMAIN events, d \in Nat :
        /\ events[t].rec # 0 /\ Occurs(recs[events[t].rec], d)
        /\ <<events[t].rec, d>> \in DOMAIN overrides
        /\ overrides[<<events[t].rec, d>>] # NoEvent
        /\ o = Edited(t, d, overrides[<<events[t].rec, d>>])

LEMMA CalendarHas ==
    Sound => \A o : o \in Calendar <=> HasAlone(o) \/ HasShifted(o) \/ HasEdited(o)
<1> SUFFICES ASSUME Sound, NEW o
             PROVE  o \in Calendar <=> HasAlone(o) \/ HasShifted(o) \/ HasEdited(o)
  OBVIOUS
<1> DEFINE alone == {Alone(e) : e \in {x \in DOMAIN events : events[x].rec = 0 /\ ~IsCopy(x)}}
           shifted(t) == {Shifted(t, d) : d \in {x \in Expand(recs[events[t].rec], 1, Horizon) :
                                                    <<events[t].rec, x>> \notin DOMAIN overrides}}
           edited(t) == {Edited(t, k[2], overrides[k]) :
                            k \in {x \in ExceptionsOf(events[t].rec) :
                                      /\ overrides[x] # NoEvent
                                      /\ Occurs(recs[events[t].rec], x[2])}}
           repeating == {x \in DOMAIN events : events[x].rec # 0}
<1>1. o \in Calendar <=> (o \in alone \/ \E t \in repeating : o \in shifted(t) \/ o \in edited(t))
  <2>1. Calendar = alone \cup UNION {shifted(t) \cup edited(t) : t \in repeating}
    BY DEF Calendar
  <2> HIDE DEF alone, shifted, edited, repeating
  <2> QED BY <2>1
<1>2. o \in alone <=> HasAlone(o)
  BY DEF HasAlone
<1>3. ASSUME NEW t \in repeating
      PROVE  o \in shifted(t) <=> \E d \in 1 .. Horizon :
                 /\ Occurs(recs[events[t].rec], d) /\ <<events[t].rec, d>> \notin DOMAIN overrides
                 /\ o = Shifted(t, d)
  BY DEF Expand
<1>4. ASSUME NEW t \in repeating
      PROVE  o \in edited(t) <=> \E d \in Nat :
                 /\ Occurs(recs[events[t].rec], d) /\ <<events[t].rec, d>> \in DOMAIN overrides
                 /\ overrides[<<events[t].rec, d>>] # NoEvent
                 /\ o = Edited(t, d, overrides[<<events[t].rec, d>>])
  <2>1. ASSUME o \in edited(t)
        PROVE  \E d \in Nat :
                 /\ Occurs(recs[events[t].rec], d) /\ <<events[t].rec, d>> \in DOMAIN overrides
                 /\ overrides[<<events[t].rec, d>>] # NoEvent
                 /\ o = Edited(t, d, overrides[<<events[t].rec, d>>])
    <3>1. PICK k \in ExceptionsOf(events[t].rec) :
              /\ overrides[k] # NoEvent /\ Occurs(recs[events[t].rec], k[2])
              /\ o = Edited(t, k[2], overrides[k])
      BY <2>1
    <3>2. k \in DOMAIN overrides /\ k[1] = events[t].rec
      BY DEF ExceptionsOf
    <3>3. k[2] \in Nat /\ k = <<events[t].rec, k[2]>>
      BY <3>2, OverrideFacts DEF Sound
    <3> QED BY <3>1, <3>2, <3>3
  <2>2. ASSUME NEW d \in Nat,
               Occurs(recs[events[t].rec], d), <<events[t].rec, d>> \in DOMAIN overrides,
               overrides[<<events[t].rec, d>>] # NoEvent,
               o = Edited(t, d, overrides[<<events[t].rec, d>>])
        PROVE  o \in edited(t)
    <3> DEFINE k == <<events[t].rec, d>>
    <3>1. k \in ExceptionsOf(events[t].rec) /\ k[2] = d
      BY <2>2 DEF ExceptionsOf
    <3>2. overrides[k] # NoEvent /\ Occurs(recs[events[t].rec], k[2]) /\ o = Edited(t, k[2], overrides[k])
      BY <2>2, <3>1
    <3> HIDE DEF k
    <3> QED BY <3>1, <3>2
  <2> HIDE DEF edited
  <2> QED BY <2>1, <2>2
<1>5. \A t : t \in repeating <=> t \in DOMAIN events /\ events[t].rec # 0
  OBVIOUS
<1> HIDE DEF alone, shifted, edited, repeating
<1>6. (\E t \in repeating : o \in shifted(t)) <=> HasShifted(o)
  BY <1>3, <1>5 DEF HasShifted
<1>7. (\E t \in repeating : o \in edited(t)) <=> HasEdited(o)
  BY <1>4, <1>5 DEF HasEdited
<1> QED BY <1>1, <1>2, <1>6, <1>7

(* The range read gives what the calendar has in a window, for any window: *)
(* the filter on series loses nothing.                                     *)
LEMMA WindowIs ==
    ASSUME Sound, NEW from \in Nat, NEW to \in Nat, to <= Horizon
    PROVE  Occurrences(from, to) = {o \in Calendar : Overlaps(o, from, to)}
<1> SUFFICES ASSUME NEW o
             PROVE  o \in Occurrences(from, to) <=> o \in Calendar /\ Overlaps(o, from, to)
  OBVIOUS
<1> DEFINE alone == {Alone(e) : e \in Singles(from, to)}
           dates(t) == Expand(recs[events[t].rec], from - Span - 1, to)
           plain(t) == {Shifted(t, d) : d \in {x \in dates(t) : <<events[t].rec, x>> \notin DOMAIN overrides}}
           moved(t) == {Edited(t, k[2], overrides[k]) :
                           k \in {x \in ExceptionsOf(events[t].rec) :
                                     /\ overrides[x] \in DOMAIN events
                                     /\ Occurs(recs[events[t].rec], x[2])}}
           near == SeriesInRange(from, to)
<1>1. o \in Occurrences(from, to) <=>
         \/ o \in alone
         \/ \E t \in near : (o \in plain(t) \/ o \in moved(t)) /\ Overlaps(o, from, to)
  <2>1. \A t : ExpandSeries(t, from, to) = {x \in plain(t) \cup moved(t) : Overlaps(x, from, to)}
    BY DEF ExpandSeries
  <2>2. Occurrences(from, to) = alone \cup UNION {ExpandSeries(t, from, to) : t \in near}
    BY DEF Occurrences
  <2> HIDE DEF alone, plain, moved, near
  <2>3. o \in Occurrences(from, to) <=> (o \in alone \/ \E t \in near : o \in ExpandSeries(t, from, to))
    BY <2>2
  <2> QED BY <2>1, <2>3
<1>2. o \in alone <=> HasAlone(o) /\ Overlaps(o, from, to)
  BY DEF Singles, HasAlone, Alone, Occ, Overlaps
<1>3. \A t \in near : t \in DOMAIN events /\ events[t].rec # 0
  BY DEF SeriesInRange
<1>4. ASSUME Overlaps(o, from, to), HasShifted(o) PROVE \E t \in near : o \in plain(t)
  <2>1. PICK t \in DOMAIN events, d \in 1 .. Horizon :
            /\ events[t].rec # 0 /\ Occurs(recs[events[t].rec], d)
            /\ <<events[t].rec, d>> \notin DOMAIN overrides
            /\ o = Shifted(t, d)
    BY <1>4 DEF HasShifted
  <2>2. recs[events[t].rec].dt \in Nat /\ recs[events[t].rec].until \in Nat /\ d \in Nat
    BY <2>1, TemplateIs, RecFacts, Constants DEF Sound
  <2>3. d <= to /\ d + Span >= from
    BY <1>4, <2>1 DEF Overlaps, Shifted, Occ
  <2>4. recs[events[t].rec].dt <= d /\ d <= recs[events[t].rec].until
    BY <2>1 DEF Occurs
  <2>5. t \in near
    <3>1. recs[events[t].rec].dt <= to /\ recs[events[t].rec].until >= from - Tail
      BY <2>2, <2>3, <2>4, Constants
    <3> QED BY <2>1, <3>1 DEF SeriesInRange
  <2>6. d \in dates(t)
    BY <2>1, <2>2, <2>3, Constants DEF Expand
  <2> QED BY <2>1, <2>5, <2>6
<1>5. ASSUME Overlaps(o, from, to), NEW t \in near, o \in plain(t) PROVE HasShifted(o)
  <2>1. PICK d \in dates(t) : <<events[t].rec, d>> \notin DOMAIN overrides /\ o = Shifted(t, d)
    BY <1>5
  <2>2. d \in Int /\ d <= to /\ Occurs(recs[events[t].rec], d)
    BY <2>1, Constants DEF Expand
  <2>3. recs[events[t].rec].dt \in Nat /\ recs[events[t].rec].dt # 0
    BY <1>3, TemplateIs, RecFacts DEF Sound, Shape, Anchored
  <2>4. d \in 1 .. Horizon
    BY <2>2, <2>3, Constants DEF Occurs
  <2> QED BY <1>3, <2>1, <2>2, <2>4 DEF HasShifted
<1>6. ASSUME HasEdited(o) PROVE \E t \in near : o \in moved(t)
  <2>1. PICK t \in DOMAIN events, d \in Nat :
            /\ events[t].rec # 0 /\ Occurs(recs[events[t].rec], d)
            /\ <<events[t].rec, d>> \in DOMAIN overrides
            /\ overrides[<<events[t].rec, d>>] # NoEvent
            /\ o = Edited(t, d, overrides[<<events[t].rec, d>>])
    BY <1>6 DEF HasEdited
  <2> DEFINE k == <<events[t].rec, d>>
  <2>2. /\ k \in ExceptionsOf(events[t].rec) /\ k[2] = d /\ overrides[k] # NoEvent
        /\ overrides[k] \in DOMAIN events /\ Occurs(recs[events[t].rec], k[2])
        /\ o = Edited(t, k[2], overrides[k])
    BY <2>1 DEF ExceptionsOf, Sound, Shape, ExceptionsOK
  <2> HIDE DEF k
  <2>3. CopiesOf(events[t].rec) # {}
    BY <2>2 DEF CopiesOf
  <2>4. t \in near
    BY <2>1, <2>3 DEF SeriesInRange
  <2> QED BY <2>2, <2>4
<1>7. ASSUME NEW t \in near, o \in moved(t) PROVE HasEdited(o)
  <2>1. PICK k \in ExceptionsOf(events[t].rec) :
            /\ overrides[k] \in DOMAIN events /\ Occurs(recs[events[t].rec], k[2])
            /\ o = Edited(t, k[2], overrides[k])
    BY <1>7
  <2>2. k \in DOMAIN overrides /\ k[1] = events[t].rec
    BY DEF ExceptionsOf
  <2>3. k = <<events[t].rec, k[2]>> /\ k[2] \in Nat
    BY <2>2, OverrideFacts DEF Sound
  <2>4. overrides[k] # NoEvent
    BY <2>1, EventFacts DEF Sound, NoEvent
  <2> QED BY <1>3, <2>1, <2>2, <2>3, <2>4 DEF HasEdited
<1>8. o \in Calendar <=> HasAlone(o) \/ HasShifted(o) \/ HasEdited(o)
  BY CalendarHas
<1> HIDE DEF alone, plain, moved, near
<1> QED BY <1>1, <1>2, <1>4, <1>5, <1>6, <1>7, <1>8

LEMMA CalendarType ==
    ASSUME Sound, NEW o \in Calendar
    PROVE  /\ o = Occ(o.event, o.series, o.date, o.day)
           /\ o.event \in DOMAIN events /\ o.date \in Nat /\ o.day \in Nat
           /\ o.series \in DOMAIN events \cup {NoEvent}
           /\ Source(o) \in DOMAIN events
           /\ Ref(o) \in [event : Nat, date : Nat, day : Nat]
<1>1. /\ o = Occ(o.event, o.series, o.date, o.day)
      /\ o.event \in DOMAIN events /\ o.date \in Nat /\ o.day \in Nat
      /\ o.series \in DOMAIN events \cup {NoEvent}
  <2>1. CASE HasAlone(o)
    BY <2>1, EventFacts DEF HasAlone, Alone, Occ, Sound, NoEvent
  <2>2. CASE HasShifted(o)
    BY <2>2, Constants DEF HasShifted, Shifted, Occ
  <2>3. CASE HasEdited(o)
    <3>1. PICK t \in DOMAIN events, d \in Nat :
              /\ <<events[t].rec, d>> \in DOMAIN overrides
              /\ overrides[<<events[t].rec, d>>] # NoEvent
              /\ o = Edited(t, d, overrides[<<events[t].rec, d>>])
      BY <2>3 DEF HasEdited
    <3>2. overrides[<<events[t].rec, d>>] \in DOMAIN events
      BY <3>1 DEF Sound, Shape, ExceptionsOK
    <3> QED BY <3>1, <3>2, EventFacts DEF Edited, Occ, Sound
  <2> QED BY <2>1, <2>2, <2>3, CalendarHas
<1>2. Source(o) \in DOMAIN events
  BY <1>1 DEF Source
<1>3. Source(o) \in Nat
  BY <1>2, EventFacts DEF Sound
<1> QED BY <1>1, <1>2, <1>3 DEF Ref

-----------------------------------------------------------------------------
(* The other requests, and all of them together. *)

LEMMA CreateIs ==
    ASSUME Sound, NEW day \in Days, NEW rule \in Rules \cup {NoRule}, Create(day, rule)
    PROVE  /\ Edit /\ UNCHANGED <<overrides, reminders, detached, queued>>
           /\ IsTable(events', EventRow) /\ IsTable(recs', RecRow)
           /\ \E e \in Nat \ {0} :
                 /\ e \notin DOMAIN events /\ DOMAIN events' = DOMAIN events \cup {e}
                 /\ \A x \in DOMAIN events : events'[x] = events[x]
                 /\ \/ events'[e].rec = 0 /\ recs' = recs
                    \/ \E r \in Nat \ {0} :
                          /\ events'[e].rec = r /\ r \notin DOMAIN recs
                          /\ DOMAIN recs' = DOMAIN recs \cup {r} /\ recs'[r].dt = day
                          /\ \A x \in DOMAIN recs : recs'[x] = recs[x]
<1>1. Edit /\ UNCHANGED <<overrides, reminders, detached, queued>> /\ day \in Nat
  BY DEF Create, Days
<1>2. PICK e \in 1 .. MaxEdits + 1 :
          IF rule = NoRule
          THEN CreateEvent(e, [rec |-> 0, day |-> day]) /\ UNCHANGED recs
          ELSE LET new == [dt |-> day, until |-> rule.until, on |-> rule.on]
               IN  /\ Valid(new)
                   /\ \E r \in 1 .. MaxEdits + 1 :
                         /\ IsNextId(recs, r)
                         /\ recs' = Insert(recs, r, new)
                         /\ CreateEvent(e, [rec |-> r, day |-> day])
  BY DEF Create
<1>3. e \in Nat \ {0}
  BY Constants
<1>4. CASE rule = NoRule
  <2>1. CreateEvent(e, [rec |-> 0, day |-> day]) /\ recs' = recs
    BY <1>2, <1>4
  <2>2. [rec |-> 0, day |-> day] \in EventRow /\ [rec |-> 0, day |-> day].rec = 0
    BY <1>1 DEF EventRow
  <2>3. /\ IsTable(events', EventRow) /\ DOMAIN events' = DOMAIN events \cup {e}
        /\ e \notin DOMAIN events /\ events'[e].rec = 0
        /\ \A x \in DOMAIN events : events'[x] = events[x]
    BY <1>3, <2>1, <2>2, CreateEventIs DEF Sound
  <2>4. IsTable(recs', RecRow)
    BY <2>1 DEF Sound, TypeOK
  <2> QED BY <1>1, <1>3, <2>1, <2>3, <2>4
<1>5. CASE rule # NoRule
  <2> DEFINE new == [dt |-> day, until |-> rule.until, on |-> rule.on]
  <2>1. PICK r \in 1 .. MaxEdits + 1 :
            /\ IsNextId(recs, r) /\ recs' = Insert(recs, r, new)
            /\ CreateEvent(e, [rec |-> r, day |-> day])
    BY <1>2, <1>5
  <2>2. r \in Nat \ {0}
    BY Constants
  <2>3. rule.until \in Nat /\ rule.on \in SUBSET (0 .. Week - 1)
    BY <1>5, SeriesConstants
  <2>4. new \in RecRow /\ new.dt = day
    BY <1>1, <2>3 DEF RecRow
  <2> HIDE DEF new
  <2>5. r \notin DOMAIN recs
    <3>1. \A i \in DOMAIN recs : i < r
      BY <2>1 DEF IsNextId
    <3> QED BY <2>2, <3>1
  <2>6. /\ IsTable(recs', RecRow) /\ DOMAIN recs' = DOMAIN recs \cup {r} /\ recs'[r] = new
        /\ \A x \in DOMAIN recs : recs'[x] = recs[x]
    BY <2>1, <2>2, <2>4, <2>5 DEF Insert, IsTable, Sound, TypeOK
  <2>7. [rec |-> r, day |-> day] \in EventRow /\ [rec |-> r, day |-> day].rec = r
    BY <1>1, <2>2 DEF EventRow
  <2>8. /\ IsTable(events', EventRow) /\ DOMAIN events' = DOMAIN events \cup {e}
        /\ e \notin DOMAIN events /\ events'[e].rec = r
        /\ \A x \in DOMAIN events : events'[x] = events[x]
    BY <1>3, <2>1, <2>7, CreateEventIs DEF Sound
  <2> QED BY <1>1, <1>3, <2>2, <2>4, <2>5, <2>6, <2>8
<1> QED BY <1>4, <1>5

LEMMA CreateSound ==
    ASSUME Sound, NEW day \in Days, NEW rule \in Rules \cup {NoRule}, Create(day, rule)
    PROVE  Sound'
<1>1. /\ Edit /\ UNCHANGED <<overrides, reminders, detached, queued>>
      /\ IsTable(events', EventRow) /\ IsTable(recs', RecRow)
  BY CreateIs
<1>2. PICK e \in Nat \ {0} :
          /\ e \notin DOMAIN events /\ DOMAIN events' = DOMAIN events \cup {e}
          /\ \A x \in DOMAIN events : events'[x] = events[x]
          /\ \/ events'[e].rec = 0 /\ recs' = recs
             \/ \E r \in Nat \ {0} :
                   /\ events'[e].rec = r /\ r \notin DOMAIN recs
                   /\ DOMAIN recs' = DOMAIN recs \cup {r} /\ recs'[r].dt = day
                   /\ \A x \in DOMAIN recs : recs'[x] = recs[x]
  BY CreateIs
<1>3. TypeOK'
  BY <1>1, EditType, TypeStays DEF Sound, TypeOK
<1>4. DOMAIN recs \subseteq DOMAIN recs'
  BY <1>2
<1>5. ExceptionsOK' /\ CopiesDistinct' /\ RemindersOK' /\ MarkersOK'
  BY <1>1, <1>2, <1>4 DEF Sound, Shape, ExceptionsOK, CopiesDistinct, RemindersOK, MarkersOK
<1>6. CASE events'[e].rec = 0 /\ recs' = recs
  BY <1>2, <1>3, <1>5, <1>6
     DEF Sound, Shape, Anchored, OneTemplate, HasTemplate, RecsExist
<1>7. ASSUME NEW r \in Nat \ {0},
             events'[e].rec = r, r \notin DOMAIN recs,
             DOMAIN recs' = DOMAIN recs \cup {r}, recs'[r].dt = day,
             \A x \in DOMAIN recs : recs'[x] = recs[x]
      PROVE  Sound'
  <2>1. Anchored'
    BY <1>7 DEF Sound, Shape, Anchored, Days
  <2>2. \A x \in DOMAIN events : events[x].rec # r
    BY <1>7 DEF Sound, Shape, RecsExist
  <2>3. OneTemplate'
    BY <1>2, <1>7, <2>2 DEF Sound, Shape, OneTemplate
  <2>4. HasTemplate' /\ RecsExist'
    BY <1>2, <1>7 DEF Sound, Shape, HasTemplate, RecsExist
  <2> QED BY <1>3, <1>5, <2>1, <2>3, <2>4 DEF Sound, Shape
<1> QED BY <1>2, <1>6, <1>7

LEMMA ReplaceRemindersIs ==
    ASSUME Sound, NEW scope, NEW id, NEW u, NEW shapes, ReplaceReminders(scope, id, u, shapes)
    PROVE  /\ \A k \in DOMAIN reminders' : k \in DOMAIN reminders \/ \E s \in shapes : k = <<scope, id, u, s>>
           /\ \A k \in DOMAIN reminders :
                 k \in DOMAIN reminders' \/ (k[1] = scope /\ k[2] = id /\ k[3] = u /\ k[4] \notin shapes)
           /\ \A s : <<scope, id, u, s>> \in DOMAIN reminders' <=> s \in shapes
           /\ \A k \in DOMAIN reminders \cap DOMAIN reminders' : reminders'[k] = reminders[k]
           /\ detached' = detached \cup (IF scope = "event" /\ IsCopy(id) THEN {<<id, u>>} ELSE {})
<1> DEFINE asked == {<<scope, id, u, s>> : s \in shapes}
           kept == {k \in DOMAIN reminders : <<k[1], k[2], k[3]>> # <<scope, id, u>> \/ k \in asked}
<1>1. /\ reminders' = [k \in kept \cup asked |-> IF k \in kept THEN reminders[k] ELSE edits']
      /\ detached' = detached \cup (IF scope = "event" /\ IsCopy(id) THEN {<<id, u>>} ELSE {})
  BY DEF ReplaceReminders
<1>2. \A k : k \in asked <=> \E s \in shapes : k = <<scope, id, u, s>>
  OBVIOUS
<1>3. \A k \in kept : k \in DOMAIN reminders
  OBVIOUS
<1>4. ASSUME NEW k \in DOMAIN reminders, k \notin kept
      PROVE  k[1] = scope /\ k[2] = id /\ k[3] = u /\ k[4] \notin shapes
  <2>1. k[1] = scope /\ k[2] = id /\ k[3] = u /\ k \notin asked
    BY <1>4
  <2>2. k = <<scope, id, u, k[4]>>
    BY <2>1, ReminderFacts DEF Sound
  <2> QED BY <2>1, <2>2
<1>5. \A s : <<scope, id, u, s>> \in kept => s \in shapes
  <2> SUFFICES ASSUME NEW s, <<scope, id, u, s>> \in kept PROVE s \in shapes
    OBVIOUS
  <2>1. <<scope, id, u, s>> \in asked
    OBVIOUS
  <2> QED BY <2>1
<1>6. \A s : <<scope, id, u, s>> \in asked <=> s \in shapes
  OBVIOUS
<1>7. \A k \in DOMAIN reminders : k \in asked => k \in kept
  OBVIOUS
<1> HIDE DEF asked, kept
<1>8. /\ DOMAIN reminders' = kept \cup asked
      /\ \A k \in kept : reminders'[k] = reminders[k]
  BY <1>1
<1>9. \A k \in DOMAIN reminders' : k \in DOMAIN reminders \/ \E s \in shapes : k = <<scope, id, u, s>>
  BY <1>2, <1>3, <1>8
<1>10. \A k \in DOMAIN reminders :
          k \in DOMAIN reminders' \/ (k[1] = scope /\ k[2] = id /\ k[3] = u /\ k[4] \notin shapes)
  BY <1>4, <1>8
<1>11. \A s : <<scope, id, u, s>> \in DOMAIN reminders' <=> s \in shapes
  BY <1>5, <1>6, <1>8
<1>12. \A k \in DOMAIN reminders \cap DOMAIN reminders' : reminders'[k] = reminders[k]
  BY <1>7, <1>8
<1> QED BY <1>1, <1>9, <1>10, <1>11, <1>12

LEMMA PutRemindersSound ==
    ASSUME Sound, NEW e \in DOMAIN events, NEW u \in Members, NEW shapes \in SUBSET Shapes,
           PutReminders(e, u, shapes)
    PROVE  Sound'
<1> DEFINE scope == IF events[e].rec = 0 THEN "event" ELSE "series"
           id == IF events[e].rec = 0 THEN e ELSE events[e].rec
<1>1. /\ Edit /\ ReplaceReminders(scope, id, u, shapes)
      /\ UNCHANGED <<events, recs, overrides, queued>>
  BY DEF PutReminders
<1>2. /\ scope \in {"event", "series"} /\ id \in Nat
      /\ scope = "event" => id = e /\ events[e].rec = 0
      /\ scope = "series" => id \in DOMAIN recs
  BY EventFacts, TemplateIs DEF Sound
<1> HIDE DEF scope, id
<1>3. \A k \in DOMAIN reminders' : k \in DOMAIN reminders \/ \E s \in shapes : k = <<scope, id, u, s>>
  BY <1>1, ReplaceRemindersIs
<1>4. detached' = detached \cup (IF scope = "event" /\ IsCopy(id) THEN {<<id, u>>} ELSE {})
  BY <1>1, ReplaceRemindersIs
<1>5. TypeOK'
  <2>1. DOMAIN reminders' \subseteq {"event", "series"} \X Nat \X Members \X Shapes
    BY <1>2, <1>3 DEF Sound, TypeOK
  <2>2. detached' \subseteq Nat \X Members
    BY <1>2, <1>4 DEF Sound, TypeOK
  <2> QED BY <1>1, <2>1, <2>2, EditType DEF Sound, TypeOK
<1>6. RemindersOK'
  BY <1>1, <1>2, <1>3 DEF Sound, Shape, RemindersOK
<1>7. MarkersOK'
  BY <1>1, <1>2, <1>4 DEF Sound, Shape, MarkersOK
<1>8. /\ Anchored' /\ OneTemplate' /\ HasTemplate' /\ RecsExist'
      /\ ExceptionsOK' /\ CopiesDistinct'
  BY <1>1 DEF Sound, Shape, Anchored, OneTemplate, HasTemplate, RecsExist, ExceptionsOK, CopiesDistinct
<1> QED BY <1>5, <1>6, <1>7, <1>8 DEF Sound, Shape

(* A planning pass queues only what the calendar has. *)
LEMMA PlanIs ==
    ASSUME Sound, Plan
    PROVE  /\ UNCHANGED <<events, recs, overrides, reminders, detached, edits>>
           /\ queued' \subseteq {Ref(o) : o \in Calendar}
<1>1. /\ UNCHANGED <<events, recs, overrides, reminders, detached, edits>>
      /\ queued' \subseteq {Ref(o) : o \in Occurrences(1, Horizon)}
  BY DEF Plan
<1>2. Occurrences(1, Horizon) \subseteq Calendar
  BY WindowIs, Constants
<1> QED BY <1>1, <1>2

LEMMA PlanSound ==
    ASSUME Sound, Plan
    PROVE  Sound'
<1>1. queued' \subseteq [event : Nat, date : Nat, day : Nat]
  BY PlanIs, CalendarType
<1>2. TypeOK'
  BY <1>1, PlanIs DEF Sound, TypeOK
<1>3. Shape'
  BY PlanIs, SameShape DEF Sound, Shape, Anchored
<1> QED BY <1>2, <1>3 DEF Sound

(* What an edit comes down to, once the occurrence it names is resolved.   *)
UpdateOf(t, scope, d, day) ==
    /\ Edit /\ Did("update", t, scope, d, day) /\ ~IsCopy(t)
    /\ \/ events[t].rec = 0 /\ scope = "all" /\ UpdatePlain(t, day)
       \/ /\ events[t].rec # 0 /\ scope = "all"
          /\ \E rule \in Rules : UpdateSeries(t, recs[events[t].rec], FALSE, day, rule)
       \/ /\ events[t].rec # 0 /\ scope = "this"
          /\ UpdateOccurrence(t, recs[events[t].rec], d, day)
       \/ /\ events[t].rec # 0 /\ scope = "upcoming" /\ d <= recs[events[t].rec].dt
          /\ \E rule \in Rules \cup {NoRule} : UpdateSeries(t, recs[events[t].rec], TRUE, day, rule)
       \/ /\ events[t].rec # 0 /\ scope = "upcoming" /\ d > recs[events[t].rec].dt /\ d # 0
          /\ \E rule \in Rules \cup {NoRule} : SplitSeries(t, recs[events[t].rec], d, day, rule)

DeleteOf(t, scope, d) ==
    /\ Edit /\ Did("delete", t, scope, d, 0) /\ ~IsCopy(t)
    /\ \/ events[t].rec = 0 /\ scope = "all" /\ DeletePlain(t)
       \/ events[t].rec # 0 /\ scope = "this" /\ CancelOccurrence(t, recs[events[t].rec], d)
       \/ events[t].rec # 0 /\ scope = "all" /\ DeleteSeries(t)
       \/ /\ events[t].rec # 0 /\ scope = "upcoming" /\ d <= recs[events[t].rec].dt
          /\ DeleteSeries(t)
       \/ /\ events[t].rec # 0 /\ scope = "upcoming" /\ d > recs[events[t].rec].dt /\ d - 1 \in Nat
          /\ EndSeries(t, recs[events[t].rec], d - 1)

LEMMA UpdateIs ==
    ASSUME Sound, NEW e \in DOMAIN events, NEW scope \in Scopes, NEW when \in Days, NEW day \in Days,
           Update(e, scope, when, day)
    PROVE  \E t \in DOMAIN events, d \in Nat : UpdateOf(t, scope, d, day)
<1> DEFINE t == Resolve(e, when).event
           d == Resolve(e, when).date
           rec == recs[events[t].rec]
<1>1. when \in Nat
  BY DEF Days
<1>2. t \in DOMAIN events /\ d \in Nat /\ ~IsCopy(t)
  BY <1>1, ResolveIs
<1>3. /\ Edit /\ Did("update", t, scope, d, day)
      /\ IF events[t].rec = 0
         THEN scope = "all" /\ UpdatePlain(t, day)
         ELSE \/ /\ scope = "all"
                 /\ \E rule \in Rules : UpdateSeries(t, rec, FALSE, day, rule)
              \/ scope = "this" /\ UpdateOccurrence(t, rec, d, day)
              \/ /\ scope = "upcoming"
                 /\ \E rule \in Rules \cup {NoRule} :
                       IF d <= rec.dt THEN UpdateSeries(t, rec, TRUE, day, rule)
                                      ELSE SplitSeries(t, rec, d, day, rule)
  BY DEF Update
<1>4. events[t].rec # 0 => rec.dt \in Nat
  BY <1>2, TemplateIs, RecFacts DEF Sound
<1> HIDE DEF t, d
<1>5. events[t].rec # 0 /\ ~(d <= rec.dt) => d > rec.dt /\ d # 0
  BY <1>2, <1>4
<1>6. UpdateOf(t, scope, d, day)
  <2>1. CASE events[t].rec = 0
    BY <1>2, <1>3, <2>1 DEF UpdateOf
  <2>2. CASE events[t].rec # 0 /\ scope # "upcoming"
    BY <1>2, <1>3, <2>2 DEF UpdateOf
  <2>3. CASE events[t].rec # 0 /\ scope = "upcoming" /\ d <= rec.dt
    BY <1>2, <1>3, <2>3 DEF UpdateOf
  <2>4. CASE events[t].rec # 0 /\ scope = "upcoming" /\ ~(d <= rec.dt)
    BY <1>2, <1>3, <1>5, <2>4 DEF UpdateOf
  <2> QED BY <2>1, <2>2, <2>3, <2>4
<1> QED BY <1>2, <1>6

LEMMA DeleteIs ==
    ASSUME Sound, NEW e \in DOMAIN events, NEW scope \in Scopes, NEW when \in Days,
           Delete(e, scope, when)
    PROVE  \E t \in DOMAIN events, d \in Nat : DeleteOf(t, scope, d)
<1> DEFINE t == Resolve(e, when).event
           d == Resolve(e, when).date
           rec == recs[events[t].rec]
<1>1. when \in Nat
  BY DEF Days
<1>2. t \in DOMAIN events /\ d \in Nat /\ ~IsCopy(t)
  BY <1>1, ResolveIs
<1>3. /\ Edit /\ Did("delete", t, scope, d, 0)
      /\ IF events[t].rec = 0
         THEN scope = "all" /\ DeletePlain(t)
         ELSE \/ scope = "this" /\ CancelOccurrence(t, rec, d)
              \/ scope = "all" /\ DeleteSeries(t)
              \/ /\ scope = "upcoming"
                 /\ IF d <= rec.dt THEN DeleteSeries(t) ELSE EndSeries(t, rec, d - 1)
  BY DEF Delete
<1>4. events[t].rec # 0 => rec.dt \in Nat
  BY <1>2, TemplateIs, RecFacts DEF Sound
<1> HIDE DEF t, d
<1>5. events[t].rec # 0 /\ ~(d <= rec.dt) => d > rec.dt /\ d - 1 \in Nat
  BY <1>2, <1>4
<1>6. DeleteOf(t, scope, d)
  <2>1. CASE events[t].rec = 0
    BY <1>2, <1>3, <2>1 DEF DeleteOf
  <2>2. CASE events[t].rec # 0 /\ scope # "upcoming"
    BY <1>2, <1>3, <2>2 DEF DeleteOf
  <2>3. CASE events[t].rec # 0 /\ scope = "upcoming" /\ d <= rec.dt
    BY <1>2, <1>3, <2>3 DEF DeleteOf
  <2>4. CASE events[t].rec # 0 /\ scope = "upcoming" /\ ~(d <= rec.dt)
    BY <1>2, <1>3, <1>5, <2>4 DEF DeleteOf
  <2> QED BY <2>1, <2>2, <2>3, <2>4
<1> QED BY <1>2, <1>6

LEMMA UpdateSound ==
    ASSUME Sound, NEW t \in DOMAIN events, NEW scope, NEW d \in Nat, NEW day \in Days,
           UpdateOf(t, scope, d, day)
    PROVE  Sound'
<1>1. CASE events[t].rec = 0 /\ UpdatePlain(t, day)
  BY <1>1, UpdatePlainSound DEF UpdateOf
<1>2. ASSUME events[t].rec # 0, NEW rule \in Rules,
             UpdateSeries(t, recs[events[t].rec], FALSE, day, rule)
      PROVE  Sound'
  BY <1>2, UpdateSeriesSound DEF UpdateOf
<1>3. CASE events[t].rec # 0 /\ UpdateOccurrence(t, recs[events[t].rec], d, day)
  BY <1>3, UpdateOccurrenceSound DEF UpdateOf
<1>4. ASSUME events[t].rec # 0, NEW rule \in Rules \cup {NoRule},
             UpdateSeries(t, recs[events[t].rec], TRUE, day, rule)
      PROVE  Sound'
  BY <1>4, UpdateSeriesSound DEF UpdateOf
<1>5. ASSUME events[t].rec # 0, d # 0, NEW rule \in Rules \cup {NoRule},
             SplitSeries(t, recs[events[t].rec], d, day, rule)
      PROVE  Sound'
  BY <1>5, SplitSeriesSound DEF UpdateOf
<1> QED BY <1>1, <1>2, <1>3, <1>4, <1>5 DEF UpdateOf

LEMMA DeleteSound ==
    ASSUME Sound, NEW t \in DOMAIN events, NEW scope, NEW d \in Nat, DeleteOf(t, scope, d)
    PROVE  Sound'
<1>1. CASE events[t].rec = 0 /\ DeletePlain(t)
  BY <1>1, DeletePlainSound DEF DeleteOf
<1>2. CASE events[t].rec # 0 /\ CancelOccurrence(t, recs[events[t].rec], d)
  BY <1>2, CancelOccurrenceSound DEF DeleteOf
<1>3. CASE events[t].rec # 0 /\ DeleteSeries(t)
  BY <1>3, DeleteSeriesSound DEF DeleteOf
<1>4. CASE events[t].rec # 0 /\ d - 1 \in Nat /\ EndSeries(t, recs[events[t].rec], d - 1)
  BY <1>4, EndSeriesSound DEF DeleteOf
<1> QED BY <1>1, <1>2, <1>3, <1>4 DEF DeleteOf

LEMMA SoundNext == Sound /\ [Next]_vars => Sound'
<1> SUFFICES ASSUME Sound, [Next]_vars PROVE Sound'
  OBVIOUS
<1>1. ASSUME NEW day \in Days, NEW rule \in Rules \cup {NoRule}, Create(day, rule) PROVE Sound'
  BY <1>1, CreateSound
<1>2. ASSUME NEW e \in DOMAIN events, NEW scope \in Scopes, NEW when \in Days, NEW day \in Days,
             Update(e, scope, when, day)
      PROVE  Sound'
  BY <1>2, UpdateIs, UpdateSound
<1>3. ASSUME NEW e \in DOMAIN events, NEW scope \in Scopes, NEW when \in Days, Delete(e, scope, when)
      PROVE  Sound'
  BY <1>3, DeleteIs, DeleteSound
<1>4. ASSUME NEW e \in DOMAIN events, NEW u \in Members, NEW shapes \in SUBSET Shapes,
             PutReminders(e, u, shapes)
      PROVE  Sound'
  BY <1>4, PutRemindersSound
<1>5. CASE Plan
  BY <1>5, PlanSound
<1>6. CASE UNCHANGED vars
  <2>1. UNCHANGED tables
    BY <1>6 DEF vars
  <2>2. TypeOK'
    BY <2>1 DEF Sound, TypeOK, tables
  <2>3. Shape'
    BY <2>1, SameShape DEF Sound, Shape, Anchored, tables
  <2> QED BY <2>2, <2>3 DEF Sound
<1> QED BY <1>1, <1>2, <1>3, <1>4, <1>5, <1>6 DEF Next

LEMMA AlwaysSound == Spec => []Sound
BY SoundInit, SoundNext, PTL DEF Spec

-----------------------------------------------------------------------------
(* What the reads rest on. *)

(* The tables hold rows of the right kind (events.go, edit.go: every edit  *)
(* is one transaction over the seven tables of the calendar).              *)
THEOREM TypeCorrect == Spec => []TypeOK
<1>1. Sound => TypeOK
  BY DEF Sound
<1> QED BY <1>1, AlwaysSound, PTL

(* Whatever edits are made in whatever order, a series keeps exactly one   *)
(* template, every reference finds its row and a copy stands for one       *)
(* occurrence: what OverrideRefByEventID takes for granted.                *)
THEOREM LinksHold == Spec => []Linked
BY ShapeIsLinked, AlwaysSound, PTL

(* The window a day's view reads loses no occurrence of that day, one      *)
(* moved in from elsewhere included, and adds none (EventsInRange,         *)
(* expandSeries).                                                          *)
THEOREM DaysShowTheCalendar == Spec => []DaysAgree
<1>1. Sound => DaysAgree
  <2> SUFFICES ASSUME Sound, NEW d \in Days
               PROVE  Occurrences(d, d) = {o \in Calendar : Overlaps(o, d, d)}
    BY DEF DaysAgree
  <2>1. d \in Nat /\ d <= Horizon
    BY Constants DEF Days
  <2> QED BY <2>1, WindowIs
<1> QED BY <1>1, AlwaysSound, PTL

(* A copy stands for the occurrence it was made of. *)
LEMMA ResolveCopy ==
    ASSUME Sound, NEW t \in DOMAIN events, events[t].rec # 0, NEW d \in Nat, NEW when,
           <<events[t].rec, d>> \in DOMAIN overrides,
           overrides[<<events[t].rec, d>>] # NoEvent
    PROVE  Resolve(overrides[<<events[t].rec, d>>], when) = [event |-> t, date |-> d]
<1> DEFINE k == <<events[t].rec, d>>
           e == overrides[k]
           ref == [event |-> t, date |-> d]
<1>1. k \in DOMAIN overrides /\ e # NoEvent /\ k[1] = events[t].rec /\ k[2] = d
  OBVIOUS
<1>2. \A x \in DOMAIN overrides : overrides[x] = e => x = k
  BY <1>1 DEF Sound, Shape, CopiesDistinct
<1>3. Templates(k[1]) = {t} /\ TemplateOf(k[1]) = t
  BY <1>1, TemplateIs
<1> HIDE DEF k
<1>4. {x \in DOMAIN overrides : overrides[x] = e /\ Templates(x[1]) # {}} = {k}
  BY <1>1, <1>2, <1>3
<1>5. StandsFor(e) = {[event |-> TemplateOf(x[1]), date |-> x[2]] : x \in {k}}
  BY <1>4 DEF StandsFor
<1>6. StandsFor(e) = {ref}
  BY <1>1, <1>3, <1>5
<1>7. \A other \in StandsFor(e) : ref.date <= other.date
  BY <1>6
<1> HIDE DEF e, ref
<1>8. Resolve(e, when) = ref
  BY <1>6, <1>7 DEF Resolve
<1> QED BY <1>8 DEF e, k, ref

(* A link opens the occurrence it was shown for. *)
LEMMA OpensSeries ==
    ASSUME Sound, NEW t \in DOMAIN events, events[t].rec # 0, NEW d \in Nat
    PROVE  /\ <<events[t].rec, d>> \in DOMAIN overrides =>
                 Occurrence(t, d) = {Edited(t, d, c) : c \in {overrides[<<events[t].rec, d>>]} \cap DOMAIN events}
           /\ <<events[t].rec, d>> \notin DOMAIN overrides /\ Occurs(recs[events[t].rec], d) =>
                 Occurrence(t, d) = {Shifted(t, d)}
<1>1. Resolve(t, d) = [event |-> t, date |-> d]
  BY TemplateIs, ResolveIs
<1>2. Occurs(recs[events[t].rec], d) => {d} \cap Expand(recs[events[t].rec], d, d) = {d}
  BY DEF Expand
<1> QED BY <1>1, <1>2 DEF Occurrence

LEMMA OpensAsShown ==
    ASSUME Sound, NEW o \in Calendar
    PROVE  /\ Occurrence(o.event, o.date) = {o}
           /\ o.series # NoEvent => Occurrence(o.series, o.date) = {o}
<1>1. CASE HasAlone(o)
  <2>1. PICK e \in DOMAIN events : events[e].rec = 0 /\ ~IsCopy(e) /\ o = Alone(e)
    BY <1>1 DEF HasAlone
  <2>2. o.event = e /\ o.series = NoEvent /\ o.date = events[e].day /\ events[e].day \in Nat
    BY <2>1, EventFacts DEF Alone, Occ, Sound
  <2>3. Resolve(e, events[e].day) = [event |-> e, date |-> events[e].day]
    BY <2>1, <2>2, ResolveIs
  <2>4. Occurrence(e, events[e].day) = {Alone(e)}
    BY <2>1, <2>3 DEF Occurrence
  <2> QED BY <2>1, <2>2, <2>4
<1>2. CASE HasShifted(o)
  <2>1. PICK t \in DOMAIN events, d \in 1 .. Horizon :
            /\ events[t].rec # 0 /\ Occurs(recs[events[t].rec], d)
            /\ <<events[t].rec, d>> \notin DOMAIN overrides
            /\ o = Shifted(t, d)
    BY <1>2 DEF HasShifted
  <2>2. o.event = t /\ o.series = t /\ o.date = d /\ d \in Nat
    BY <2>1, Constants DEF Shifted, Occ
  <2> QED BY <2>1, <2>2, OpensSeries
<1>3. CASE HasEdited(o)
  <2>1. PICK t \in DOMAIN events, d \in Nat :
            /\ events[t].rec # 0 /\ Occurs(recs[events[t].rec], d)
            /\ <<events[t].rec, d>> \in DOMAIN overrides
            /\ overrides[<<events[t].rec, d>>] # NoEvent
            /\ o = Edited(t, d, overrides[<<events[t].rec, d>>])
    BY <1>3 DEF HasEdited
  <2> DEFINE c == overrides[<<events[t].rec, d>>]
  <2>2. o.event = c /\ o.series = t /\ o.date = d
    BY <2>1 DEF Edited, Occ
  <2>3. c \in DOMAIN events
    BY <2>1 DEF Sound, Shape, ExceptionsOK
  <2>4. Occurrence(t, d) = {o}
    BY <2>1, <2>3, OpensSeries
  <2>5. Resolve(c, d) = [event |-> t, date |-> d]
    BY <2>1, ResolveCopy
  <2>6. Resolve(t, d) = [event |-> t, date |-> d]
    BY <2>1, TemplateIs, ResolveIs
  <2> HIDE DEF c
  <2>7. Occurrence(c, d) = Occurrence(t, d)
    BY <2>5, <2>6 DEF Occurrence
  <2> QED BY <2>2, <2>4, <2>7
<1> QED BY <1>1, <1>2, <1>3, CalendarHas

LEMMA LinkLeadsSomewhere ==
    ASSUME Sound, NEW r \in DOMAIN recs, NEW d \in Live(r)
    PROVE  Occurrence(TemplateOf(r), d) # {}
<1>1. PICK t \in DOMAIN events : events[t].rec = r
  BY DEF Sound, Shape, HasTemplate
<1>2. r # 0
  BY RecFacts DEF Sound
<1>3. TemplateOf(r) = t
  BY <1>1, <1>2, TemplateIs
<1>4. d \in Nat /\ Occurs(recs[r], d) /\ d \notin Struck(r)
  BY Constants DEF Live, Expand
<1>5. CASE <<r, d>> \in DOMAIN overrides
  <2> DEFINE k == <<r, d>>
  <2>1. k \in ExceptionsOf(r) /\ k[2] = d
    BY <1>5 DEF ExceptionsOf
  <2> HIDE DEF k
  <2>2. overrides[k] # NoEvent
    BY <1>4, <2>1 DEF Struck
  <2>3. overrides[k] \in DOMAIN events
    BY <2>1, <2>2 DEF ExceptionsOf, Sound, Shape, ExceptionsOK
  <2>4. Occurrence(t, d) = {Edited(t, d, c) : c \in {overrides[k]} \cap DOMAIN events}
    BY <1>1, <1>2, <1>4, <1>5, OpensSeries DEF k
  <2> QED BY <1>3, <2>3, <2>4
<1>6. CASE <<r, d>> \notin DOMAIN overrides
  BY <1>1, <1>2, <1>3, <1>4, <1>6, OpensSeries
<1> QED BY <1>5, <1>6

(* What is shown opens as shown, by the id of its row or of its series, and *)
(* so does the date a search links to (Service.Occurrence, resolveOverride, *)
(* handleSearch).                                                          *)
THEOREM LinksOpenWhatTheyShow == Spec => []LinksOpen
<1>1. Sound => LinksOpen
  <2> SUFFICES ASSUME Sound PROVE LinksOpen
    OBVIOUS
  <2>1. \A o \in Calendar : /\ Occurrence(o.event, o.date) = {o}
                            /\ o.series # NoEvent => Occurrence(o.series, o.date) = {o}
    BY OpensAsShown
  <2>2. \A r \in DOMAIN recs, today \in Days :
            \A d \in LinkDates(r, today) : Occurrence(TemplateOf(r), d) # {}
    <3> SUFFICES ASSUME NEW r \in DOMAIN recs, NEW today \in Days, NEW d \in LinkDates(r, today)
                 PROVE  Occurrence(TemplateOf(r), d) # {}
      OBVIOUS
    <3>1. d \in Live(r)
      BY DEF LinkDates
    <3> QED BY <3>1, LinkLeadsSomewhere
  <2> QED BY <2>1, <2>2 DEF LinksOpen
<1> QED BY <1>1, AlwaysSound, PTL

(* The editor shows the reminders that will fire: a template owns none, a  *)
(* copy that follows its series owns none either (RemindersDetached,       *)
(* handleGetEvent).                                                        *)
THEOREM EditorShowsWhatFires == Spec => []EditorIsRight
<1>1. Sound => EditorIsRight
  <2> SUFFICES ASSUME Sound, NEW o \in Calendar, NEW u \in Members
               PROVE  MyReminders(o, u) = Effective(o, u)
    BY DEF EditorIsRight
  <2>1. CASE o.series = NoEvent
    BY <2>1 DEF MyReminders, Effective
  <2>2. CASE o.series # NoEvent /\ o.event # o.series /\ Detached(o.event, u)
    BY <2>2 DEF MyReminders, Effective
  <2>3. CASE o.series # NoEvent /\ ~(o.event # o.series /\ Detached(o.event, u))
    <3>1. MyReminders(o, u) = Own("series", events[o.series].rec, u)
      BY <2>3 DEF MyReminders
    <3>2. Effective(o, u) = Own("event", o.event, u) \cup Own("series", events[o.series].rec, u)
      BY <2>3 DEF Effective
    <3>3. Own("event", o.event, u) = {}
      <4>1. CASE HasShifted(o)
        <5>1. o.event \in DOMAIN events /\ events[o.event].rec # 0
          BY <4>1 DEF HasShifted, Shifted, Occ
        <5>2. \A s : <<"event", o.event, u, s>> \notin DOMAIN reminders
          BY <5>1 DEF Sound, Shape, RemindersOK
        <5> QED BY <5>2 DEF Own
      <4>2. CASE HasEdited(o)
        <5>1. IsCopy(o.event) /\ o.event \in DOMAIN events /\ events[o.event].rec = 0
          BY <4>2 DEF HasEdited, Edited, Occ, IsCopy, Sound, Shape, ExceptionsOK
        <5>2. o.series \in DOMAIN events /\ events[o.series].rec # 0
          BY <4>2 DEF HasEdited, Edited, Occ
        <5>3. ~Detached(o.event, u)
          BY <2>3, <5>1, <5>2
        <5> QED BY <5>1, <5>3 DEF Detached
      <4>3. CASE HasAlone(o)
        BY <2>3, <4>3 DEF HasAlone, Alone, Occ
      <4> QED BY <4>1, <4>2, <4>3, CalendarHas
    <3> QED BY <3>1, <3>2, <3>3
  <2> QED BY <2>1, <2>2, <2>3
<1> QED BY <1>1, AlwaysSound, PTL

-----------------------------------------------------------------------------
(* What an edit leaves alone. First, when an occurrence is in the calendar, *)
(* said of the occurrence.                                                 *)
Key(o) == <<events[o.series].rec, o.date>>

StandsAlone(o) ==
    /\ events[o.event].rec = 0 /\ ~IsCopy(o.event)
    /\ o.date = events[o.event].day /\ o.day = events[o.event].day

StandsInSeries(o) ==
    /\ o.series \in DOMAIN events /\ events[o.series].rec # 0
    /\ o.date \in Nat /\ Occurs(recs[events[o.series].rec], o.date)
    /\ IF Key(o) \in DOMAIN overrides
       THEN o.event = overrides[Key(o)] /\ o.day = events[o.event].day
       ELSE o.event = o.series /\ o.day = o.date /\ o.date <= Horizon

Stands(o) ==
    /\ o = Occ(o.event, o.series, o.date, o.day) /\ o.event \in DOMAIN events
    /\ IF o.series = NoEvent THEN StandsAlone(o) ELSE StandsInSeries(o)

LEMMA StandsIs == Sound => \A o : o \in Calendar <=> Stands(o)
<1> SUFFICES ASSUME Sound, NEW o PROVE o \in Calendar <=> Stands(o)
  OBVIOUS
<1>1. HasAlone(o) => Stands(o)
  BY DEF HasAlone, Stands, StandsAlone, Alone, Occ
<1>2. ASSUME HasShifted(o) PROVE Stands(o)
  <2>1. PICK t \in DOMAIN events, d \in 1 .. Horizon :
            /\ events[t].rec # 0 /\ Occurs(recs[events[t].rec], d)
            /\ <<events[t].rec, d>> \notin DOMAIN overrides
            /\ o = Shifted(t, d)
    BY <1>2 DEF HasShifted
  <2>2. o.event = t /\ o.series = t /\ o.date = d /\ o.day = d
    BY <2>1 DEF Shifted, Occ
  <2>3. d \in Nat /\ d <= Horizon /\ t # NoEvent
    BY Constants, EventFacts DEF Sound, NoEvent
  <2> QED BY <2>1, <2>2, <2>3 DEF Stands, StandsInSeries, Key, Shifted
<1>3. ASSUME HasEdited(o) PROVE Stands(o)
  <2>1. PICK t \in DOMAIN events, d \in Nat :
            /\ events[t].rec # 0 /\ Occurs(recs[events[t].rec], d)
            /\ <<events[t].rec, d>> \in DOMAIN overrides
            /\ overrides[<<events[t].rec, d>>] # NoEvent
            /\ o = Edited(t, d, overrides[<<events[t].rec, d>>])
    BY <1>3 DEF HasEdited
  <2>2. /\ o.event = overrides[<<events[t].rec, d>>] /\ o.series = t /\ o.date = d
        /\ o.day = events[o.event].day /\ o = Occ(o.event, o.series, o.date, o.day)
    BY <2>1 DEF Edited, Occ
  <2>3. o.event \in DOMAIN events
    BY <2>1, <2>2 DEF Sound, Shape, ExceptionsOK
  <2>4. t # NoEvent
    BY EventFacts DEF Sound, NoEvent
  <2> QED BY <2>1, <2>2, <2>3, <2>4 DEF Stands, StandsInSeries, Key
<1>4. ASSUME Stands(o), o.series = NoEvent PROVE HasAlone(o)
  BY <1>4 DEF Stands, StandsAlone, HasAlone, Alone
<1>5. ASSUME Stands(o), o.series # NoEvent, Key(o) \notin DOMAIN overrides PROVE HasShifted(o)
  <2>1. /\ o.series \in DOMAIN events /\ events[o.series].rec # 0
        /\ o.date \in Nat /\ Occurs(recs[events[o.series].rec], o.date)
        /\ o.event = o.series /\ o.day = o.date /\ o.date <= Horizon
        /\ o = Shifted(o.series, o.date)
    BY <1>5 DEF Stands, StandsInSeries, Shifted
  <2>2. recs[events[o.series].rec].dt \in Nat /\ recs[events[o.series].rec].dt # 0
    BY <2>1, TemplateIs, RecFacts DEF Sound, Shape, Anchored
  <2>3. o.date \in 1 .. Horizon
    BY <2>1, <2>2, Constants DEF Occurs
  <2> QED BY <1>5, <2>1, <2>3 DEF HasShifted, Key
<1>6. ASSUME Stands(o), o.series # NoEvent, Key(o) \in DOMAIN overrides PROVE HasEdited(o)
  <2>1. /\ o.series \in DOMAIN events /\ events[o.series].rec # 0
        /\ o.date \in Nat /\ Occurs(recs[events[o.series].rec], o.date)
        /\ o.event = overrides[Key(o)] /\ o.event \in DOMAIN events
        /\ o = Edited(o.series, o.date, o.event)
    BY <1>6 DEF Stands, StandsInSeries, Edited
  <2>2. o.event # NoEvent
    BY <2>1, EventFacts DEF Sound, NoEvent
  <2> QED BY <1>6, <2>1, <2>2 DEF HasEdited, Key
<1> QED BY <1>1, <1>2, <1>3, <1>4, <1>5, <1>6, CalendarHas

LEMMA StandsIsNext == (Sound => \A o : o \in Calendar <=> Stands(o))'
BY StandsIs, PTL

(* The occurrences of the calendar but those of an event or a series on    *)
(* some dates.                                                             *)
Rest(t, dates) == {o \in Calendar : ~(Source(o) = t /\ o.date \in dates)}

(* An occurrence whose rows are as they were is where it was. *)
LEMMA Stays ==
    ASSUME Sound, Sound', NEW o \in Calendar,
           o.event \in DOMAIN events', events'[o.event] = events[o.event],
           o.series = NoEvent => \A k \in DOMAIN overrides' : overrides'[k] # o.event,
           o.series # NoEvent =>
              /\ o.series \in DOMAIN events' /\ events'[o.series].rec = events[o.series].rec
              /\ Occurs(recs'[events[o.series].rec], o.date)
              /\ Key(o) \in DOMAIN overrides' <=> Key(o) \in DOMAIN overrides
              /\ Key(o) \in DOMAIN overrides => overrides'[Key(o)] = overrides[Key(o)]
    PROVE  o \in Calendar'
<1>1. Stands(o)
  BY StandsIs
<1>2. CASE o.series = NoEvent
  <2>1. StandsAlone(o)'
    BY <1>1, <1>2 DEF Stands, StandsAlone, IsCopy
  <2>2. Stands(o)'
    BY <1>1, <1>2, <2>1 DEF Stands
  <2> QED BY <2>2, StandsIsNext
<1>3. CASE o.series # NoEvent
  <2>1. Key(o)' = Key(o)
    BY <1>3 DEF Key
  <2>2. StandsInSeries(o)'
    BY <1>1, <1>3, <2>1 DEF Stands, StandsInSeries
  <2>3. Stands(o)'
    BY <1>1, <1>3, <2>2 DEF Stands
  <2> QED BY <2>3, StandsIsNext
<1> QED BY <1>2, <1>3

LEMMA WasThere ==
    ASSUME Sound, Sound', NEW o \in Calendar',
           o.event \in DOMAIN events, events'[o.event] = events[o.event],
           o.series = NoEvent => ~IsCopy(o.event),
           o.series # NoEvent =>
              /\ o.series \in DOMAIN events /\ events'[o.series].rec = events[o.series].rec
              /\ Occurs(recs[events[o.series].rec], o.date)
              /\ Key(o) \in DOMAIN overrides' <=> Key(o) \in DOMAIN overrides
              /\ Key(o) \in DOMAIN overrides => overrides'[Key(o)] = overrides[Key(o)]
    PROVE  o \in Calendar
<1>1. Stands(o)'
  BY StandsIsNext
<1>2. CASE o.series = NoEvent
  <2>1. StandsAlone(o)
    BY <1>1, <1>2 DEF Stands, StandsAlone
  <2>2. Stands(o)
    BY <1>1, <1>2, <2>1 DEF Stands
  <2> QED BY <2>2, StandsIs
<1>3. CASE o.series # NoEvent
  <2>1. Key(o)' = Key(o)
    BY <1>3 DEF Key
  <2>2. StandsInSeries(o)
    BY <1>1, <1>3, <2>1 DEF Stands, StandsInSeries
  <2>3. Stands(o)
    BY <1>1, <1>3, <2>2 DEF Stands
  <2> QED BY <2>3, StandsIs
<1> QED BY <1>2, <1>3

(* A row that is nobody's copy is shown for itself or its own series only. *)
LEMMA EventIsSource ==
    ASSUME Sound, NEW o \in Calendar, ~IsCopy(o.event)
    PROVE  Source(o) = o.event
BY StandsIs DEF Stands, StandsInSeries, Source, IsCopy

(* Of an occurrence of a series: its template, its rule, its exception. *)
LEMMA InSeries ==
    ASSUME Sound, NEW o \in Calendar, o.series # NoEvent
    PROVE  /\ Source(o) = o.series /\ StandsInSeries(o)
           /\ o.event \in DOMAIN events /\ o.date \in Nat
           /\ o.series \in DOMAIN events /\ events[o.series].rec \in DOMAIN recs
           /\ events[o.series].rec # 0 /\ ~IsCopy(o.series)
           /\ recs[events[o.series].rec].dt <= o.date /\ o.date <= recs[events[o.series].rec].until
           /\ recs[events[o.series].rec].dt \in Nat /\ recs[events[o.series].rec].until \in Nat
           /\ Key(o)[1] = events[o.series].rec /\ Key(o)[2] = o.date
           /\ \A t \in DOMAIN events : events[t].rec = events[o.series].rec => t = o.series
<1>1. Stands(o)
  BY StandsIs
<1>2. o.series \in DOMAIN events /\ events[o.series].rec # 0
  BY <1>1 DEF Stands, StandsInSeries
<1>3. events[o.series].rec \in DOMAIN recs /\ ~IsCopy(o.series)
  BY <1>2, TemplateIs
<1>4. \A t \in DOMAIN events : events[t].rec = events[o.series].rec => t = o.series
  BY <1>2 DEF Sound, Shape, OneTemplate
<1>5. recs[events[o.series].rec].dt \in Nat /\ recs[events[o.series].rec].until \in Nat
  BY <1>3, RecFacts DEF Sound
<1> QED BY <1>1, <1>2, <1>3, <1>4, <1>5 DEF Stands, StandsInSeries, Occurs, Source, Key

LEMMA UpdatePlainKeeps ==
    ASSUME Sound, Sound', NEW t \in DOMAIN events, ~IsCopy(t), NEW day \in Days, UpdatePlain(t, day)
    PROVE  Rest(t, Nat) \subseteq Calendar'
<1> SUFFICES ASSUME NEW o \in Rest(t, Nat) PROVE o \in Calendar'
  OBVIOUS
<1>1. o \in Calendar /\ Source(o) # t /\ o.event \in DOMAIN events
  BY CalendarType DEF Rest
<1>2. o.event # t
  BY <1>1, EventIsSource
<1>3. day \in Nat
  BY DEF Days
<1>4. /\ DOMAIN events' = DOMAIN events
      /\ \A x \in DOMAIN events : events'[x].rec = events[x].rec
      /\ \A x \in DOMAIN events : x # t => events'[x] = events[x]
  BY <1>3, UpdateEventIs DEF UpdatePlain, Sound
<1>5. UNCHANGED <<recs, overrides>>
  BY DEF UpdatePlain
<1>6. CASE o.series = NoEvent
  <2>1. ~IsCopy(o.event)
    BY <1>1, <1>6, StandsIs DEF Stands, StandsAlone
  <2> QED BY <1>1, <1>2, <1>4, <1>5, <1>6, <2>1, Stays DEF IsCopy
<1>7. CASE o.series # NoEvent
  <2>1. o.series \in DOMAIN events /\ Occurs(recs[events[o.series].rec], o.date)
    BY <1>1, <1>7, InSeries DEF StandsInSeries
  <2> QED BY <1>1, <1>2, <1>4, <1>5, <1>7, <2>1, Stays
<1> QED BY <1>6, <1>7

LEMMA UpdateSeriesKeeps ==
    ASSUME Sound, Sound', NEW t \in DOMAIN events, events[t].rec # 0, NEW day \in Days,
           NEW rule \in Rules \cup {NoRule}, NEW followMove \in BOOLEAN,
           followMove \/ rule \in Rules,
           UpdateSeries(t, recs[events[t].rec], followMove, day, rule)
    PROVE  Rest(t, Nat) \subseteq Calendar'
<1> SUFFICES ASSUME NEW o \in Rest(t, Nat) PROVE o \in Calendar'
  OBVIOUS
<1>1. o \in Calendar /\ Source(o) # t /\ o.event \in DOMAIN events
  BY CalendarType DEF Rest
<1>2. o.event # t
  BY <1>1, EventIsSource, TemplateIs
<1>3. /\ DOMAIN events' = DOMAIN events
      /\ \A x \in DOMAIN events : events'[x].rec = events[x].rec
      /\ \A x \in DOMAIN events : x # t => events'[x] = events[x]
      /\ \A x \in DOMAIN recs : x # events[t].rec => recs'[x] = recs[x]
      /\ UNCHANGED overrides
  BY UpdateSeriesIs
<1>4. CASE o.series = NoEvent
  <2>1. ~IsCopy(o.event)
    BY <1>1, <1>4, StandsIs DEF Stands, StandsAlone
  <2> QED BY <1>1, <1>2, <1>3, <1>4, <2>1, Stays DEF IsCopy
<1>5. CASE o.series # NoEvent
  <2>1. /\ o.series \in DOMAIN events /\ Occurs(recs[events[o.series].rec], o.date)
        /\ events[o.series].rec \in DOMAIN recs /\ events[o.series].rec # events[t].rec
    BY <1>1, <1>5, InSeries DEF StandsInSeries
  <2> QED BY <1>1, <1>2, <1>3, <1>5, <2>1, Stays
<1> QED BY <1>4, <1>5

(* Of the occurrence an edit or a deletion of "this" is about, and of no   *)
(* other, the row may change.                                              *)
LEMMA OtherRow ==
    ASSUME Sound, NEW t \in DOMAIN events, events[t].rec # 0, NEW d \in Nat, NEW o \in Rest(t, {d}),
           NEW c, <<events[t].rec, d>> \in DOMAIN overrides, overrides[<<events[t].rec, d>>] = c,
           c # NoEvent
    PROVE  o.event # c
<1> DEFINE k == <<events[t].rec, d>>
<1> SUFFICES ASSUME o.event = c PROVE FALSE
  OBVIOUS
<1>1. o \in Calendar /\ ~(Source(o) = t /\ o.date = d) /\ Stands(o)
  BY StandsIs DEF Rest
<1>2. k \in DOMAIN overrides /\ overrides[k] = c /\ k[1] = events[t].rec /\ k[2] = d
  OBVIOUS
<1> HIDE DEF k
<1>3. IsCopy(o.event)
  BY <1>2 DEF IsCopy
<1>4. o.series # NoEvent
  BY <1>1, <1>3 DEF Stands, StandsAlone
<1>5. Key(o) \in DOMAIN overrides /\ overrides[Key(o)] = c
  BY <1>1, <1>3, <1>4, InSeries DEF StandsInSeries
<1>6. Key(o) = k
  BY <1>2, <1>5 DEF Sound, Shape, CopiesDistinct
<1>7. o.series = t /\ o.date = d
  BY <1>1, <1>2, <1>4, <1>6, InSeries
<1> QED BY <1>1, <1>4, <1>7, InSeries

LEMMA OtherKey ==
    ASSUME Sound, NEW t \in DOMAIN events, events[t].rec # 0, NEW d \in Nat, NEW o \in Rest(t, {d}),
           o.series # NoEvent
    PROVE  Key(o) # <<events[t].rec, d>>
<1> SUFFICES ASSUME Key(o) = <<events[t].rec, d>> PROVE FALSE
  OBVIOUS
<1>1. o \in Calendar /\ ~(Source(o) = t /\ o.date = d)
  BY DEF Rest
<1>2. Key(o)[1] = events[t].rec /\ Key(o)[2] = d
  OBVIOUS
<1>3. o.series = t /\ o.date = d /\ Source(o) = o.series
  BY <1>1, <1>2, InSeries
<1> QED BY <1>1, <1>3

LEMMA UpdateOccurrenceKeeps ==
    ASSUME Sound, Sound', NEW t \in DOMAIN events, events[t].rec # 0, NEW d \in Nat, NEW day \in Days,
           UpdateOccurrence(t, recs[events[t].rec], d, day)
    PROVE  Rest(t, {d}) \subseteq Calendar'
<1> SUFFICES ASSUME NEW o \in Rest(t, {d}) PROVE o \in Calendar'
  OBVIOUS
<1> DEFINE k == <<events[t].rec, d>>
<1>1. o \in Calendar /\ o.event \in DOMAIN events
  BY CalendarType DEF Rest
<1>2. PICK c \in DOMAIN events' :
          /\ DOMAIN events' = DOMAIN events \cup {c}
          /\ \A x \in DOMAIN events : events'[x].rec = events[x].rec
          /\ \A x \in DOMAIN events : x # c => events'[x] = events[x]
          /\ DOMAIN overrides' = DOMAIN overrides \cup {k}
          /\ overrides'[k] = c /\ c # 0 /\ c \in Nat
          /\ \A l \in DOMAIN overrides : l # k => overrides'[l] = overrides[l]
          /\ c \in DOMAIN events => k \in DOMAIN overrides /\ overrides[k] = c
  BY UpdateOccurrenceIs
<1>3. UNCHANGED recs
  BY UpdateOccurrenceIs
<1>4. o.event # c
  BY <1>1, <1>2, OtherRow DEF NoEvent
<1>5. o.series # NoEvent => Key(o) # k
  BY OtherKey
<1> HIDE DEF k
<1>6. CASE o.series = NoEvent
  <2>1. ~IsCopy(o.event)
    BY <1>1, <1>6, StandsIs DEF Stands, StandsAlone
  <2>2. \A l \in DOMAIN overrides' : overrides'[l] # o.event
    BY <1>2, <1>4, <2>1 DEF IsCopy
  <2> QED BY <1>1, <1>2, <1>4, <1>6, <2>2, Stays
<1>7. CASE o.series # NoEvent
  <2>1. o.series \in DOMAIN events /\ Occurs(recs[events[o.series].rec], o.date)
    BY <1>1, <1>7, InSeries DEF StandsInSeries
  <2>2. /\ Key(o) \in DOMAIN overrides' <=> Key(o) \in DOMAIN overrides
        /\ Key(o) \in DOMAIN overrides => overrides'[Key(o)] = overrides[Key(o)]
    BY <1>2, <1>5, <1>7
  <2> QED BY <1>1, <1>2, <1>3, <1>4, <1>7, <2>1, <2>2, Stays
<1> QED BY <1>6, <1>7

LEMMA SplitSeriesKeeps ==
    ASSUME Sound, Sound', NEW t \in DOMAIN events, events[t].rec # 0, NEW at \in Nat, at # 0,
           NEW day \in Days, NEW rule \in Rules \cup {NoRule},
           SplitSeries(t, recs[events[t].rec], at, day, rule)
    PROVE  Rest(t, {x \in Nat : x >= at}) \subseteq Calendar'
<1> SUFFICES ASSUME NEW o \in Rest(t, {x \in Nat : x >= at}) PROVE o \in Calendar'
  OBVIOUS
<1> DEFINE r   == events[t].rec
           new == SecondHalf(recs[r], at, day, rule)
<1>1. /\ o \in Calendar /\ o.event \in DOMAIN events
      /\ o.date \in Nat /\ (Source(o) = t => o.date < at)
  BY CalendarType DEF Rest
<1>2. PICK e, n : SplitInto(t, at, day, new, e, n)
  BY SplitSeriesIs
<1> HIDE DEF new
<1>3. /\ n \notin DOMAIN recs
      /\ recs'[r].dt = recs[r].dt /\ recs'[r].on = recs[r].on
      /\ \A d \in Nat : d <= recs'[r].until <=> (d <= recs[r].until /\ d <= at - 1)
      /\ \A x \in DOMAIN recs : x # r => recs'[x] = recs[x]
      /\ DOMAIN events' = DOMAIN events \cup {e}
      /\ \A x \in DOMAIN events : events'[x] = events[x]
      /\ OverridesSplit(r, n, at, new)
  BY <1>2 DEF SplitInto
<1>4. CASE o.series = NoEvent
  <2>1. ~IsCopy(o.event)
    BY <1>1, <1>4, StandsIs DEF Stands, StandsAlone
  <2>2. \A k \in DOMAIN overrides' : \E l \in DOMAIN overrides : overrides'[k] = overrides[l]
    BY <1>3 DEF OverridesSplit
  <2>3. \A k \in DOMAIN overrides' : overrides'[k] # o.event
    BY <2>1, <2>2 DEF IsCopy
  <2> QED BY <1>1, <1>3, <1>4, <2>3, Stays
<1>5. CASE o.series # NoEvent
  <2> DEFINE s == events[o.series].rec
  <2>1. /\ o.series \in DOMAIN events /\ Occurs(recs[s], o.date)
        /\ s \in DOMAIN recs /\ Key(o)[1] = s /\ Key(o)[2] = o.date
        /\ (s = r => o.series = t) /\ Source(o) = o.series
    BY <1>1, <1>5, InSeries DEF StandsInSeries
  <2>2. s = r => o.date < at
    BY <1>1, <2>1
  <2> HIDE DEF s, r
  <2>3. Occurs(recs'[s], o.date)
    <3>1. CASE s = r
      <4>1. o.date <= recs[r].until /\ o.date <= at - 1
        BY <1>1, <2>1, <2>2, <3>1 DEF Occurs
      <4>2. o.date <= recs'[r].until
        BY <1>1, <1>3, <4>1
      <4> QED BY <1>3, <2>1, <3>1, <4>2 DEF Occurs, On
    <3>2. CASE s # r
      BY <1>3, <2>1, <3>2
    <3> QED BY <3>1, <3>2
  <2>4. Key(o)[1] # n /\ (Key(o)[1] # r \/ Key(o)[2] < at)
    BY <1>3, <2>1, <2>2
  <2>5. Key(o) \in DOMAIN overrides => Key(o) \in DOMAIN overrides'
    BY <1>3, <2>4 DEF OverridesSplit
  <2>6. Key(o) \in DOMAIN overrides' =>
            Key(o) \in DOMAIN overrides /\ overrides'[Key(o)] = overrides[Key(o)]
    BY <1>3, <2>4 DEF OverridesSplit
  <2> QED BY <1>1, <1>3, <1>5, <2>1, <2>3, <2>5, <2>6, Stays DEF s
<1> QED BY <1>4, <1>5

(* A deletion removes the occurrences it is about and nothing else.        *)
LEMMA EndSeriesKeeps ==
    ASSUME Sound, Sound', NEW t \in DOMAIN events, events[t].rec # 0, NEW at \in Nat,
           EndSeries(t, recs[events[t].rec], at)
    PROVE  Calendar' = Rest(t, {x \in Nat : x > at})
<1> DEFINE r == events[t].rec
<1>1. /\ recs'[r].dt = recs[r].dt /\ recs'[r].on = recs[r].on
      /\ \A d \in Nat : d <= recs'[r].until <=> (d <= recs[r].until /\ d <= at)
      /\ \A x \in DOMAIN recs : x # r => recs'[x] = recs[x]
      /\ events' = events /\ overrides' = overrides
  BY EndSeriesIs
<1> HIDE DEF r
<1>2. \A d \in Nat : Occurs(recs'[r], d) <=> (Occurs(recs[r], d) /\ d <= at)
  BY <1>1 DEF Occurs, On
<1>3. ASSUME NEW o \in Rest(t, {x \in Nat : x > at}) PROVE o \in Calendar'
  <2>1. /\ o \in Calendar /\ o.event \in DOMAIN events
        /\ o.date \in Nat /\ (Source(o) = t => o.date <= at)
    BY CalendarType DEF Rest
  <2>2. CASE o.series = NoEvent
    <3>1. ~IsCopy(o.event)
      BY <2>1, <2>2, StandsIs DEF Stands, StandsAlone
    <3> QED BY <1>1, <2>1, <2>2, <3>1, Stays DEF IsCopy
  <2>3. CASE o.series # NoEvent
    <3> DEFINE s == events[o.series].rec
    <3>1. /\ o.series \in DOMAIN events /\ Occurs(recs[s], o.date) /\ s \in DOMAIN recs
          /\ (s = r => o.series = t) /\ Source(o) = o.series
      BY <2>1, <2>3, InSeries DEF StandsInSeries, r
    <3> HIDE DEF s
    <3>2. Occurs(recs'[s], o.date)
      BY <1>1, <1>2, <2>1, <3>1
    <3> QED BY <1>1, <2>1, <2>3, <3>1, <3>2, Stays DEF s
  <2> QED BY <2>2, <2>3
<1>4. ASSUME NEW o \in Calendar' PROVE o \in Rest(t, {x \in Nat : x > at})
  <2>1. Stands(o)'
    BY <1>4, StandsIsNext
  <2>2. CASE o.series = NoEvent
    <3>1. o.event \in DOMAIN events /\ ~IsCopy(o.event)
      BY <1>1, <2>1, <2>2 DEF Stands, StandsAlone, IsCopy
    <3>2. o \in Calendar
      BY <1>1, <1>4, <2>2, <3>1, WasThere
    <3>3. events[o.event].rec = 0 /\ Source(o) = o.event
      BY <2>2, <3>1, <3>2, StandsIs DEF Stands, StandsAlone, Source
    <3> QED BY <3>2, <3>3 DEF Rest
  <2>3. CASE o.series # NoEvent
    <3> DEFINE s == events[o.series].rec
    <3>1. /\ o.series \in DOMAIN events /\ Occurs(recs'[s], o.date) /\ s # 0
          /\ o.date \in Nat /\ o.event \in DOMAIN events
      BY <1>1, <2>1, <2>3 DEF Stands, StandsInSeries
    <3>2. s \in DOMAIN recs
      BY <3>1, TemplateIs
    <3> HIDE DEF s
    <3>3. Occurs(recs[s], o.date) /\ (s = r => o.date <= at)
      BY <1>1, <1>2, <3>1, <3>2
    <3>4. o \in Calendar
      BY <1>1, <1>4, <2>3, <3>1, <3>3, WasThere DEF s
    <3>5. Source(o) = t => o.date <= at
      BY <2>3, <3>3, <3>4, InSeries DEF r, s
    <3> QED BY <3>1, <3>4, <3>5 DEF Rest
  <2> QED BY <2>2, <2>3
<1> QED BY <1>3, <1>4

(* The rows of a deletion: some events go, with all the exceptions that    *)
(* name them; the others are as they were.                                 *)
LEMMA DeletionKeeps ==
    ASSUME Sound, Sound', NEW gone, WithoutEvents(gone), NEW o,
           o.event \notin gone, o.series \notin gone,
           o.series # NoEvent => recs'[events[o.series].rec] = recs[events[o.series].rec],
           o.series # NoEvent => (Key(o) \in DOMAIN overrides' <=> Key(o) \in DOMAIN overrides),
           o.series # NoEvent /\ Key(o) \in DOMAIN overrides => overrides'[Key(o)] = overrides[Key(o)],
           o.series = NoEvent /\ o \in Calendar => \A k \in DOMAIN overrides' : overrides'[k] # o.event,
           o.series = NoEvent /\ o \in Calendar' => ~IsCopy(o.event)
    PROVE  o \in Calendar' <=> o \in Calendar
<1>1. /\ DOMAIN events' = DOMAIN events \ gone
      /\ \A x \in DOMAIN events' : events'[x] = events[x]
  BY WithoutEventsIs
<1>2. ASSUME o \in Calendar PROVE o \in Calendar'
  <2>1. o.event \in DOMAIN events' /\ events'[o.event] = events[o.event]
    BY <1>1, <1>2, CalendarType
  <2>2. CASE o.series = NoEvent
    BY <1>2, <2>1, <2>2, Stays
  <2>3. CASE o.series # NoEvent
    <3>1. o.series \in DOMAIN events /\ Occurs(recs[events[o.series].rec], o.date)
      BY <1>2, <2>3, InSeries DEF StandsInSeries
    <3> QED BY <1>1, <1>2, <2>1, <2>3, <3>1, Stays
  <2> QED BY <2>2, <2>3
<1>3. ASSUME o \in Calendar' PROVE o \in Calendar
  <2>1. Stands(o)'
    BY <1>3, StandsIsNext
  <2>2. o.event \in DOMAIN events /\ events'[o.event] = events[o.event]
    BY <1>1, <2>1 DEF Stands
  <2>3. CASE o.series = NoEvent
    BY <1>3, <2>2, <2>3, WasThere
  <2>4. CASE o.series # NoEvent
    <3>1. o.series \in DOMAIN events' /\ Occurs(recs'[events'[o.series].rec], o.date)
      BY <2>1, <2>4 DEF Stands, StandsInSeries
    <3>2. o.series \in DOMAIN events /\ events'[o.series] = events[o.series]
      BY <1>1, <3>1
    <3> QED BY <1>3, <2>2, <2>4, <3>1, <3>2, WasThere
  <2> QED BY <2>3, <2>4
<1> QED BY <1>2, <1>3

LEMMA DeletePlainKeeps ==
    ASSUME Sound, Sound', NEW t \in DOMAIN events, ~IsCopy(t), events[t].rec = 0, DeletePlain(t)
    PROVE  Calendar' = Rest(t, Nat)
<1> DEFINE gone == {t}
<1>1. WithoutEvents(gone) /\ recs' = recs
  BY DEF DeletePlain
<1>2. overrides' = overrides
  <2>1. {k \in DOMAIN overrides : overrides[k] \in {t}} = {}
    BY DEF IsCopy
  <2>2. overrides = [k \in DOMAIN overrides |-> overrides[k]]
    BY DEF Sound, TypeOK
  <2>3. overrides' = Without(overrides, {})
    BY <2>1 DEF DeletePlain, OverridesWithout
  <2> QED BY <2>2, <2>3 DEF Without
<1>3. DOMAIN events' = DOMAIN events \ gone
  BY <1>1, WithoutEventsIs
<1>4. t # NoEvent
  BY EventFacts DEF Sound, NoEvent
<1>5. \A x : x \in gone <=> x = t
  OBVIOUS
<1> HIDE DEF gone
<1>6. ASSUME NEW o, o.event # t, o.series # t PROVE o \in Calendar' <=> o \in Calendar
  <2>1. o.series = NoEvent /\ o \in Calendar => \A k \in DOMAIN overrides' : overrides'[k] # o.event
    BY <1>2, StandsIs DEF Stands, StandsAlone, IsCopy
  <2>2. o.series = NoEvent /\ o \in Calendar' => ~IsCopy(o.event)
    BY <1>2, StandsIsNext DEF Stands, StandsAlone, IsCopy
  <2> QED BY <1>1, <1>2, <1>5, <1>6, <2>1, <2>2, DeletionKeeps
<1>7. ASSUME NEW o \in Calendar' PROVE o \in Rest(t, Nat)
  <2>1. o.event # t /\ o.series # t
    <3>1. Stands(o)'
      BY StandsIsNext
    <3> QED BY <1>3, <1>4, <1>5, <3>1 DEF Stands, StandsInSeries
  <2> QED BY <1>6, <2>1 DEF Rest, Source
<1>8. ASSUME NEW o \in Rest(t, Nat) PROVE o \in Calendar'
  <2>1. o \in Calendar /\ Source(o) # t
    BY CalendarType DEF Rest
  <2>2. o.event # t
    BY <2>1, EventIsSource
  <2>3. o.series # t
    BY <1>4, <2>1 DEF Source
  <2> QED BY <1>6, <2>1, <2>2, <2>3
<1> QED BY <1>7, <1>8

LEMMA CancelOccurrenceKeeps ==
    ASSUME Sound, Sound', NEW t \in DOMAIN events, events[t].rec # 0, NEW d \in Nat,
           CancelOccurrence(t, recs[events[t].rec], d)
    PROVE  Calendar' = Rest(t, {d})
<1> DEFINE k == <<events[t].rec, d>>
<1>1. PICK gone \in SUBSET DOMAIN events :
          /\ WithoutEvents(gone)
          /\ \A c \in gone : /\ events[c].rec = 0
                             /\ k \in DOMAIN overrides /\ overrides[k] = c
          /\ \A c \in DOMAIN events : k \in DOMAIN overrides /\ overrides[k] = c => c \in gone
  <2> PICK gone \in SUBSET DOMAIN events :
          /\ WithoutEvents(gone) /\ reminders' = RemindersWithout(gone, 0)
          /\ \A c \in gone : /\ events[c].rec = 0 /\ IsCopy(c)
                             /\ <<events[t].rec, d>> \in DOMAIN overrides
                             /\ overrides[<<events[t].rec, d>>] = c
          /\ \A c \in DOMAIN events :
                <<events[t].rec, d>> \in DOMAIN overrides /\ overrides[<<events[t].rec, d>>] = c
                   => c \in gone
    BY CancelOccurrenceIs
  <2> QED OBVIOUS
<1>2. /\ recs' = recs /\ DOMAIN overrides' = DOMAIN overrides \cup {k} /\ overrides'[k] = NoEvent
      /\ \A l \in DOMAIN overrides : l # k => overrides'[l] = overrides[l]
  BY CancelOccurrenceIs
<1>3. /\ DOMAIN events' = DOMAIN events \ gone
      /\ \A x \in DOMAIN events' : events'[x] = events[x]
  BY <1>1, WithoutEventsIs
<1>4. ASSUME NEW o, o.event \notin gone, o.series \notin gone, o.series # NoEvent => Key(o) # k,
             o.event \in DOMAIN events
      PROVE  o \in Calendar' <=> o \in Calendar
  <2> HIDE DEF k
  <2>1. o.series # NoEvent => (Key(o) \in DOMAIN overrides' <=> Key(o) \in DOMAIN overrides)
    BY <1>2, <1>4
  <2>2. o.series # NoEvent /\ Key(o) \in DOMAIN overrides => overrides'[Key(o)] = overrides[Key(o)]
    BY <1>2, <1>4
  <2>3. o.series = NoEvent /\ o \in Calendar => \A l \in DOMAIN overrides' : overrides'[l] # o.event
    <3> SUFFICES ASSUME o.series = NoEvent, o \in Calendar, NEW l \in DOMAIN overrides'
                 PROVE  overrides'[l] # o.event
      OBVIOUS
    <3>1. ~IsCopy(o.event) /\ o.event \in DOMAIN events
      BY StandsIs DEF Stands, StandsAlone
    <3>2. o.event # NoEvent
      BY <3>1, EventFacts DEF Sound, NoEvent
    <3> QED BY <1>2, <3>1, <3>2 DEF IsCopy
  <2>4. o.series = NoEvent /\ o \in Calendar' => ~IsCopy(o.event)
    <3> SUFFICES ASSUME o.series = NoEvent, o \in Calendar', NEW l \in DOMAIN overrides,
                        overrides[l] = o.event
                 PROVE  FALSE
      BY DEF IsCopy
    <3>1. StandsAlone(o)'
      BY StandsIsNext DEF Stands
    <3>2. l # k
      BY <1>1, <1>4
    <3>3. l \in DOMAIN overrides' /\ overrides'[l] = o.event
      BY <1>2, <3>2
    <3> QED BY <3>1, <3>3 DEF StandsAlone, IsCopy
  <2> QED BY <1>1, <1>2, <1>4, <2>1, <2>2, <2>3, <2>4, DeletionKeeps
<1>5. ASSUME NEW o \in Calendar' PROVE o \in Rest(t, {d})
  <2>1. Stands(o)'
    BY StandsIsNext
  <2>2. o.event \in DOMAIN events /\ o.event \notin gone
    BY <1>3, <2>1 DEF Stands
  <2>3. o.series # NoEvent => /\ o.series \in DOMAIN events /\ o.series \notin gone
                              /\ events'[o.series] = events[o.series]
    BY <1>3, <2>1 DEF Stands, StandsInSeries
  <2>4. NoEvent \notin gone
    BY <1>1, EventFacts DEF Sound, NoEvent
  <2>5. o.series # NoEvent => Key(o) # k
    <3> SUFFICES ASSUME o.series # NoEvent, Key(o) = k PROVE FALSE
      OBVIOUS
    <3>1. StandsInSeries(o)' /\ Key(o)' = k
      BY <2>1, <2>3 DEF Stands, Key
    <3> HIDE DEF k
    <3>2. o.event = NoEvent
      BY <1>2, <3>1 DEF StandsInSeries
    <3> QED BY <2>2, <3>2, EventFacts DEF Sound, NoEvent
  <2>6. o \in Calendar
    BY <1>4, <2>2, <2>3, <2>4, <2>5
  <2>7. Source(o) = t /\ o.date = d => Key(o) = k /\ o.series # NoEvent
    BY <2>6, StandsIs DEF Stands, StandsAlone, Source, Key
  <2> QED BY <2>5, <2>6, <2>7 DEF Rest
<1>6. ASSUME NEW o \in Rest(t, {d}) PROVE o \in Calendar'
  <2>1. o \in Calendar /\ o.event \in DOMAIN events
    BY CalendarType DEF Rest
  <2>2. o.event \notin gone
    <3> SUFFICES ASSUME o.event \in gone PROVE FALSE
      OBVIOUS
    <3>1. k \in DOMAIN overrides /\ overrides[k] = o.event
      BY <1>1
    <3>2. o.event # NoEvent
      BY <2>1, EventFacts DEF Sound, NoEvent
    <3> QED BY <3>1, <3>2, OtherRow
  <2>3. o.series \notin gone
    <3>1. NoEvent \notin gone
      BY <1>1, EventFacts DEF Sound, NoEvent
    <3>2. o.series # NoEvent => events[o.series].rec # 0
      BY <2>1, InSeries
    <3> QED BY <1>1, <3>1, <3>2
  <2>4. o.series # NoEvent => Key(o) # k
    BY OtherKey
  <2> QED BY <1>4, <2>1, <2>2, <2>3, <2>4
<1> QED BY <1>5, <1>6

LEMMA DeleteSeriesKeeps ==
    ASSUME Sound, Sound', NEW t \in DOMAIN events, events[t].rec # 0, DeleteSeries(t)
    PROVE  Calendar' = Rest(t, Nat)
<1> DEFINE r == events[t].rec
           gone == CopiesOf(r) \cup {t}
<1>1. /\ WithoutEvents(gone) /\ recs' = Without(recs, {r})
      /\ overrides' = Without(overrides, ExceptionsOf(r))
  BY DEF DeleteSeries
<1>2. /\ DOMAIN events' = DOMAIN events \ gone
      /\ \A x \in DOMAIN events' : events'[x] = events[x]
  BY <1>1, WithoutEventsIs
<1>3. t # NoEvent /\ ~IsCopy(t)
  BY EventFacts, TemplateIs DEF Sound, NoEvent
<1>4. \A c : c \in CopiesOf(r) <=> (c # NoEvent /\ \E k \in DOMAIN overrides : k[1] = r /\ overrides[k] = c)
  BY DEF CopiesOf, ExceptionsOf
<1>5. \A c : c \in gone <=> (c = t \/ c \in CopiesOf(r))
  OBVIOUS
<1>6. \A s \in DOMAIN events : events[s].rec = r <=> s = t
  BY DEF Sound, Shape, OneTemplate
<1> HIDE DEF gone
<1>7. /\ \A k \in DOMAIN overrides : k[1] # r => k \in DOMAIN overrides'
      /\ \A k \in DOMAIN overrides' : k \in DOMAIN overrides /\ k[1] # r /\ overrides'[k] = overrides[k]
  BY <1>1 DEF Without, ExceptionsOf
<1>8. \A x \in DOMAIN recs : x # r => recs'[x] = recs[x]
  BY <1>1 DEF Without
<1> HIDE DEF r
<1>9. ASSUME NEW o, o.event \notin gone, o.series \notin gone, o.event \in DOMAIN events,
             o.series # NoEvent => events[o.series].rec \in DOMAIN recs /\ events[o.series].rec # r
      PROVE  o \in Calendar' <=> o \in Calendar
  <2>1. o.series # NoEvent => Key(o)[1] # r
    BY <1>9 DEF Key
  <2>2. o.series # NoEvent => (Key(o) \in DOMAIN overrides' <=> Key(o) \in DOMAIN overrides)
    BY <1>7, <2>1
  <2>3. o.series # NoEvent /\ Key(o) \in DOMAIN overrides => overrides'[Key(o)] = overrides[Key(o)]
    BY <1>7, <2>1
  <2>4. o.series = NoEvent /\ o \in Calendar => \A l \in DOMAIN overrides' : overrides'[l] # o.event
    BY <1>7, StandsIs DEF Stands, StandsAlone, IsCopy
  <2>5. o.series = NoEvent /\ o \in Calendar' => ~IsCopy(o.event)
    <3> SUFFICES ASSUME o.series = NoEvent, o \in Calendar', NEW l \in DOMAIN overrides,
                        overrides[l] = o.event
                 PROVE  FALSE
      BY DEF IsCopy
    <3>1. StandsAlone(o)'
      BY StandsIsNext DEF Stands
    <3>2. o.event # NoEvent
      BY <1>9, EventFacts DEF Sound, NoEvent
    <3>3. l[1] # r
      BY <1>4, <1>5, <1>9, <3>2
    <3>4. l \in DOMAIN overrides' /\ overrides'[l] = o.event
      BY <1>7, <3>3
    <3> QED BY <3>1, <3>4 DEF StandsAlone, IsCopy
  <2>6. o.series # NoEvent => recs'[events[o.series].rec] = recs[events[o.series].rec]
    BY <1>8, <1>9
  <2> QED BY <1>1, <1>9, <2>2, <2>3, <2>4, <2>5, <2>6, DeletionKeeps
<1>10. NoEvent \notin gone
  BY <1>3, <1>4, <1>5
<1>11. ASSUME NEW o \in Calendar' PROVE o \in Rest(t, Nat)
  <2>1. Stands(o)'
    BY StandsIsNext
  <2>2. o.event \in DOMAIN events /\ o.event \notin gone /\ o.event # t
    BY <1>2, <1>5, <2>1 DEF Stands
  <2>3. o.series # NoEvent => /\ o.series \in DOMAIN events /\ o.series \notin gone
                              /\ o.series # t /\ events[o.series].rec # 0
    BY <1>2, <1>5, <2>1 DEF Stands, StandsInSeries
  <2>4. o.series # NoEvent => events[o.series].rec \in DOMAIN recs /\ events[o.series].rec # r
    BY <1>6, <2>3, TemplateIs
  <2>5. o \in Calendar
    BY <1>9, <1>10, <2>2, <2>3, <2>4
  <2> QED BY <2>2, <2>3, <2>5 DEF Rest, Source
<1>12. ASSUME NEW o \in Rest(t, Nat) PROVE o \in Calendar'
  <2>1. o \in Calendar /\ Source(o) # t /\ o.event \in DOMAIN events
    BY CalendarType DEF Rest
  <2>2. o.event # t
    BY <1>3, <2>1, EventIsSource
  <2>3. o.series # t /\ (o.series # NoEvent => events[o.series].rec # r)
    BY <1>3, <1>6, <2>1, InSeries DEF Source
  <2>4. o.event \notin CopiesOf(r)
    <3> SUFFICES ASSUME NEW k \in DOMAIN overrides, k[1] = r, overrides[k] = o.event PROVE FALSE
      BY <1>4
    <3>1. IsCopy(o.event)
      BY DEF IsCopy
    <3>2. o.series # NoEvent
      BY <2>1, <3>1, StandsIs DEF Stands, StandsAlone
    <3>3. Key(o) \in DOMAIN overrides /\ overrides[Key(o)] = o.event
      BY <2>1, <3>1, <3>2, InSeries DEF StandsInSeries
    <3>4. o.event # NoEvent
      BY <2>1, EventFacts DEF Sound, NoEvent
    <3>5. Key(o) = k
      BY <3>3, <3>4 DEF Sound, Shape, CopiesDistinct
    <3> QED BY <2>1, <2>3, <3>2, <3>5, InSeries
  <2>5. o.series \notin CopiesOf(r)
    <3>1. o.series # NoEvent => ~IsCopy(o.series)
      BY <2>1, InSeries
    <3> QED BY <1>4, <3>1 DEF IsCopy
  <2>6. o.series # NoEvent => events[o.series].rec \in DOMAIN recs
    BY <2>1, InSeries
  <2> QED BY <1>5, <1>9, <2>1, <2>2, <2>3, <2>4, <2>5, <2>6
<1> QED BY <1>11, <1>12

LEMMA CreateKeeps ==
    ASSUME Sound, Sound', NEW day \in Days, NEW rule \in Rules \cup {NoRule}, Create(day, rule)
    PROVE  Calendar \subseteq Calendar'
<1> SUFFICES ASSUME NEW o \in Calendar PROVE o \in Calendar'
  OBVIOUS
<1>1. /\ DOMAIN events \subseteq DOMAIN events'
      /\ \A x \in DOMAIN events : events'[x] = events[x]
      /\ \A x \in DOMAIN recs : recs'[x] = recs[x]
      /\ overrides' = overrides
  BY CreateIs
<1>2. o.event \in DOMAIN events
  BY CalendarType
<1>3. CASE o.series = NoEvent
  <2>1. ~IsCopy(o.event)
    BY <1>3, StandsIs DEF Stands, StandsAlone
  <2> QED BY <1>1, <1>2, <1>3, <2>1, Stays DEF IsCopy
<1>4. CASE o.series # NoEvent
  <2>1. /\ o.series \in DOMAIN events /\ Occurs(recs[events[o.series].rec], o.date)
        /\ events[o.series].rec \in DOMAIN recs
    BY <1>4, InSeries DEF StandsInSeries
  <2> QED BY <1>1, <1>2, <1>4, <2>1, Stays
<1> QED BY <1>3, <1>4

LEMMA SameCalendar ==
    ASSUME UNCHANGED <<events, recs, overrides>>
    PROVE  Calendar' = Calendar
BY DEF Calendar, Alone, Shifted, Edited, Occ, IsCopy, Expand, Occurs, On, ExceptionsOf

-----------------------------------------------------------------------------
(* The occurrences an edit of a scope is about, and the effect of the edit. *)

Dates(scope, d) == {x \in Nat : \/ scope = "all"
                                \/ scope = "this" /\ x = d
                                \/ scope = "upcoming" /\ x >= d}

LEMMA SelectedIs ==
    ASSUME Sound, NEW t \in DOMAIN events, ~IsCopy(t), NEW scope, NEW d,
           events[t].rec = 0 => scope = "all"
    PROVE  Calendar \ Selected(t, scope, d) = Rest(t, Dates(scope, d))
<1> SUFFICES ASSUME NEW o \in Calendar
             PROVE  o \in Selected(t, scope, d) <=> (Source(o) = t /\ o.date \in Dates(scope, d))
  BY DEF Rest, Selected
<1>1. t # NoEvent /\ o.date \in Nat
  BY EventFacts, CalendarType DEF Sound, NoEvent
<1>2. (o.event = t \/ o.series = t) <=> Source(o) = t
  BY <1>1, EventIsSource DEF Source
<1>3. Source(o) = t /\ o.series = NoEvent => events[t].rec = 0
  BY StandsIs DEF Stands, StandsAlone, Source
<1> QED BY <1>1, <1>2, <1>3 DEF Selected, Dates

LEMMA UpdateKeeps ==
    ASSUME Sound, Sound', NEW t \in DOMAIN events, NEW scope, NEW d \in Nat, NEW day \in Days,
           UpdateOf(t, scope, d, day)
    PROVE  /\ Rest(t, Dates(scope, d)) \subseteq Calendar'
           /\ \A q \in queued' : q \in queued /\ ~(q.event = t /\ q.date \in Dates(scope, d))
<1>1. CASE events[t].rec = 0 /\ scope = "all" /\ UpdatePlain(t, day)
  <2>1. Dates(scope, d) = Nat
    BY <1>1 DEF Dates
  <2>2. Rest(t, Nat) \subseteq Calendar'
    BY <1>1, UpdatePlainKeeps DEF UpdateOf
  <2> QED BY <1>1, <2>1, <2>2 DEF UpdatePlain, PruneEvent
<1>2. ASSUME events[t].rec # 0, NEW rule \in Rules \cup {NoRule}, NEW followMove \in BOOLEAN,
             followMove \/ rule \in Rules,
             UpdateSeries(t, recs[events[t].rec], followMove, day, rule)
      PROVE  /\ Rest(t, Nat) \subseteq Calendar'
             /\ \A q \in queued' : q \in queued /\ q.event # t
  BY <1>2, UpdateSeriesKeeps, UpdateSeriesIs DEF PruneEvent
<1>3. CASE events[t].rec # 0 /\ scope = "this" /\ UpdateOccurrence(t, recs[events[t].rec], d, day)
  <2>1. Dates(scope, d) = {d}
    BY <1>3 DEF Dates
  <2>2. Rest(t, {d}) \subseteq Calendar'
    BY <1>3, UpdateOccurrenceKeeps
  <2>3. queued' = PruneOccurrence(t, d)
    BY <1>3, UpdateOccurrenceIs
  <2> QED BY <2>1, <2>2, <2>3 DEF PruneOccurrence
<1>4. CASE events[t].rec # 0 /\ scope = "all"
           /\ \E rule \in Rules : UpdateSeries(t, recs[events[t].rec], FALSE, day, rule)
  <2>1. Dates(scope, d) = Nat
    BY <1>4 DEF Dates
  <2> QED BY <1>2, <1>4, <2>1
<1>5. CASE /\ events[t].rec # 0 /\ scope = "upcoming" /\ d <= recs[events[t].rec].dt
           /\ \E rule \in Rules \cup {NoRule} : UpdateSeries(t, recs[events[t].rec], TRUE, day, rule)
  <2>1. /\ Rest(t, Nat) \subseteq Calendar'
        /\ \A q \in queued' : q \in queued /\ q.event # t
    BY <1>2, <1>5
  <2>2. \A o \in Calendar : Source(o) = t => o.date \in Dates(scope, d)
    <3> SUFFICES ASSUME NEW o \in Calendar, Source(o) = t PROVE o.date \in Dates(scope, d)
      OBVIOUS
    <3>1. o.series # NoEvent
      BY <1>5, StandsIs DEF Stands, StandsAlone, Source
    <3>2. /\ o.date \in Nat /\ recs[events[t].rec].dt <= o.date
          /\ recs[events[t].rec].dt \in Nat
      BY <3>1, InSeries
    <3>3. o.date >= d
      BY <1>5, <3>2
    <3> QED BY <1>5, <3>2, <3>3 DEF Dates
  <2>3. Rest(t, Dates(scope, d)) \subseteq Rest(t, Nat)
    BY <2>2 DEF Rest
  <2> QED BY <2>1, <2>3
<1>6. CASE /\ events[t].rec # 0 /\ scope = "upcoming" /\ d > recs[events[t].rec].dt /\ d # 0
           /\ \E rule \in Rules \cup {NoRule} : SplitSeries(t, recs[events[t].rec], d, day, rule)
  <2>1. PICK rule \in Rules \cup {NoRule} : SplitSeries(t, recs[events[t].rec], d, day, rule)
    BY <1>6
  <2>2. Dates(scope, d) = {x \in Nat : x >= d}
    BY <1>6 DEF Dates
  <2>3. Rest(t, {x \in Nat : x >= d}) \subseteq Calendar'
    BY <1>6, <2>1, SplitSeriesKeeps
  <2>4. PICK e, n : SplitInto(t, d, day, SecondHalf(recs[events[t].rec], d, day, rule), e, n)
    BY <1>6, <2>1, SplitSeriesIs
  <2>5. queued' = {q \in queued : q.event \notin {t, e}}
    BY <2>4 DEF SplitInto
  <2> QED BY <2>2, <2>3, <2>5
<1> QED BY <1>1, <1>3, <1>4, <1>5, <1>6 DEF UpdateOf

LEMMA DeleteKeeps ==
    ASSUME Sound, Sound', NEW t \in DOMAIN events, NEW scope, NEW d \in Nat, DeleteOf(t, scope, d)
    PROVE  /\ Calendar' = Rest(t, Dates(scope, d))
           /\ \A q \in queued' : q \in queued /\ ~(q.event = t /\ q.date \in Dates(scope, d))
<1>1. CASE events[t].rec = 0 /\ scope = "all" /\ DeletePlain(t)
  <2>1. Dates(scope, d) = Nat
    BY <1>1 DEF Dates
  <2>2. Calendar' = Rest(t, Nat)
    BY <1>1, DeletePlainKeeps DEF DeleteOf
  <2> QED BY <1>1, <2>1, <2>2 DEF DeletePlain, PruneEvent
<1>2. CASE events[t].rec # 0 /\ scope = "this" /\ CancelOccurrence(t, recs[events[t].rec], d)
  <2>1. Dates(scope, d) = {d}
    BY <1>2 DEF Dates
  <2>2. Calendar' = Rest(t, {d})
    BY <1>2, CancelOccurrenceKeeps
  <2>3. queued' = PruneOccurrence(t, d)
    BY <1>2, CancelOccurrenceIs
  <2> QED BY <2>1, <2>2, <2>3 DEF PruneOccurrence
<1>3. ASSUME events[t].rec # 0, DeleteSeries(t)
      PROVE  /\ Calendar' = Rest(t, Nat)
             /\ \A q \in queued' : q \in queued /\ q.event # t
  <2>1. queued' = PruneEvent(t)
    BY <1>3 DEF DeleteSeries
  <2> QED BY <1>3, <2>1, DeleteSeriesKeeps DEF PruneEvent
<1>4. CASE events[t].rec # 0 /\ scope = "all" /\ DeleteSeries(t)
  <2>1. Dates(scope, d) = Nat
    BY <1>4 DEF Dates
  <2> QED BY <1>3, <1>4, <2>1
<1>5. CASE /\ events[t].rec # 0 /\ scope = "upcoming" /\ d <= recs[events[t].rec].dt
           /\ DeleteSeries(t)
  <2>1. \A o \in Calendar : Source(o) = t => o.date \in Dates(scope, d)
    <3> SUFFICES ASSUME NEW o \in Calendar, Source(o) = t PROVE o.date \in Dates(scope, d)
      OBVIOUS
    <3>1. o.series # NoEvent
      BY <1>5, StandsIs DEF Stands, StandsAlone, Source
    <3>2. /\ o.date \in Nat /\ recs[events[t].rec].dt <= o.date
          /\ recs[events[t].rec].dt \in Nat
      BY <3>1, InSeries
    <3>3. o.date >= d
      BY <1>5, <3>2
    <3> QED BY <1>5, <3>2, <3>3 DEF Dates
  <2>2. \A o \in Calendar : o.date \in Nat
    BY CalendarType
  <2>3. Rest(t, Dates(scope, d)) = Rest(t, Nat)
    BY <2>1, <2>2 DEF Rest
  <2> QED BY <1>3, <1>5, <2>3
<1>6. CASE /\ events[t].rec # 0 /\ scope = "upcoming" /\ d > recs[events[t].rec].dt /\ d - 1 \in Nat
           /\ EndSeries(t, recs[events[t].rec], d - 1)
  <2>1. Dates(scope, d) = {x \in Nat : x > d - 1}
    BY <1>6 DEF Dates
  <2>2. Calendar' = Rest(t, {x \in Nat : x > d - 1})
    BY <1>6, EndSeriesKeeps
  <2>3. queued' = PruneEvent(t)
    BY <1>6, EndSeriesIs
  <2> QED BY <2>1, <2>2, <2>3 DEF PruneEvent
<1> QED BY <1>1, <1>2, <1>4, <1>5, <1>6 DEF DeleteOf

ScopedStep ==
    LET about == Selected(did'.event, did'.scope, did'.date)
    IN  /\ did'.op = "delete" => Calendar' = Calendar \ about
        /\ did'.op = "update" => Calendar \ about \subseteq Calendar'

(* A deletion removes the occurrences it is about and does nothing else; an *)
(* update leaves the ones it is not about where they are (edit.go).        *)
THEOREM EditsStayInScope == Spec => EditsAreScoped
<1>1. ASSUME Sound, Sound', [Next]_vars
      PROVE  [ScopedStep]_vars
  <2>1. ASSUME NEW day \in Days, NEW rule \in Rules \cup {NoRule}, Create(day, rule) PROVE ScopedStep
    <3>1. did'.op = "create"
      BY <2>1 DEF Create, Did
    <3> QED BY <3>1 DEF ScopedStep
  <2>2. ASSUME NEW e \in DOMAIN events, NEW scope \in Scopes, NEW when \in Days, NEW day \in Days,
               Update(e, scope, when, day)
        PROVE  ScopedStep
    <3>1. PICK t \in DOMAIN events, d \in Nat : UpdateOf(t, scope, d, day)
      BY <1>1, <2>2, UpdateIs
    <3>2. /\ did'.op = "update" /\ did'.event = t /\ did'.scope = scope /\ did'.date = d
          /\ ~IsCopy(t) /\ (events[t].rec = 0 => scope = "all")
      BY <3>1 DEF UpdateOf, Did
    <3>3. Calendar \ Selected(t, scope, d) = Rest(t, Dates(scope, d))
      BY <1>1, <3>2, SelectedIs
    <3>4. Rest(t, Dates(scope, d)) \subseteq Calendar'
      BY <1>1, <3>1, UpdateKeeps
    <3> QED BY <3>2, <3>3, <3>4 DEF ScopedStep
  <2>3. ASSUME NEW e \in DOMAIN events, NEW scope \in Scopes, NEW when \in Days, Delete(e, scope, when)
        PROVE  ScopedStep
    <3>1. PICK t \in DOMAIN events, d \in Nat : DeleteOf(t, scope, d)
      BY <1>1, <2>3, DeleteIs
    <3>2. /\ did'.op = "delete" /\ did'.event = t /\ did'.scope = scope /\ did'.date = d
          /\ ~IsCopy(t) /\ (events[t].rec = 0 => scope = "all")
      BY <3>1 DEF DeleteOf, Did
    <3>3. Calendar \ Selected(t, scope, d) = Rest(t, Dates(scope, d))
      BY <1>1, <3>2, SelectedIs
    <3>4. Calendar' = Rest(t, Dates(scope, d))
      BY <1>1, <3>1, DeleteKeeps
    <3> QED BY <3>2, <3>3, <3>4 DEF ScopedStep
  <2>4. ASSUME NEW e \in DOMAIN events, NEW u \in Members, NEW shapes \in SUBSET Shapes,
               PutReminders(e, u, shapes)
        PROVE  ScopedStep
    <3>1. did'.op = "remind"
      BY <2>4 DEF PutReminders
    <3> QED BY <3>1 DEF ScopedStep
  <2>5. ASSUME Plan PROVE ScopedStep
    <3>1. did'.op = "plan"
      BY <2>5 DEF Plan, Did
    <3> QED BY <3>1 DEF ScopedStep
  <2> QED BY <1>1, <2>1, <2>2, <2>3, <2>4, <2>5 DEF Next
<1>2. [ScopedStep]_vars <=> [LET about == Selected(did'.event, did'.scope, did'.date)
                             IN  /\ did'.op = "delete" => Calendar' = Calendar \ about
                                 /\ did'.op = "update" => Calendar \ about \subseteq Calendar']_vars
  BY DEF ScopedStep
<1> QED BY <1>1, <1>2, AlwaysSound, PTL DEF Spec, EditsAreScoped

(* What waits is about an occurrence that stays, or it goes. *)
LEMMA StillCurrent ==
    ASSUME QueuedIsCurrent, NEW t, NEW dates, Rest(t, dates) \subseteq Calendar',
           \A q \in queued' : q \in queued /\ ~(q.event = t /\ q.date \in dates)
    PROVE  QueuedIsCurrent'
<1> SUFFICES ASSUME NEW q \in queued' PROVE q \in {Ref(o) : o \in Calendar'}
  BY DEF QueuedIsCurrent
<1>1. PICK o \in Calendar : q = Ref(o)
  BY DEF QueuedIsCurrent
<1>2. q.event = Source(o) /\ q.date = o.date
  BY <1>1 DEF Ref
<1>3. o \in Rest(t, dates)
  BY <1>2 DEF Rest
<1> QED BY <1>1, <1>3

LEMMA CurrentNext == Sound /\ Sound' /\ QueuedIsCurrent /\ [Next]_vars => QueuedIsCurrent'
<1> SUFFICES ASSUME Sound, Sound', QueuedIsCurrent, [Next]_vars PROVE QueuedIsCurrent'
  OBVIOUS
<1>1. ASSUME NEW day \in Days, NEW rule \in Rules \cup {NoRule}, Create(day, rule)
      PROVE  QueuedIsCurrent'
  <2>1. Calendar \subseteq Calendar' /\ queued' = queued
    BY <1>1, CreateKeeps, CreateIs
  <2> QED BY <2>1 DEF QueuedIsCurrent
<1>2. ASSUME NEW e \in DOMAIN events, NEW scope \in Scopes, NEW when \in Days, NEW day \in Days,
             Update(e, scope, when, day)
      PROVE  QueuedIsCurrent'
  <2>1. PICK t \in DOMAIN events, d \in Nat : UpdateOf(t, scope, d, day)
    BY <1>2, UpdateIs
  <2> QED BY <2>1, UpdateKeeps, StillCurrent
<1>3. ASSUME NEW e \in DOMAIN events, NEW scope \in Scopes, NEW when \in Days, Delete(e, scope, when)
      PROVE  QueuedIsCurrent'
  <2>1. PICK t \in DOMAIN events, d \in Nat : DeleteOf(t, scope, d)
    BY <1>3, DeleteIs
  <2> QED BY <2>1, DeleteKeeps, StillCurrent
<1>4. ASSUME NEW e \in DOMAIN events, NEW u \in Members, NEW shapes \in SUBSET Shapes,
             PutReminders(e, u, shapes)
      PROVE  QueuedIsCurrent'
  <2>1. UNCHANGED <<events, recs, overrides, queued>>
    BY <1>4 DEF PutReminders
  <2> QED BY <2>1, SameCalendar DEF QueuedIsCurrent
<1>5. CASE Plan
  <2>1. UNCHANGED <<events, recs, overrides>> /\ queued' \subseteq {Ref(o) : o \in Calendar}
    BY <1>5, PlanIs
  <2> QED BY <2>1, SameCalendar DEF QueuedIsCurrent
<1>6. CASE UNCHANGED vars
  <2>1. UNCHANGED <<events, recs, overrides, queued>>
    BY <1>6 DEF vars, tables
  <2> QED BY <2>1, SameCalendar DEF QueuedIsCurrent
<1> QED BY <1>1, <1>2, <1>3, <1>4, <1>5, <1>6 DEF Next

(* No edit leaves a reminder waiting for the time an occurrence used to    *)
(* have (pruneQueued, of an event or of one occurrence).                   *)
THEOREM QueuedStaysCurrent == Spec => []QueuedIsCurrent
<1>1. Init => QueuedIsCurrent
  BY DEF Init, QueuedIsCurrent
<1> QED BY <1>1, CurrentNext, AlwaysSound, PTL DEF Spec

-----------------------------------------------------------------------------
(* What is struck out stays out. *)
LEMMA ShiftedIsPlain ==
    ASSUME Sound', NEW t, NEW d, t # NoEvent, Shifted(t, d) \in Calendar'
    PROVE  /\ t \in DOMAIN events' /\ Occurs(recs'[events'[t].rec], d) /\ d \in Nat
           /\ <<events'[t].rec, d>> \notin DOMAIN overrides'
<1> DEFINE o == Shifted(t, d)
<1>1. o.event = t /\ o.series = t /\ o.date = d
  BY DEF Shifted, Occ
<1>2. Stands(o)'
  BY StandsIsNext
<1> HIDE DEF o
<1>3. StandsInSeries(o)' /\ Key(o)' = <<events'[t].rec, d>>
  BY <1>1, <1>2 DEF Stands, Key
<1>4. t \in DOMAIN events' /\ events'[t].rec # 0 /\ Occurs(recs'[events'[t].rec], d) /\ d \in Nat
  BY <1>1, <1>3 DEF StandsInSeries
<1>5. Key(o)' \notin DOMAIN overrides'
  <2> SUFFICES ASSUME Key(o)' \in DOMAIN overrides' PROVE FALSE
    OBVIOUS
  <2>1. overrides'[Key(o)'] = t
    BY <1>1, <1>3 DEF StandsInSeries
  <2> QED BY <1>4, <2>1 DEF Sound, Shape, ExceptionsOK, NoEvent
<1> QED BY <1>3, <1>4, <1>5

LEMMA StruckIs ==
    ASSUME Sound, NEW r, NEW d \in Struck(r)
    PROVE  /\ <<r, d>> \in DOMAIN overrides /\ d \in Nat
           /\ <<r, d>>[1] = r /\ <<r, d>>[2] = d
<1>1. PICK k \in DOMAIN overrides : k[1] = r /\ k[2] = d
  BY DEF Struck, ExceptionsOf
<1> QED BY <1>1, OverrideFacts DEF Sound

StruckStep ==
    did'.op = "update" =>
       \A t \in DOMAIN events \cap DOMAIN events' :
          events[t].rec # 0 =>
             LET now == Calendar' IN
             \A d \in Struck(events[t].rec) :
                /\ Shifted(t, d) \notin now
                /\ t = did'.event /\ d >= did'.date =>
                      \A h \in Halves(t) : Shifted(h, d) \notin now

(* Where no exception goes and no series comes, nothing struck comes back. *)
LEMMA NothingComesBack ==
    ASSUME Sound, Sound', DOMAIN overrides \subseteq DOMAIN overrides',
           \A x \in DOMAIN events \cap DOMAIN events' : events'[x].rec = events[x].rec,
           \A x \in DOMAIN events' : x \notin DOMAIN events => events'[x].rec = 0
    PROVE  StruckStep
<1>1. ASSUME NEW t \in DOMAIN events \cap DOMAIN events', NEW d \in Struck(events[t].rec)
      PROVE  Shifted(t, d) \notin Calendar'
  <2>1. <<events'[t].rec, d>> \in DOMAIN overrides'
    BY <1>1, StruckIs
  <2>2. t # NoEvent
    BY EventFacts DEF Sound, NoEvent
  <2> QED BY <2>1, <2>2, ShiftedIsPlain
<1>2. \A t : Halves(t) = {t}
  BY DEF Halves
<1> QED BY <1>1, <1>2 DEF StruckStep

LEMMA SplitBringsNothingBack ==
    ASSUME Sound, Sound', NEW t \in DOMAIN events, events[t].rec # 0, NEW at \in Nat, at # 0,
           NEW day \in Days, NEW rule \in Rules \cup {NoRule},
           SplitSeries(t, recs[events[t].rec], at, day, rule),
           did'.event = t, did'.date = at
    PROVE  StruckStep
<1> DEFINE r   == events[t].rec
           new == SecondHalf(recs[r], at, day, rule)
<1>1. PICK e, n : SplitInto(t, at, day, new, e, n)
  BY SplitSeriesIs
<1> HIDE DEF new
<1>2. /\ n \notin DOMAIN recs /\ recs'[n] = new
      /\ \A d \in Nat : d <= recs'[r].until <=> (d <= recs[r].until /\ d <= at - 1)
      /\ DOMAIN events' = DOMAIN events \cup {e} /\ e # 0
      /\ events'[e].rec = n
      /\ \A x \in DOMAIN events : events'[x] = events[x]
      /\ OverridesSplit(r, n, at, new)
  BY <1>1 DEF SplitInto
<1>3. r \in DOMAIN recs
  BY TemplateIs
<1> HIDE DEF r
<1>4. ASSUME NEW d \in Struck(r), d >= at, Occurs(new, d)
      PROVE  <<n, d>> \in DOMAIN overrides'
  <2> DEFINE k == <<r, d>>
  <2>1. k \in DOMAIN overrides /\ k[1] = r /\ k[2] = d /\ d \in Nat
    BY StruckIs
  <2> HIDE DEF k
  <2>2. ~(k[1] # r \/ k[2] < at)
    BY <1>4, <2>1
  <2> QED BY <1>2, <1>4, <2>1, <2>2 DEF OverridesSplit
<1>5. ASSUME NEW x \in DOMAIN events, NEW d \in Struck(events[x].rec), events[x].rec # r \/ d < at
      PROVE  <<events[x].rec, d>> \in DOMAIN overrides'
  <2> DEFINE k == <<events[x].rec, d>>
  <2>1. k \in DOMAIN overrides /\ k[1] = events[x].rec /\ k[2] = d
    BY StruckIs
  <2> HIDE DEF k
  <2>2. k \in DOMAIN overrides'
    BY <1>2, <1>5, <2>1 DEF OverridesSplit
  <2> QED BY <2>2 DEF k
<1>6. ASSUME NEW x \in DOMAIN events, NEW d \in Struck(events[x].rec)
      PROVE  Shifted(x, d) \notin Calendar'
  <2> SUFFICES ASSUME Shifted(x, d) \in Calendar' PROVE FALSE
    OBVIOUS
  <2>1. x # NoEvent
    BY EventFacts DEF Sound, NoEvent
  <2>2. /\ Occurs(recs'[events'[x].rec], d) /\ d \in Nat
        /\ <<events'[x].rec, d>> \notin DOMAIN overrides'
    BY <2>1, ShiftedIsPlain
  <2>3. events[x].rec = r /\ ~(d < at)
    BY <1>2, <1>5, <2>2
  <2>4. d <= recs'[r].until
    BY <1>2, <2>2, <2>3 DEF Occurs
  <2>5. d <= at - 1
    BY <1>2, <2>2, <2>4
  <2> QED BY <2>2, <2>3, <2>5
<1>7. ASSUME NEW d \in Struck(r), d >= at PROVE Shifted(e, d) \notin Calendar'
  <2> SUFFICES ASSUME Shifted(e, d) \in Calendar' PROVE FALSE
    OBVIOUS
  <2>1. Occurs(recs'[n], d) /\ <<n, d>> \notin DOMAIN overrides'
    BY <1>2, ShiftedIsPlain DEF NoEvent
  <2> QED BY <1>2, <1>4, <1>7, <2>1
<1>8. \A h \in Halves(t) : h = t \/ h = e
  BY <1>2 DEF Halves
<1> QED BY <1>6, <1>7, <1>8 DEF StruckStep, r

(* What the family struck out of a series stays out when the series is      *)
(* edited, cut or split, in both halves (RepointOverrides).                *)
THEOREM StruckOutStaysOut == Spec => StruckStaysStruck
<1>1. ASSUME Sound, Sound', [Next]_vars
      PROVE  [StruckStep]_vars
  <2>1. ASSUME NEW day \in Days, NEW rule \in Rules \cup {NoRule}, Create(day, rule) PROVE StruckStep
    <3>1. did'.op = "create"
      BY <2>1 DEF Create, Did
    <3> QED BY <3>1 DEF StruckStep
  <2>2. ASSUME NEW e \in DOMAIN events, NEW scope \in Scopes, NEW when \in Days, NEW day \in Days,
               Update(e, scope, when, day)
        PROVE  StruckStep
    <3>1. PICK t \in DOMAIN events, d \in Nat : UpdateOf(t, scope, d, day)
      BY <1>1, <2>2, UpdateIs
    <3>2. did'.event = t /\ did'.date = d
      BY <3>1 DEF UpdateOf, Did
    <3>3. CASE UpdatePlain(t, day)
      <4>1. day \in Nat
        BY DEF Days
      <4>2. /\ DOMAIN events' = DOMAIN events /\ UNCHANGED overrides
            /\ \A x \in DOMAIN events : events'[x].rec = events[x].rec
        BY <1>1, <3>3, <4>1, UpdateEventIs DEF UpdatePlain, Sound
      <4> QED BY <1>1, <4>2, NothingComesBack
    <3>4. ASSUME events[t].rec # 0, NEW rule \in Rules \cup {NoRule}, NEW followMove \in BOOLEAN,
                 followMove \/ rule \in Rules,
                 UpdateSeries(t, recs[events[t].rec], followMove, day, rule)
          PROVE  StruckStep
      <4>1. /\ DOMAIN events' = DOMAIN events /\ UNCHANGED overrides
            /\ \A x \in DOMAIN events : events'[x].rec = events[x].rec
        BY <1>1, <3>4, UpdateSeriesIs
      <4> QED BY <1>1, <4>1, NothingComesBack
    <3>5. CASE events[t].rec # 0 /\ UpdateOccurrence(t, recs[events[t].rec], d, day)
      <4>1. /\ DOMAIN overrides \subseteq DOMAIN overrides'
            /\ \A x \in DOMAIN events \cap DOMAIN events' : events'[x].rec = events[x].rec
            /\ \A x \in DOMAIN events' : x \notin DOMAIN events => events'[x].rec = 0
        <5>1. PICK c \in DOMAIN events' :
                  /\ DOMAIN events' = DOMAIN events \cup {c} /\ events'[c].rec = 0
                  /\ \A x \in DOMAIN events : events'[x].rec = events[x].rec
                  /\ DOMAIN overrides' = DOMAIN overrides \cup {<<events[t].rec, d>>}
          BY <1>1, <3>5, UpdateOccurrenceIs
        <5> QED BY <5>1
      <4> QED BY <1>1, <4>1, NothingComesBack
    <3>6. ASSUME events[t].rec # 0, d # 0, NEW rule \in Rules \cup {NoRule},
                 SplitSeries(t, recs[events[t].rec], d, day, rule)
          PROVE  StruckStep
      BY <1>1, <3>2, <3>6, SplitBringsNothingBack
    <3> QED BY <3>1, <3>3, <3>4, <3>5, <3>6 DEF UpdateOf
  <2>3. ASSUME NEW e \in DOMAIN events, NEW scope \in Scopes, NEW when \in Days, Delete(e, scope, when)
        PROVE  StruckStep
    <3>1. did'.op = "delete"
      BY <2>3 DEF Delete, Did
    <3> QED BY <3>1 DEF StruckStep
  <2>4. ASSUME NEW e \in DOMAIN events, NEW u \in Members, NEW shapes \in SUBSET Shapes,
               PutReminders(e, u, shapes)
        PROVE  StruckStep
    <3>1. did'.op = "remind"
      BY <2>4 DEF PutReminders
    <3> QED BY <3>1 DEF StruckStep
  <2>5. ASSUME Plan PROVE StruckStep
    <3>1. did'.op = "plan"
      BY <2>5 DEF Plan, Did
    <3> QED BY <3>1 DEF StruckStep
  <2> QED BY <1>1, <2>1, <2>2, <2>3, <2>4, <2>5 DEF Next
<1>2. StruckStaysStruck <=> [][StruckStep]_vars
  BY DEF StruckStaysStruck, StruckStep
<1> QED BY <1>1, <1>2, AlwaysSound, PTL DEF Spec

-----------------------------------------------------------------------------
(* Reminders. *)

(* A template has no list of its own, and neither has an unknown row. *)
LEMMA OwnsNothing ==
    ASSUME Sound, NEW e, NEW u, e \notin DOMAIN events \/ events[e].rec # 0
    PROVE  Own("event", e, u) = {}
<1>1. \A s : <<"event", e, u, s>> \notin DOMAIN reminders
  BY DEF Sound, Shape, RemindersOK
<1> QED BY <1>1 DEF Own

LEMMA OwnsNothingNext ==
    ASSUME Sound', NEW e, NEW u, e \notin DOMAIN events' \/ events'[e].rec # 0
    PROVE  Own("event", e, u)' = {}
<1>1. \A s : <<"event", e, u, s>> \notin DOMAIN reminders'
  BY DEF Sound, Shape, RemindersOK
<1> QED BY <1>1 DEF Own

(* The list of a member in a table of reminders. *)
OwnIn(table, scope, id, u) == {s \in Shapes : <<scope, id, u, s>> \in DOMAIN table}

(* Of a saved list: the list of the row is the list asked for, and no      *)
(* other list changes.                                                     *)
LEMMA SavedIs ==
    ASSUME Sound, NEW scope, NEW id, NEW u, NEW shapes \in SUBSET Shapes,
           ReplaceReminders(scope, id, u, shapes)
    PROVE  /\ OwnIn(reminders', scope, id, u) = shapes
           /\ \A w, i, v : <<w, i, v>> # <<scope, id, u>> =>
                              OwnIn(reminders', w, i, v) = OwnIn(reminders, w, i, v)
<1>1. /\ \A k \in DOMAIN reminders' : k \in DOMAIN reminders \/ \E s \in shapes : k = <<scope, id, u, s>>
      /\ \A k \in DOMAIN reminders :
            k \in DOMAIN reminders' \/ (k[1] = scope /\ k[2] = id /\ k[3] = u /\ k[4] \notin shapes)
      /\ \A s : <<scope, id, u, s>> \in DOMAIN reminders' <=> s \in shapes
  BY ReplaceRemindersIs
<1>2. OwnIn(reminders', scope, id, u) = shapes
  BY <1>1 DEF OwnIn
<1>3. ASSUME NEW w, NEW i, NEW v, <<w, i, v>> # <<scope, id, u>>
      PROVE  OwnIn(reminders', w, i, v) = OwnIn(reminders, w, i, v)
  <2>1. \A s : <<w, i, v, s>> \in DOMAIN reminders' <=> <<w, i, v, s>> \in DOMAIN reminders
    <3> SUFFICES ASSUME NEW s
                 PROVE  <<w, i, v, s>> \in DOMAIN reminders' <=> <<w, i, v, s>> \in DOMAIN reminders
      OBVIOUS
    <3> DEFINE k == <<w, i, v, s>>
    <3>1. k[1] = w /\ k[2] = i /\ k[3] = v
      OBVIOUS
    <3>2. ~(k[1] = scope /\ k[2] = id /\ k[3] = u)
      BY <1>3, <3>1
    <3>3. \A z : k # <<scope, id, u, z>>
      BY <1>3
    <3> HIDE DEF k
    <3>4. k \in DOMAIN reminders' <=> k \in DOMAIN reminders
      BY <1>1, <3>2, <3>3
    <3> QED BY <3>4 DEF k
  <2> QED BY <2>1 DEF OwnIn
<1> QED BY <1>2, <1>3

(* What an occurrence inherits: one that stands alone, nothing; that of a  *)
(* template, all it has.                                                   *)
LEMMA EffectiveIs ==
    ASSUME Sound, NEW o \in Calendar, NEW u
    PROVE  Effective(o, u) =
             IF o.series = NoEvent THEN OwnIn(reminders, "event", o.event, u)
             ELSE IF o.event = o.series THEN OwnIn(reminders, "series", events[o.series].rec, u)
             ELSE IF Detached(o.event, u) THEN OwnIn(reminders, "event", o.event, u)
             ELSE OwnIn(reminders, "event", o.event, u)
                    \cup OwnIn(reminders, "series", events[o.series].rec, u)
<1>1. o.series # NoEvent => events[o.series].rec # 0
  BY InSeries
<1>2. o.series # NoEvent /\ o.event = o.series => OwnIn(reminders, "event", o.event, u) = {}
  BY <1>1, OwnsNothing DEF Own, OwnIn
<1> QED BY <1>2 DEF Effective, Own, OwnIn

LEMMA EffectiveIsNext ==
    ASSUME Sound', NEW o \in Calendar', NEW u
    PROVE  Effective(o, u)' =
             IF o.series = NoEvent THEN OwnIn(reminders', "event", o.event, u)
             ELSE IF o.event = o.series THEN OwnIn(reminders', "series", events'[o.series].rec, u)
             ELSE IF Detached(o.event, u)' THEN OwnIn(reminders', "event", o.event, u)
             ELSE OwnIn(reminders', "event", o.event, u)
                    \cup OwnIn(reminders', "series", events'[o.series].rec, u)
<1>1. o.series # NoEvent => events'[o.series].rec # 0
  BY StandsIsNext DEF Stands, StandsInSeries
<1>2. o.series # NoEvent /\ o.event = o.series => OwnIn(reminders', "event", o.event, u) = {}
  <2>1. o.series # NoEvent /\ o.event = o.series => Own("event", o.event, u)' = {}
    BY <1>1, OwnsNothingNext
  <2> QED BY <2>1 DEF Own, OwnIn
<1>3. Effective(o, u)' =
         OwnIn(reminders', "event", o.event, u) \cup
            (IF o.series = NoEvent \/ (o.event # o.series /\ Detached(o.event, u)')
             THEN {} ELSE OwnIn(reminders', "series", events'[o.series].rec, u))
  BY DEF Effective, Own, OwnIn
<1> QED BY <1>2, <1>3

LEMMA SavedAsAsked ==
    ASSUME Sound, Sound', NEW e \in DOMAIN events, NEW w \in Members, NEW shapes \in SUBSET Shapes,
           PutReminders(e, w, shapes), NEW o \in Calendar, NEW u
    PROVE  IF u = w /\ e \in {o.event, o.series}
           THEN o.event = e => Effective(o, u)' = shapes
           ELSE Effective(o, u)' = Effective(o, u)
<1> DEFINE r == events[e].rec
<1>1. /\ events' = events /\ recs' = recs /\ overrides' = overrides
      /\ IF r = 0 THEN ReplaceReminders("event", e, w, shapes) ELSE ReplaceReminders("series", r, w, shapes)
  BY DEF PutReminders
<1>2. o \in Calendar'
  BY <1>1, SameCalendar
<1>3. Stands(o)
  BY StandsIs
<1>4. \A x : IsCopy(x)' <=> IsCopy(x)
  BY <1>1 DEF IsCopy
<1>5. CASE r = 0
  <2>1. /\ OwnIn(reminders', "event", e, w) = shapes
        /\ \A a, i, v : <<a, i, v>> # <<"event", e, w>> =>
                           OwnIn(reminders', a, i, v) = OwnIn(reminders, a, i, v)
    BY <1>1, <1>5, SavedIs
  <2>2. detached' = detached \cup (IF IsCopy(e) THEN {<<e, w>>} ELSE {})
    BY <1>1, <1>5, ReplaceRemindersIs
  <2>3. \A x, v : <<x, v>> # <<e, w>> => (Detached(x, v)' <=> Detached(x, v))
    BY <1>4, <2>1, <2>2 DEF Detached, Own, OwnIn
  <2>4. o.series # NoEvent => o.series # e
    BY <1>3, <1>5 DEF Stands, StandsInSeries
  <2>5. CASE o.event = e /\ u = w
    <3>1. CASE o.series = NoEvent
      BY <1>2, <2>1, <2>5, <3>1, EffectiveIsNext
    <3>2. CASE o.series # NoEvent
      <4>1. IsCopy(e)
        BY <1>3, <2>4, <2>5, <3>2 DEF Stands, StandsInSeries, IsCopy
      <4>2. Detached(e, w)'
        BY <2>2, <4>1 DEF Detached
      <4> QED BY <1>2, <2>1, <2>4, <2>5, <3>2, <4>2, EffectiveIsNext
    <3> QED BY <3>1, <3>2
  <2>6. CASE ~(o.event = e /\ u = w)
    <3>1. e # NoEvent
      BY EventFacts DEF Sound, NoEvent
    <3>2. ~(u = w /\ e \in {o.event, o.series})
      BY <2>4, <2>6, <3>1
    <3>3. OwnIn(reminders', "event", o.event, u) = OwnIn(reminders, "event", o.event, u)
      BY <2>1, <2>6
    <3>4. OwnIn(reminders', "series", events'[o.series].rec, u) = OwnIn(reminders, "series", events[o.series].rec, u)
      BY <1>1, <2>1
    <3>5. Detached(o.event, u)' <=> Detached(o.event, u)
      BY <2>3, <2>6
    <3>6. Effective(o, u)' = Effective(o, u)
      BY <1>2, <3>3, <3>4, <3>5, EffectiveIs, EffectiveIsNext
    <3> QED BY <3>2, <3>6
  <2> QED BY <2>5, <2>6
<1>6. CASE r # 0
  <2>1. /\ OwnIn(reminders', "series", r, w) = shapes
        /\ \A a, i, v : <<a, i, v>> # <<"series", r, w>> =>
                           OwnIn(reminders', a, i, v) = OwnIn(reminders, a, i, v)
    BY <1>1, <1>6, SavedIs
  <2>2. detached' = detached
    BY <1>1, <1>6, ReplaceRemindersIs
  <2>3. \A x, v : Detached(x, v)' <=> Detached(x, v)
    BY <1>4, <2>1, <2>2 DEF Detached, Own, OwnIn
  <2>4. ~IsCopy(e) /\ e # NoEvent
    BY <1>6, TemplateIs, EventFacts DEF Sound, NoEvent
  <2>5. CASE u = w /\ e \in {o.event, o.series}
    <3> SUFFICES ASSUME o.event = e PROVE Effective(o, u)' = shapes
      BY <2>5
    <3>1. o.series = e
      <4>1. o.series # NoEvent
        BY <1>3, <1>6 DEF Stands, StandsAlone
      <4> QED BY <1>3, <2>4, <4>1 DEF Stands, StandsInSeries, IsCopy
    <3> QED BY <1>1, <1>2, <2>1, <2>4, <2>5, <3>1, EffectiveIsNext
  <2>6. CASE ~(u = w /\ e \in {o.event, o.series})
    <3>1. o.series # NoEvent => ~(u = w /\ events[o.series].rec = r)
      <4>1. o.series # NoEvent /\ events[o.series].rec = r => o.series = e
        BY InSeries
      <4> QED BY <2>6, <4>1
    <3>2. o.series # NoEvent =>
            OwnIn(reminders', "series", events'[o.series].rec, u) = OwnIn(reminders, "series", events[o.series].rec, u)
      BY <1>1, <2>1, <3>1
    <3>3. OwnIn(reminders', "event", o.event, u) = OwnIn(reminders, "event", o.event, u)
      BY <2>1
    <3>4. Detached(o.event, u)' <=> Detached(o.event, u)
      BY <2>3
    <3>5. Effective(o, u)' = Effective(o, u)
      <4>1. CASE o.series = NoEvent
        BY <1>2, <3>3, <4>1, EffectiveIs, EffectiveIsNext
      <4>2. CASE o.series # NoEvent
        BY <1>2, <3>2, <3>3, <3>4, <4>2, EffectiveIs, EffectiveIsNext
      <4> QED BY <4>1, <4>2
    <3> QED BY <2>6, <3>5
  <2> QED BY <2>5, <2>6
<1> QED BY <1>5, <1>6

SavedStep ==
    did'.op = "remind" =>
       /\ \A o \in Calendar, u \in Members :
             IF u = did'.who /\ did'.event \in {o.event, o.series}
             THEN o.event = did'.event => Effective(o, u)' = did'.shapes
             ELSE Effective(o, u)' = Effective(o, u)
       /\ \A k \in DOMAIN reminders \cap DOMAIN reminders' : reminders'[k] = reminders[k]

(* A saved list is the list of the occurrences of its row, for the member  *)
(* who saved it, also when it is empty; nobody else's changes, and a       *)
(* reminder in both lists keeps its row (ReplaceReminders).                *)
THEOREM SavedListsAreKept == Spec => RemindersAsSaved
<1>1. ASSUME Sound, Sound', [Next]_vars
      PROVE  [SavedStep]_vars
  <2>1. ASSUME NEW day \in Days, NEW rule \in Rules \cup {NoRule}, Create(day, rule) PROVE SavedStep
    <3>1. did'.op = "create"
      BY <2>1 DEF Create, Did
    <3> QED BY <3>1 DEF SavedStep
  <2>2. ASSUME NEW e \in DOMAIN events, NEW scope \in Scopes, NEW when \in Days, NEW day \in Days,
               Update(e, scope, when, day)
        PROVE  SavedStep
    <3>1. did'.op = "update"
      BY <2>2 DEF Update, Did
    <3> QED BY <3>1 DEF SavedStep
  <2>3. ASSUME NEW e \in DOMAIN events, NEW scope \in Scopes, NEW when \in Days, Delete(e, scope, when)
        PROVE  SavedStep
    <3>1. did'.op = "delete"
      BY <2>3 DEF Delete, Did
    <3> QED BY <3>1 DEF SavedStep
  <2>4. ASSUME NEW e \in DOMAIN events, NEW w \in Members, NEW shapes \in SUBSET Shapes,
               PutReminders(e, w, shapes)
        PROVE  SavedStep
    <3>1. did'.event = e /\ did'.who = w /\ did'.shapes = shapes
      BY <2>4 DEF PutReminders
    <3>2. ASSUME NEW o \in Calendar, NEW u \in Members
          PROVE  IF u = did'.who /\ did'.event \in {o.event, o.series}
                 THEN o.event = did'.event => Effective(o, u)' = did'.shapes
                 ELSE Effective(o, u)' = Effective(o, u)
      BY <1>1, <2>4, <3>1, SavedAsAsked
    <3>3. \A k \in DOMAIN reminders \cap DOMAIN reminders' : reminders'[k] = reminders[k]
      <4>1. CASE events[e].rec = 0
        BY <1>1, <2>4, <4>1, ReplaceRemindersIs DEF PutReminders
      <4>2. CASE events[e].rec # 0
        BY <1>1, <2>4, <4>2, ReplaceRemindersIs DEF PutReminders
      <4> QED BY <4>1, <4>2
    <3> QED BY <3>2, <3>3 DEF SavedStep
  <2>5. ASSUME Plan PROVE SavedStep
    <3>1. did'.op = "plan"
      BY <2>5 DEF Plan, Did
    <3> QED BY <3>1 DEF SavedStep
  <2> QED BY <1>1, <2>1, <2>2, <2>3, <2>4, <2>5 DEF Next
<1>2. RemindersAsSaved <=> [][SavedStep]_vars
  BY DEF RemindersAsSaved, SavedStep
<1> QED BY <1>1, <1>2, AlwaysSound, PTL DEF Spec

(* What the row an occurrence shows says of it. *)
LEMMA KindIs ==
    Sound => \A o \in Calendar :
        /\ o.event \in DOMAIN events
        /\ o.series = NoEvent <=> events[o.event].rec = 0 /\ ~IsCopy(o.event)
        /\ o.event = o.series <=> events[o.event].rec # 0
        /\ IsCopy(o.event) => /\ o.series \in DOMAIN events
                              /\ Key(o) \in DOMAIN overrides /\ overrides[Key(o)] = o.event
<1> SUFFICES ASSUME Sound, NEW o \in Calendar
             PROVE  /\ o.event \in DOMAIN events
                    /\ o.series = NoEvent <=> events[o.event].rec = 0 /\ ~IsCopy(o.event)
                    /\ o.event = o.series <=> events[o.event].rec # 0
                    /\ IsCopy(o.event) => /\ o.series \in DOMAIN events
                                          /\ Key(o) \in DOMAIN overrides /\ overrides[Key(o)] = o.event
  OBVIOUS
<1>1. Stands(o) /\ o.event \in DOMAIN events
  BY StandsIs DEF Stands
<1>2. o.event # NoEvent
  BY <1>1, EventFacts DEF Sound, NoEvent
<1>3. CASE o.series = NoEvent
  BY <1>1, <1>2, <1>3 DEF Stands, StandsAlone
<1>4. CASE o.series # NoEvent
  <2>1. StandsInSeries(o)
    BY <1>1, <1>4 DEF Stands
  <2>2. o.series \in DOMAIN events /\ events[o.series].rec # 0 /\ ~IsCopy(o.series)
    BY <1>4, InSeries
  <2>3. CASE Key(o) \in DOMAIN overrides
    <3>1. overrides[Key(o)] = o.event
      BY <2>1, <2>3 DEF StandsInSeries
    <3>2. events[o.event].rec = 0
      BY <1>2, <2>3, <3>1 DEF Sound, Shape, ExceptionsOK
    <3>3. IsCopy(o.event)
      BY <2>3, <3>1 DEF IsCopy
    <3> QED BY <1>1, <1>4, <2>2, <2>3, <3>1, <3>2, <3>3
  <2>4. CASE Key(o) \notin DOMAIN overrides
    <3>1. o.event = o.series
      BY <2>1, <2>4 DEF StandsInSeries
    <3> QED BY <1>1, <1>4, <2>2, <3>1
  <2> QED BY <2>3, <2>4
<1> QED BY <1>3, <1>4

LEMMA KindIsNext ==
    (Sound => \A o \in Calendar :
        /\ o.event \in DOMAIN events
        /\ o.series = NoEvent <=> events[o.event].rec = 0 /\ ~IsCopy(o.event)
        /\ o.event = o.series <=> events[o.event].rec # 0
        /\ IsCopy(o.event) => /\ o.series \in DOMAIN events
                              /\ Key(o) \in DOMAIN overrides /\ overrides[Key(o)] = o.event)'
BY KindIs, PTL

(* An occurrence of a row that is what it was, with the lists it had,      *)
(* reminds as it did.                                                      *)
LEMMA EffectiveKept ==
    ASSUME Sound, Sound', NEW o \in Calendar, NEW p \in Calendar', p.event = o.event, NEW u,
           events'[o.event].rec = events[o.event].rec,
           IsCopy(o.event)' <=> IsCopy(o.event),
           <<o.event, u>> \in detached' <=> <<o.event, u>> \in detached,
           OwnIn(reminders', "event", o.event, u) = OwnIn(reminders, "event", o.event, u),
           events[o.event].rec # 0 =>
              OwnIn(reminders', "series", events[o.event].rec, u) = OwnIn(reminders, "series", events[o.event].rec, u),
           \A k \in DOMAIN overrides, l \in DOMAIN overrides' :
              overrides[k] = o.event /\ overrides'[l] = o.event
                 => OwnIn(reminders', "series", l[1], u) = OwnIn(reminders, "series", k[1], u)
    PROVE  Effective(p, u)' = Effective(o, u)
<1> DEFINE x == o.event
<1>1. /\ x \in DOMAIN events
      /\ o.series = NoEvent <=> events[x].rec = 0 /\ ~IsCopy(x)
      /\ x = o.series <=> events[x].rec # 0
      /\ IsCopy(x) => Key(o) \in DOMAIN overrides /\ overrides[Key(o)] = x
  BY KindIs
<1>2. /\ p.series = NoEvent <=> events'[x].rec = 0 /\ ~IsCopy(x)'
      /\ x = p.series <=> events'[x].rec # 0
      /\ IsCopy(x)' => Key(p)' \in DOMAIN overrides' /\ overrides'[Key(p)'] = x
  BY KindIsNext
<1>3. x # NoEvent
  BY <1>1, EventFacts DEF Sound, NoEvent
<1>4. Detached(x, u)' <=> Detached(x, u)
  <2>1. Detached(x, u) <=> <<x, u>> \in detached \/ (IsCopy(x) /\ OwnIn(reminders, "event", x, u) # {})
    BY DEF Detached, Own, OwnIn
  <2>2. Detached(x, u)' <=> <<x, u>> \in detached' \/ (IsCopy(x)' /\ OwnIn(reminders', "event", x, u) # {})
    BY DEF Detached, Own, OwnIn
  <2> QED BY <2>1, <2>2
<1>5. CASE o.series = NoEvent
  <2>1. p.series = NoEvent
    BY <1>1, <1>2, <1>5
  <2>2. Effective(o, u) = OwnIn(reminders, "event", x, u)
    BY <1>5, EffectiveIs
  <2>3. Effective(p, u)' = OwnIn(reminders', "event", x, u)
    BY <2>1, EffectiveIsNext
  <2> QED BY <2>2, <2>3
<1>6. CASE o.series = x
  <2>1. p.series = x /\ events[x].rec # 0
    BY <1>1, <1>2, <1>6
  <2>2. Effective(o, u) = OwnIn(reminders, "series", events[x].rec, u)
    BY <1>3, <1>6, EffectiveIs
  <2>3. Effective(p, u)' = OwnIn(reminders', "series", events'[x].rec, u)
    BY <1>3, <2>1, EffectiveIsNext
  <2> QED BY <2>1, <2>2, <2>3
<1>7. CASE o.series # NoEvent /\ o.series # x
  <2>1. IsCopy(x) /\ events[x].rec = 0
    BY <1>1, <1>7
  <2>2. p.series # NoEvent /\ p.series # x /\ Key(p)' \in DOMAIN overrides' /\ overrides'[Key(p)'] = x
    BY <1>2, <2>1
  <2>3. Key(o) \in DOMAIN overrides /\ overrides[Key(o)] = x
    BY <1>1, <2>1
  <2>4. Key(o)[1] = events[o.series].rec /\ Key(p)'[1] = events'[p.series].rec
    BY DEF Key
  <2>5. OwnIn(reminders', "series", events'[p.series].rec, u) = OwnIn(reminders, "series", events[o.series].rec, u)
    BY <2>2, <2>3, <2>4
  <2>6. Effective(o, u) = IF Detached(x, u) THEN OwnIn(reminders, "event", x, u)
                          ELSE OwnIn(reminders, "event", x, u)
                                 \cup OwnIn(reminders, "series", events[o.series].rec, u)
    BY <1>7, EffectiveIs
  <2>7. Effective(p, u)' = IF Detached(x, u)' THEN OwnIn(reminders', "event", x, u)
                           ELSE OwnIn(reminders', "event", x, u)
                                  \cup OwnIn(reminders', "series", events'[p.series].rec, u)
    BY <2>2, EffectiveIsNext
  <2> QED BY <1>4, <2>5, <2>6, <2>7
<1> QED BY <1>5, <1>6, <1>7

(* The same where the exceptions that name the row are what they were. *)
LEMMA KeptWithItsKey ==
    ASSUME Sound, Sound', NEW o \in Calendar, NEW p \in Calendar', p.event = o.event, NEW u,
           events'[o.event].rec = events[o.event].rec,
           \A k : k \in DOMAIN overrides' /\ overrides'[k] = o.event
                     <=> k \in DOMAIN overrides /\ overrides[k] = o.event,
           <<o.event, u>> \in detached' <=> <<o.event, u>> \in detached,
           OwnIn(reminders', "event", o.event, u) = OwnIn(reminders, "event", o.event, u),
           NEW r, \A q : q # r => OwnIn(reminders', "series", q, u) = OwnIn(reminders, "series", q, u),
           events[o.event].rec # 0 => events[o.event].rec # r,
           \A k \in DOMAIN overrides : overrides[k] = o.event => k[1] # r
    PROVE  Effective(p, u)' = Effective(o, u)
<1>1. IsCopy(o.event)' <=> IsCopy(o.event)
  BY DEF IsCopy
<1>2. ASSUME NEW k \in DOMAIN overrides, NEW l \in DOMAIN overrides',
             overrides[k] = o.event, overrides'[l] = o.event
      PROVE  OwnIn(reminders', "series", l[1], u) = OwnIn(reminders, "series", k[1], u)
  <2>1. l \in DOMAIN overrides /\ overrides[l] = o.event
    BY <1>2
  <2>2. o.event # NoEvent
    BY KindIs, EventFacts DEF Sound, NoEvent
  <2>3. l = k
    BY <1>2, <2>1, <2>2 DEF Sound, Shape, CopiesDistinct
  <2> QED BY <1>2, <2>3
<1>3. events[o.event].rec # 0 =>
         OwnIn(reminders', "series", events[o.event].rec, u) = OwnIn(reminders, "series", events[o.event].rec, u)
  OBVIOUS
<1> QED BY <1>1, <1>2, <1>3, EffectiveKept

KeptStep ==
    did'.op \in {"update", "delete"} /\ DOMAIN reminders \cup DOMAIN reminders' # {} =>
       LET new == {e \in DOMAIN events' : e \notin DOMAIN events}
           old == Calendar
       IN  \A p \in Calendar' : \A o \in old, u \in Members :
              Same(o, p, new) => Effective(p, u)' = Effective(o, u)

(* Where no row comes, only the occurrences of a row are to be compared.   *)
LEMMA KeptWithoutNewRows ==
    ASSUME DOMAIN events' \subseteq DOMAIN events,
           \A o \in Calendar, p \in Calendar', u \in Members :
              p.event = o.event => Effective(p, u)' = Effective(o, u)
    PROVE  KeptStep
<1>1. {e \in DOMAIN events' : e \notin DOMAIN events} = {}
  OBVIOUS
<1> QED BY <1>1 DEF KeptStep, Same

LEMMA KeptUntouched ==
    ASSUME Sound, Sound', DOMAIN events' = DOMAIN events,
           \A x \in DOMAIN events : events'[x].rec = events[x].rec,
           UNCHANGED <<overrides, reminders, detached>>
    PROVE  KeptStep
<1>1. ASSUME NEW o \in Calendar, NEW p \in Calendar', NEW u \in Members, p.event = o.event
      PROVE  Effective(p, u)' = Effective(o, u)
  <2>1. o.event \in DOMAIN events
    BY KindIs
  <2>2. \A w, i, v : OwnIn(reminders', w, i, v) = OwnIn(reminders, w, i, v)
    OBVIOUS
  <2>3. \A k \in DOMAIN overrides : overrides[k] = o.event => k[1] # 0
    BY RecFacts DEF Sound, Shape, ExceptionsOK
  <2>4. events'[o.event].rec = events[o.event].rec
    BY <2>1
  <2>5. \A k : k \in DOMAIN overrides' /\ overrides'[k] = o.event
                   <=> k \in DOMAIN overrides /\ overrides[k] = o.event
    OBVIOUS
  <2>6. <<o.event, u>> \in detached' <=> <<o.event, u>> \in detached
    OBVIOUS
  <2> QED BY <1>1, <2>2, <2>3, <2>4, <2>5, <2>6, KeptWithItsKey
<1> QED BY <1>1, KeptWithoutNewRows

(* A deletion takes whole rows, with the lists and the markers they have.  *)
LEMMA KeptByDeletion ==
    ASSUME Sound, Sound', NEW gone, WithoutEvents(gone), NEW r, reminders' = RemindersWithout(gone, r),
           \A x \in DOMAIN events \ gone : events[x].rec # 0 => events[x].rec # r,
           \A k \in DOMAIN overrides :
              overrides[k] \notin gone /\ overrides[k] # NoEvent
                 => k[1] # r /\ k \in DOMAIN overrides' /\ overrides'[k] = overrides[k],
           \A k \in DOMAIN overrides' :
              overrides'[k] # NoEvent => k \in DOMAIN overrides /\ overrides'[k] = overrides[k]
    PROVE  KeptStep
<1>1. /\ DOMAIN events' = DOMAIN events \ gone
      /\ \A x \in DOMAIN events' : events'[x] = events[x]
      /\ detached' = {m \in detached : m[1] \notin gone}
  BY WithoutEventsIs
<1>2. \A w, i, v, s : ~(w = "event" /\ i \in gone) /\ ~(w = "series" /\ i = r) =>
         (<<w, i, v, s>> \in DOMAIN reminders' <=> <<w, i, v, s>> \in DOMAIN reminders)
  <2> SUFFICES ASSUME NEW w, NEW i, NEW v, NEW s,
                      ~(w = "event" /\ i \in gone) /\ ~(w = "series" /\ i = r)
               PROVE  <<w, i, v, s>> \in DOMAIN reminders' <=> <<w, i, v, s>> \in DOMAIN reminders
    OBVIOUS
  <2> DEFINE k == <<w, i, v, s>>
  <2>1. k[1] = w /\ k[2] = i
    OBVIOUS
  <2> HIDE DEF k
  <2>2. k \in DOMAIN reminders' <=> k \in DOMAIN reminders
    BY <2>1, RemindersWithoutIs
  <2> QED BY <2>2 DEF k
<1>3. ASSUME NEW o \in Calendar, NEW p \in Calendar', NEW u \in Members, p.event = o.event
      PROVE  Effective(p, u)' = Effective(o, u)
  <2>1. /\ o.event \in DOMAIN events' /\ o.event \in DOMAIN events /\ o.event \notin gone
        /\ o.event # NoEvent
    BY <1>1, <1>3, KindIsNext, EventFacts DEF Sound, NoEvent
  <2>2. events'[o.event].rec = events[o.event].rec
    BY <1>1, <2>1
  <2>3. \A k : k \in DOMAIN overrides' /\ overrides'[k] = o.event
                  <=> k \in DOMAIN overrides /\ overrides[k] = o.event
    BY <2>1
  <2>4. <<o.event, u>> \in detached' <=> <<o.event, u>> \in detached
    BY <1>1, <2>1
  <2>5. OwnIn(reminders', "event", o.event, u) = OwnIn(reminders, "event", o.event, u)
    BY <1>2, <2>1 DEF OwnIn
  <2>6. \A q : q # r => OwnIn(reminders', "series", q, u) = OwnIn(reminders, "series", q, u)
    BY <1>2 DEF OwnIn
  <2>7. events[o.event].rec # 0 => events[o.event].rec # r
    BY <2>1
  <2>8. \A k \in DOMAIN overrides : overrides[k] = o.event => k[1] # r
    BY <2>1
  <2> QED BY <1>3, <2>2, <2>3, <2>4, <2>5, <2>6, <2>7, <2>8, KeptWithItsKey
<1> QED BY <1>1, <1>3, KeptWithoutNewRows

LEMMA DeletePlainKept ==
    ASSUME Sound, Sound', NEW t \in DOMAIN events, events[t].rec = 0, DeletePlain(t)
    PROVE  KeptStep
<1> DEFINE lost == {k \in DOMAIN overrides : overrides[k] \in {t}}
<1>1. /\ WithoutEvents({t}) /\ reminders' = RemindersWithout({t}, 0)
      /\ overrides' = Without(overrides, lost)
  BY DEF DeletePlain, OverridesWithout
<1>2. \A k \in DOMAIN overrides : k \in lost <=> overrides[k] = t
  OBVIOUS
<1> HIDE DEF lost
<1>3. \A k : k \in DOMAIN overrides' <=> k \in DOMAIN overrides /\ k \notin lost
  BY <1>1 DEF Without
<1>4. \A k \in DOMAIN overrides' : overrides'[k] = overrides[k]
  BY <1>1, <1>3 DEF Without
<1>5. \A k \in DOMAIN overrides : k[1] # 0
  BY RecFacts DEF Sound, Shape, ExceptionsOK
<1>6. \A k \in DOMAIN overrides :
         overrides[k] \notin {t} /\ overrides[k] # NoEvent
            => k[1] # 0 /\ k \in DOMAIN overrides' /\ overrides'[k] = overrides[k]
  BY <1>2, <1>3, <1>4, <1>5
<1>7. \A k \in DOMAIN overrides' :
         overrides'[k] # NoEvent => k \in DOMAIN overrides /\ overrides'[k] = overrides[k]
  BY <1>3, <1>4
<1>8. \A x \in DOMAIN events \ {t} : events[x].rec # 0 => events[x].rec # 0
  OBVIOUS
<1> QED BY <1>1, <1>6, <1>7, <1>8, KeptByDeletion

LEMMA CancelOccurrenceKept ==
    ASSUME Sound, Sound', NEW t \in DOMAIN events, events[t].rec # 0, NEW d \in Nat,
           CancelOccurrence(t, recs[events[t].rec], d)
    PROVE  KeptStep
<1> DEFINE k0 == <<events[t].rec, d>>
<1>1. /\ DOMAIN overrides' = DOMAIN overrides \cup {k0} /\ overrides'[k0] = NoEvent
      /\ \A l \in DOMAIN overrides : l # k0 => overrides'[l] = overrides[l]
  BY CancelOccurrenceIs
<1>2. PICK gone \in SUBSET DOMAIN events :
          /\ WithoutEvents(gone) /\ reminders' = RemindersWithout(gone, 0)
          /\ \A c \in gone : /\ events[c].rec = 0 /\ IsCopy(c)
                             /\ <<events[t].rec, d>> \in DOMAIN overrides
                             /\ overrides[<<events[t].rec, d>>] = c
          /\ \A c \in DOMAIN events :
                <<events[t].rec, d>> \in DOMAIN overrides /\ overrides[<<events[t].rec, d>>] = c
                   => c \in gone
  BY CancelOccurrenceIs
<1>3. \A c \in DOMAIN events : k0 \in DOMAIN overrides /\ overrides[k0] = c => c \in gone
  BY <1>2
<1> HIDE DEF k0
<1>4. ASSUME NEW k \in DOMAIN overrides, overrides[k] \notin gone, overrides[k] # NoEvent
      PROVE  k[1] # 0 /\ k \in DOMAIN overrides' /\ overrides'[k] = overrides[k]
  <2>1. overrides[k] \in DOMAIN events /\ k[1] # 0
    BY <1>4, RecFacts DEF Sound, Shape, ExceptionsOK
  <2>2. k # k0
    BY <1>3, <1>4, <2>1
  <2> QED BY <1>1, <2>1, <2>2
<1>5. \A k \in DOMAIN overrides' :
         overrides'[k] # NoEvent => k \in DOMAIN overrides /\ overrides'[k] = overrides[k]
  BY <1>1
<1> QED BY <1>2, <1>4, <1>5, KeptByDeletion

LEMMA DeleteSeriesKept ==
    ASSUME Sound, Sound', NEW t \in DOMAIN events, events[t].rec # 0, DeleteSeries(t)
    PROVE  KeptStep
<1> DEFINE r == events[t].rec
           gone == CopiesOf(r) \cup {t}
<1>1. /\ WithoutEvents(gone) /\ reminders' = RemindersWithout(gone, r)
      /\ overrides' = Without(overrides, ExceptionsOf(r))
  BY DEF DeleteSeries
<1>2. \A x \in DOMAIN events \ gone : events[x].rec # 0 => events[x].rec # r
  BY DEF Sound, Shape, OneTemplate
<1>3. \A k \in DOMAIN overrides : overrides[k] # NoEvent /\ k[1] = r => overrides[k] \in gone
  BY DEF CopiesOf, ExceptionsOf
<1> HIDE DEF r, gone
<1>4. \A k : k \in DOMAIN overrides' <=> k \in DOMAIN overrides /\ k[1] # r
  BY <1>1 DEF Without, ExceptionsOf
<1>5. \A k \in DOMAIN overrides' : overrides'[k] = overrides[k]
  BY <1>1, <1>4 DEF Without
<1>6. \A k \in DOMAIN overrides :
         overrides[k] \notin gone /\ overrides[k] # NoEvent
            => k[1] # r /\ k \in DOMAIN overrides' /\ overrides'[k] = overrides[k]
  BY <1>3, <1>4, <1>5
<1>7. \A k \in DOMAIN overrides' :
         overrides'[k] # NoEvent => k \in DOMAIN overrides /\ overrides'[k] = overrides[k]
  BY <1>4, <1>5
<1> QED BY <1>1, <1>2, <1>6, <1>7, KeptByDeletion

(* The copy an occurrence gets has the list it had with its series.        *)
LEMMA UpdateOccurrenceKept ==
    ASSUME Sound, Sound', NEW t \in DOMAIN events, events[t].rec # 0, NEW d \in Nat, NEW day \in Days,
           UpdateOccurrence(t, recs[events[t].rec], d, day), did'.event = t
    PROVE  KeptStep
<1>1. UNCHANGED <<recs, reminders, detached>>
  BY UpdateOccurrenceIs
<1> DEFINE r  == events[t].rec
           k0 == <<r, d>>
<1>2. PICK c \in DOMAIN events' :
          /\ DOMAIN events' = DOMAIN events \cup {c}
          /\ events'[c].rec = 0
          /\ \A x \in DOMAIN events : events'[x].rec = events[x].rec
          /\ DOMAIN overrides' = DOMAIN overrides \cup {k0}
          /\ overrides'[k0] = c /\ c # 0 /\ c \in Nat
          /\ \A k \in DOMAIN overrides : k # k0 => overrides'[k] = overrides[k]
          /\ c \in DOMAIN events => k0 \in DOMAIN overrides /\ overrides[k0] = c
  BY ONLY Sound, t \in DOMAIN events, events[t].rec # 0, d \in Nat, day \in Days,
          UpdateOccurrence(t, recs[events[t].rec], d, day), UpdateOccurrenceIs
<1>3. k0[1] = r /\ k0[2] = d
  OBVIOUS
<1>4. /\ DOMAIN overrides' = DOMAIN overrides \cup {k0}
      /\ overrides'[k0] = c /\ c # NoEvent
      /\ \A k \in DOMAIN overrides : k # k0 => overrides'[k] = overrides[k]
      /\ c \in DOMAIN events => k0 \in DOMAIN overrides /\ overrides[k0] = c
  BY <1>2 DEF NoEvent
<1>5. c \notin DOMAIN events => (k0 \in DOMAIN overrides => overrides[k0] = NoEvent)
  <2> SUFFICES ASSUME k0 \in DOMAIN overrides, overrides[k0] # NoEvent PROVE c \in DOMAIN events
    OBVIOUS
  <2>1. overrides' = overrides
    BY DEF UpdateOccurrence
  <2> HIDE DEF k0
  <2> QED BY <1>4, <2>1 DEF Sound, Shape, ExceptionsOK
<1> HIDE DEF r, k0
<1>6. \A w, i, v : OwnIn(reminders', w, i, v) = OwnIn(reminders, w, i, v)
  BY <1>1
<1>7. ASSUME NEW o \in Calendar, NEW p \in Calendar', NEW u \in Members, p.event = o.event
      PROVE  Effective(p, u)' = Effective(o, u)
  <2>1. o.event \in DOMAIN events /\ o.event # NoEvent
    BY KindIs, EventFacts DEF Sound, NoEvent
  <2>2. events'[o.event].rec = events[o.event].rec
    BY <1>2, <2>1
  <2>3. \A k : k \in DOMAIN overrides' /\ overrides'[k] = o.event
                  <=> k \in DOMAIN overrides /\ overrides[k] = o.event
    BY <1>4, <1>5, <2>1
  <2>4. <<o.event, u>> \in detached' <=> <<o.event, u>> \in detached
    BY <1>1
  <2>5. \A k \in DOMAIN overrides : overrides[k] = o.event => k[1] # 0
    BY RecFacts DEF Sound, Shape, ExceptionsOK
  <2> QED BY <1>6, <1>7, <2>2, <2>3, <2>4, <2>5, KeptWithItsKey
<1>8. ASSUME NEW o \in Calendar, NEW p \in Calendar', NEW u \in Members,
             o.event = o.series, o.event = t, p.event \notin DOMAIN events, o.date = p.date
      PROVE  Effective(p, u)' = Effective(o, u)
  <2>1. p.event \in DOMAIN events'
    BY KindIsNext
  <2>2. p.event = c /\ c \notin DOMAIN events
    BY <1>2, <1>8, <2>1
  <2>3. IsCopy(c)'
    BY <1>4 DEF IsCopy
  <2>4. p.series # NoEvent /\ p.event # p.series
    BY <1>2, <2>2, <2>3, KindIsNext
  <2>5. Key(p)' \in DOMAIN overrides' /\ overrides'[Key(p)'] = c
    BY <2>2, <2>3, KindIsNext
  <2>6. \A l \in DOMAIN overrides' : overrides'[l] = c => l = k0
    <3>1. k0 \in DOMAIN overrides' /\ overrides'[k0] = c /\ c # NoEvent
      BY <1>4
    <3> QED BY <3>1 DEF Sound, Shape, CopiesDistinct
  <2>7. events'[p.series].rec = r
    <3>1. Key(p)'[1] = events'[p.series].rec
      BY DEF Key
    <3> QED BY <1>3, <2>5, <2>6, <3>1
  <2>8. OwnIn(reminders, "event", c, u) = {}
    BY <2>2, OwnsNothing DEF Own, OwnIn
  <2>9. ~Detached(c, u)'
    <3>1. <<c, u>> \notin detached
      BY <2>2 DEF Sound, Shape, MarkersOK
    <3>2. Own("event", c, u)' = {}
      BY <1>6, <2>8 DEF Own, OwnIn
    <3> QED BY <1>1, <3>1, <3>2 DEF Detached
  <2>10. Effective(p, u)' = OwnIn(reminders, "event", c, u) \cup OwnIn(reminders, "series", r, u)
    BY <1>6, <2>2, <2>4, <2>7, <2>9, EffectiveIsNext
  <2>11. Effective(o, u) = OwnIn(reminders, "series", r, u)
    <3>1. o.series # NoEvent
      BY <1>8, EventFacts DEF Sound, NoEvent
    <3> QED BY <1>8, <3>1, EffectiveIs DEF r
  <2> QED BY <2>8, <2>10, <2>11
<1> QED BY <1>7, <1>8 DEF KeptStep, Same

(* The lists after a split: the second half has the lists of the first,    *)
(* and a copy that leaves the series with its inheritance keeps it.        *)
LEMMA SplitLists ==
    ASSUME Sound, NEW r, NEW n, n \notin DOMAIN recs, NEW left,
           DOMAIN reminders' = DOMAIN reminders \cup Carried(r, n, left), NEW u \in Members
    PROVE  /\ \A x : x \notin left => OwnIn(reminders', "event", x, u) = OwnIn(reminders, "event", x, u)
           /\ \A q : q # n => OwnIn(reminders', "series", q, u) = OwnIn(reminders, "series", q, u)
           /\ OwnIn(reminders', "series", n, u) = OwnIn(reminders, "series", r, u)
           /\ \A x \in left : OwnIn(reminders', "event", x, u) =
                 IF Inherits(x, u, r)
                 THEN OwnIn(reminders, "event", x, u) \cup OwnIn(reminders, "series", r, u)
                 ELSE OwnIn(reminders, "event", x, u)
<1> DEFINE given == Carried(r, n, left)
<1>1. \A k \in given :
         /\ <<"series", r, k[3], k[4]>> \in DOMAIN reminders
         /\ k[1] = "series" => k[2] = n
         /\ k[1] = "event" => k[2] \in left /\ Inherits(k[2], k[3], r)
  BY CarriedIs
<1>2. \A s \in Shapes : <<"series", r, u, s>> \in DOMAIN reminders =>
         /\ <<"series", n, u, s>> \in given
         /\ \A c \in left : Inherits(c, u, r) => <<"event", c, u, s>> \in given
  BY CarriedIs
<1>3. \A s : <<"series", n, u, s>> \notin DOMAIN reminders
  BY DEF Sound, Shape, RemindersOK
<1> HIDE DEF given
<1>4. ASSUME NEW w, NEW x, NEW s \in Shapes
      PROVE  <<w, x, u, s>> \in given =>
                /\ <<"series", r, u, s>> \in DOMAIN reminders
                /\ w = "series" => x = n
                /\ w = "event" => x \in left /\ Inherits(x, u, r)
  <2> DEFINE k == <<w, x, u, s>>
  <2>1. k[1] = w /\ k[2] = x /\ k[3] = u /\ k[4] = s
    OBVIOUS
  <2> HIDE DEF k
  <2>2. k \in given =>
                /\ <<"series", r, u, s>> \in DOMAIN reminders
                /\ w = "series" => x = n
                /\ w = "event" => x \in left /\ Inherits(x, u, r)
    BY <1>1, <2>1
  <2> QED BY <2>2 DEF k
<1>5. \A w, x, s : <<w, x, u, s>> \in DOMAIN reminders' <=>
                      <<w, x, u, s>> \in DOMAIN reminders \/ <<w, x, u, s>> \in given
  BY DEF given
<1>6. ASSUME NEW x, x \notin left
      PROVE  OwnIn(reminders', "event", x, u) = OwnIn(reminders, "event", x, u)
  BY <1>4, <1>5, <1>6 DEF OwnIn
<1>7. ASSUME NEW q, q # n
      PROVE  OwnIn(reminders', "series", q, u) = OwnIn(reminders, "series", q, u)
  <2>1. ASSUME NEW s \in Shapes, <<"series", q, u, s>> \in given PROVE FALSE
    <3> DEFINE k == <<"series", q, u, s>>
    <3>1. k[1] = "series" /\ k[2] = q /\ k \in given
      BY <2>1
    <3> HIDE DEF k
    <3> QED BY <1>1, <1>7, <3>1
  <2> QED BY <1>5, <2>1 DEF OwnIn
<1>8. OwnIn(reminders', "series", n, u) = OwnIn(reminders, "series", r, u)
  BY <1>2, <1>3, <1>4, <1>5 DEF OwnIn
<1>9. ASSUME NEW x \in left
      PROVE  OwnIn(reminders', "event", x, u) =
                 IF Inherits(x, u, r)
                 THEN OwnIn(reminders, "event", x, u) \cup OwnIn(reminders, "series", r, u)
                 ELSE OwnIn(reminders, "event", x, u)
  BY <1>2, <1>4, <1>5 DEF OwnIn
<1> QED BY <1>6, <1>7, <1>8, <1>9

LEMMA SplitSeriesKept ==
    ASSUME Sound, Sound', NEW t \in DOMAIN events, events[t].rec # 0, NEW at \in Nat, at # 0,
           NEW day \in Days, NEW rule \in Rules \cup {NoRule},
           SplitSeries(t, recs[events[t].rec], at, day, rule), did'.event = t
    PROVE  KeptStep
<1> DEFINE r    == events[t].rec
           new  == SecondHalf(recs[r], at, day, rule)
           left == LeftBehind(r, at, new)
<1>1. PICK e, n : SplitInto(t, at, day, new, e, n)
  BY SplitSeriesIs
<1> HIDE DEF new
<1>2. /\ n \notin DOMAIN recs /\ n # 0
      /\ DOMAIN events' = DOMAIN events \cup {e}
      /\ e # 0 /\ e \notin DOMAIN events /\ events'[e].rec = n
      /\ \A x \in DOMAIN events : events'[x] = events[x]
      /\ OverridesSplit(r, n, at, new)
      /\ DOMAIN reminders' = DOMAIN reminders \cup Carried(r, n, left)
      /\ detached' = detached \cup {m \in left \X Members : Inherits(m[1], m[2], r)}
  BY <1>1 DEF SplitInto
<1>3. r \in DOMAIN recs /\ r # 0 /\ \A x \in DOMAIN events : events[x].rec = r => x = t
  BY TemplateIs DEF Sound, Shape, OneTemplate
<1>4. ASSUME NEW u \in Members
      PROVE  /\ \A x : x \notin left => OwnIn(reminders', "event", x, u) = OwnIn(reminders, "event", x, u)
             /\ \A q : q # n => OwnIn(reminders', "series", q, u) = OwnIn(reminders, "series", q, u)
             /\ OwnIn(reminders', "series", n, u) = OwnIn(reminders, "series", r, u)
             /\ \A x \in left : OwnIn(reminders', "event", x, u) =
                   IF Inherits(x, u, r)
                   THEN OwnIn(reminders, "event", x, u) \cup OwnIn(reminders, "series", r, u)
                   ELSE OwnIn(reminders, "event", x, u)
  <2>1. n \notin DOMAIN recs /\ DOMAIN reminders' = DOMAIN reminders \cup Carried(r, n, left)
    BY <1>2
  <2> HIDE DEF r, left
  <2> QED BY ONLY Sound, <2>1, u \in Members, SplitLists
(* Whom the exceptions name. *)
<1>5. \A k \in DOMAIN overrides :
         overrides[k] # NoEvent /\ overrides[k] \notin left =>
            \/ k \in DOMAIN overrides' /\ overrides'[k] = overrides[k]
            \/ k[1] = r /\ <<n, k[2]>> \in DOMAIN overrides' /\ overrides'[<<n, k[2]>>] = overrides[k]
  <2> SUFFICES ASSUME NEW k \in DOMAIN overrides, overrides[k] # NoEvent, overrides[k] \notin left
               PROVE  \/ k \in DOMAIN overrides' /\ overrides'[k] = overrides[k]
                      \/ k[1] = r /\ <<n, k[2]>> \in DOMAIN overrides'
                           /\ overrides'[<<n, k[2]>>] = overrides[k]
    OBVIOUS
  <2>1. k[1] # n
    BY <1>2 DEF Sound, Shape, ExceptionsOK
  <2>2. CASE k[1] # r \/ k[2] < at
    BY <1>2, <2>1, <2>2 DEF OverridesSplit
  <2>3. CASE ~(k[1] # r \/ k[2] < at)
    <3> DEFINE l == <<n, k[2]>>
    <3>1. k = <<r, k[2]>> /\ l[1] = n /\ l[2] = k[2] /\ n # r
      BY <1>2, <1>3, <2>3, OverrideFacts DEF Sound
    <3>2. Occurs(new, k[2])
      BY <2>3 DEF LeftBehind, ExceptionsOf
    <3>3. l \in DOMAIN overrides'
      BY <1>2, <2>3, <3>2 DEF OverridesSplit
    <3> HIDE DEF l
    <3>4. l \notin DOMAIN overrides
      BY <1>2, <3>1 DEF Sound, Shape, ExceptionsOK
    <3>5. overrides'[l] = overrides[<<r, l[2]>>]
      BY <1>2, <3>3, <3>4 DEF OverridesSplit
    <3>6. overrides'[l] = overrides[k]
      BY <3>1, <3>5
    <3> QED BY <2>3, <3>3, <3>6 DEF l
  <2> QED BY <2>2, <2>3
<1>6. \A l \in DOMAIN overrides' : overrides'[l] # NoEvent =>
         /\ overrides'[l] \notin left
         /\ \E k \in DOMAIN overrides : /\ overrides[k] = overrides'[l]
                                        /\ (l[1] = k[1] /\ l[1] # n) \/ (l[1] = n /\ k[1] = r)
  <2> SUFFICES ASSUME NEW l \in DOMAIN overrides', overrides'[l] # NoEvent
               PROVE  /\ overrides'[l] \notin left
                      /\ \E k \in DOMAIN overrides :
                            /\ overrides[k] = overrides'[l]
                            /\ (l[1] = k[1] /\ l[1] # n) \/ (l[1] = n /\ k[1] = r)
    OBVIOUS
  <2>1. PICK k \in DOMAIN overrides :
            /\ overrides[k] = overrides'[l]
            /\ (l[1] = k[1] /\ l[1] # n) \/ (l[1] = n /\ k[1] = r)
            /\ (k[1] # r \/ k[2] < at) \/ Occurs(new, k[2])
    <3>1. CASE /\ l \in DOMAIN overrides /\ overrides'[l] = overrides[l]
               /\ (l[1] # r \/ l[2] < at)
      <4>1. l[1] # n
        BY <1>2, <3>1 DEF Sound, Shape, ExceptionsOK
      <4> QED BY <3>1, <4>1
    <3>2. CASE /\ l = <<n, l[2]>> /\ l[1] = n /\ l[2] \in Nat
               /\ <<r, l[2]>> \in DOMAIN overrides /\ ~(l[2] < at) /\ Occurs(new, l[2])
               /\ overrides'[l] = overrides[<<r, l[2]>>]
      <4> DEFINE k == <<r, l[2]>>
      <4>1. k[1] = r /\ k[2] = l[2] /\ k \in DOMAIN overrides /\ overrides[k] = overrides'[l]
        BY <3>2
      <4> HIDE DEF k
      <4> QED BY <3>2, <4>1
    <3> QED BY <1>2, <3>1, <3>2 DEF OverridesSplit
  <2>2. overrides[k] \notin left
    <3> SUFFICES ASSUME overrides[k] \in left PROVE FALSE
      OBVIOUS
    <3>1. PICK x \in DOMAIN overrides : /\ overrides[x] = overrides[k] /\ x[1] = r
                                        /\ ~(x[2] < at) /\ ~Occurs(new, x[2])
      BY DEF LeftBehind, ExceptionsOf
    <3>2. x = k
      BY <2>1, <3>1 DEF Sound, Shape, CopiesDistinct
    <3> QED BY <2>1, <3>1, <3>2
  <2> QED BY <2>1, <2>2
<1> HIDE DEF left
(* A row that is in the calendar before and after. *)
<1>7. ASSUME NEW o \in Calendar, NEW p \in Calendar', NEW u \in Members, p.event = o.event,
             o.event \notin left
      PROVE  Effective(p, u)' = Effective(o, u)
  <2> DEFINE x == o.event
  <2>1. x \in DOMAIN events /\ x # NoEvent
    BY KindIs, EventFacts DEF Sound, NoEvent
  <2>2. events'[x].rec = events[x].rec /\ (events[x].rec # 0 => events[x].rec # n)
    BY <1>2, <2>1 DEF Sound, Shape, RecsExist
  <2>3. IsCopy(x)' <=> IsCopy(x)
    <3>1. IsCopy(x) => IsCopy(x)'
      BY <1>5, <1>7, <2>1 DEF IsCopy
    <3>2. IsCopy(x)' => IsCopy(x)
      BY <1>6, <2>1 DEF IsCopy
    <3> QED BY <3>1, <3>2
  <2>4. <<x, u>> \in detached' <=> <<x, u>> \in detached
    BY <1>2, <1>7
  <2>5. OwnIn(reminders', "event", x, u) = OwnIn(reminders, "event", x, u)
    BY <1>4, <1>7
  <2>6. events[x].rec # 0 =>
           OwnIn(reminders', "series", events[x].rec, u) = OwnIn(reminders, "series", events[x].rec, u)
    BY <1>4, <2>2
  <2>7. ASSUME NEW k \in DOMAIN overrides, NEW l \in DOMAIN overrides',
               overrides[k] = x, overrides'[l] = x
        PROVE  OwnIn(reminders', "series", l[1], u) = OwnIn(reminders, "series", k[1], u)
    <3>1. PICK m \in DOMAIN overrides : /\ overrides[m] = overrides'[l]
                                        /\ (l[1] = m[1] /\ l[1] # n) \/ (l[1] = n /\ m[1] = r)
      BY <1>6, <2>1, <2>7
    <3>2. m = k
      BY <2>1, <2>7, <3>1 DEF Sound, Shape, CopiesDistinct
    <3> QED BY <1>4, <3>1, <3>2
  <2> QED BY <1>7, <2>2, <2>3, <2>4, <2>5, <2>6, <2>7, EffectiveKept
(* A copy that its series leaves behind. *)
<1>8. ASSUME NEW o \in Calendar, NEW p \in Calendar', NEW u \in Members, p.event = o.event,
             o.event \in left
      PROVE  Effective(p, u)' = Effective(o, u)
  <2> DEFINE x == o.event
  <2>1. x \in DOMAIN events /\ x # NoEvent
    BY KindIs, EventFacts DEF Sound, NoEvent
  <2>2. PICK k \in DOMAIN overrides : overrides[k] = x /\ k[1] = r
    BY <1>8 DEF left, LeftBehind, ExceptionsOf
  <2>3. IsCopy(x)
    BY <2>2 DEF IsCopy
  <2>4. events[x].rec = 0
    BY <2>1, <2>2 DEF Sound, Shape, ExceptionsOK
  <2>5. o.series # NoEvent /\ o.series # x /\ Key(o) \in DOMAIN overrides /\ overrides[Key(o)] = x
    BY <2>3, <2>4, KindIs
  <2>6. events[o.series].rec = r
    <3>1. Key(o) = k
      BY <2>1, <2>2, <2>5 DEF Sound, Shape, CopiesDistinct
    <3>2. Key(o)[1] = events[o.series].rec
      BY DEF Key
    <3> QED BY <2>2, <3>1, <3>2
  <2>7. Effective(o, u) = IF Detached(x, u) THEN OwnIn(reminders, "event", x, u)
                          ELSE OwnIn(reminders, "event", x, u) \cup OwnIn(reminders, "series", r, u)
    BY <2>5, <2>6, EffectiveIs
  <2>8. ~IsCopy(x)'
    BY <1>6, <1>8, <2>1 DEF IsCopy
  <2>9. p.series = NoEvent
    BY <1>2, <1>8, <2>1, <2>4, <2>8, KindIsNext
  <2>10. Effective(p, u)' = OwnIn(reminders', "event", x, u)
    BY <1>8, <2>9, EffectiveIsNext
  <2>11. OwnIn(reminders', "event", x, u) =
            IF Inherits(x, u, r)
            THEN OwnIn(reminders, "event", x, u) \cup OwnIn(reminders, "series", r, u)
            ELSE OwnIn(reminders, "event", x, u)
    BY <1>4, <1>8
  <2>12. Inherits(x, u, r) <=> ~Detached(x, u) /\ OwnIn(reminders, "series", r, u) # {}
    BY DEF Inherits, Own, OwnIn
  <2> QED BY <2>7, <2>10, <2>11, <2>12
(* The second half. *)
<1>9. ASSUME NEW o \in Calendar, NEW p \in Calendar', NEW u \in Members,
             o.event = o.series, o.event = t, p.event \notin DOMAIN events
      PROVE  Effective(p, u)' = Effective(o, u)
  <2>1. p.event \in DOMAIN events'
    BY KindIsNext
  <2>2. p.event = e
    BY <1>2, <1>9, <2>1
  <2>3. p.series = e /\ e # NoEvent
    BY <1>2, <2>2, KindIsNext DEF NoEvent
  <2>4. Effective(p, u)' = OwnIn(reminders', "series", n, u)
    BY <1>2, <2>2, <2>3, EffectiveIsNext
  <2>5. Effective(o, u) = OwnIn(reminders, "series", r, u)
    <3>1. o.series # NoEvent
      BY <1>9, EventFacts DEF Sound, NoEvent
    <3> QED BY <1>9, <3>1, EffectiveIs
  <2> QED BY <1>4, <2>4, <2>5
<1> QED BY <1>7, <1>8, <1>9 DEF KeptStep, Same

(* After an edit, an occurrence that is still there reminds each member as *)
(* it did: both halves of a split series (copyReminders), the copy an      *)
(* occurrence gets, a copy its series leaves behind                        *)
(* (keepInheritedReminders).                                               *)
THEOREM RemindersAreNotLost == Spec => RemindersAreKept
<1>1. ASSUME Sound, Sound', [Next]_vars
      PROVE  [KeptStep]_vars
  <2>1. ASSUME NEW day \in Days, NEW rule \in Rules \cup {NoRule}, Create(day, rule) PROVE KeptStep
    <3>1. did'.op = "create"
      BY <2>1 DEF Create, Did
    <3> QED BY <3>1 DEF KeptStep
  <2>2. ASSUME NEW e \in DOMAIN events, NEW scope \in Scopes, NEW when \in Days, NEW day \in Days,
               Update(e, scope, when, day)
        PROVE  KeptStep
    <3>1. PICK t \in DOMAIN events, d \in Nat : UpdateOf(t, scope, d, day)
      BY <1>1, <2>2, UpdateIs
    <3>2. did'.event = t
      BY <3>1 DEF UpdateOf, Did
    <3>3. CASE events[t].rec = 0 /\ UpdatePlain(t, day)
      <4>1. UNCHANGED <<overrides, reminders, detached>> /\ UpdateEvent(t, day)
        BY <3>3 DEF UpdatePlain
      <4>2. DOMAIN events' = DOMAIN events /\ \A x \in DOMAIN events : events'[x].rec = events[x].rec
        BY <1>1, <4>1, UpdateEventIs DEF Sound, Days
      <4> QED BY <1>1, <4>1, <4>2, KeptUntouched
    <3>4. ASSUME NEW followMove \in BOOLEAN, NEW rule \in Rules \cup {NoRule}, events[t].rec # 0,
                 followMove \/ rule \in Rules,
                 UpdateSeries(t, recs[events[t].rec], followMove, day, rule)
          PROVE  KeptStep
      <4>1. /\ DOMAIN events' = DOMAIN events /\ UNCHANGED <<overrides, reminders, detached>>
            /\ \A x \in DOMAIN events : events'[x].rec = events[x].rec
        BY <1>1, <3>4, UpdateSeriesIs
      <4> QED BY <1>1, <4>1, KeptUntouched
    <3>5. CASE events[t].rec # 0 /\ UpdateOccurrence(t, recs[events[t].rec], d, day)
      BY <1>1, <3>2, <3>5, UpdateOccurrenceKept
    <3>6. ASSUME events[t].rec # 0, d # 0, NEW rule \in Rules \cup {NoRule},
                 SplitSeries(t, recs[events[t].rec], d, day, rule)
          PROVE  KeptStep
      BY <1>1, <3>2, <3>6, SplitSeriesKept
    <3> QED BY <3>1, <3>3, <3>4, <3>5, <3>6 DEF UpdateOf
  <2>3. ASSUME NEW e \in DOMAIN events, NEW scope \in Scopes, NEW when \in Days, Delete(e, scope, when)
        PROVE  KeptStep
    <3>1. PICK t \in DOMAIN events, d \in Nat : DeleteOf(t, scope, d)
      BY <1>1, <2>3, DeleteIs
    <3>2. CASE events[t].rec = 0 /\ DeletePlain(t)
      BY <1>1, <3>2, DeletePlainKept
    <3>3. CASE events[t].rec # 0 /\ CancelOccurrence(t, recs[events[t].rec], d)
      BY <1>1, <3>3, CancelOccurrenceKept
    <3>4. CASE events[t].rec # 0 /\ DeleteSeries(t)
      BY <1>1, <3>4, DeleteSeriesKept
    <3>5. ASSUME events[t].rec # 0, NEW at \in Nat, EndSeries(t, recs[events[t].rec], at)
          PROVE  KeptStep
      <4>1. UNCHANGED <<events, overrides, reminders, detached>>
        BY <1>1, <3>5, EndSeriesIs
      <4> QED BY <1>1, <4>1, KeptUntouched
    <3> QED BY <3>1, <3>2, <3>3, <3>4, <3>5 DEF DeleteOf
  <2>4. ASSUME NEW e \in DOMAIN events, NEW u \in Members, NEW shapes \in SUBSET Shapes,
               PutReminders(e, u, shapes)
        PROVE  KeptStep
    <3>1. did'.op = "remind"
      BY <2>4 DEF PutReminders
    <3> QED BY <3>1 DEF KeptStep
  <2>5. ASSUME Plan PROVE KeptStep
    <3>1. did'.op = "plan"
      BY <2>5 DEF Plan, Did
    <3> QED BY <3>1 DEF KeptStep
  <2> QED BY <1>1, <2>1, <2>2, <2>3, <2>4, <2>5 DEF Next
<1>2. RemindersAreKept <=> [][KeptStep]_vars
  BY DEF RemindersAreKept, KeptStep
<1> QED BY <1>1, <1>2, AlwaysSound, PTL DEF Spec
=============================================================================
