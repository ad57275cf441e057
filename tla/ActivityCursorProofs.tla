------------------------ MODULE ActivityCursorProofs ------------------------
(***************************************************************************)
(* The cursor of the announcements is sound for every number of calendars, *)
(* of changes and of faults, every lateness and every limit: through       *)
(* deletions, ids handed out again and interruptions between any two       *)
(* statements, a cursor the next pass would take at its word never has a   *)
(* pending change behind it.                                               *)
(***************************************************************************)
EXTENDS ActivityCursor, FiniteSetTheorems, TLAPS

-----------------------------------------------------------------------------
(* Least and greatest members. *)

(* A nonempty set of naturals has a least element. *)
LEMMA LeastOf ==
    ASSUME NEW S \in SUBSET Nat, S # {}
    PROVE  \E m \in S : \A n \in S : m <= n
<1>1. \E m \in S : \A n \in S : ~ (<<n, m>> \in OpToRel(<, Nat))
  BY NatLessThanWellFounded, WFMin
<1>2. PICK m \in S : \A n \in S : ~ (<<n, m>> \in OpToRel(<, Nat))
  BY <1>1
<1>3. \A n \in S : <<n, m>> \in Nat \X Nat
  OBVIOUS
<1>4. \A n \in S : ~ (n < m)
  BY <1>2, <1>3 DEF OpToRel
<1> QED BY <1>4

(* Lowest and Highest are what their names say. *)
LEMMA LowestIs ==
    ASSUME NEW S \in SUBSET Nat, S # {}
    PROVE  Lowest(S) \in S /\ \A n \in S : Lowest(S) <= n
BY LeastOf DEF Lowest

LEMMA HighestIs ==
    ASSUME NEW S \in SUBSET Nat, S # {}, NEW b \in Nat, \A i \in S : i <= b
    PROVE  Highest(S) \in S /\ \A n \in S : n <= Highest(S)
<1> DEFINE gaps == {b - i : i \in S}
<1>1. gaps \in SUBSET Nat /\ gaps # {}
  <2>1. \A i \in S : b - i \in Nat
    OBVIOUS
  <2> QED BY <2>1
<1>2. PICK g \in gaps : \A h \in gaps : g <= h
  <2> HIDE DEF gaps
  <2> QED BY <1>1, LeastOf
<1>3. PICK m \in S : g = b - m
  OBVIOUS
<1>4. ASSUME NEW n \in S PROVE n <= m
  <2>1. b - n \in gaps
    OBVIOUS
  <2>2. b - m <= b - n
    BY <1>2, <1>3, <2>1
  <2>3. b \in Int /\ m \in Int /\ n \in Int
    OBVIOUS
  <2> HIDE DEF gaps
  <2> QED BY <2>2, <2>3
<1> HIDE DEF gaps
<1>5. \E i \in S : \A j \in S : j <= i
  BY <1>4
<1> QED BY <1>5 DEF Highest

(* The copies a pass has left always have a first one. *)
LEMMA CurrentIs ==
    ASSUME TypeOK, pass.acts # {}
    PROVE  /\ Current \in pass.acts
           /\ \A b \in pass.acts : Current.id <= b.id
<1> DEFINE ids == {b.id : b \in pass.acts}
<1>1. pass.acts \subseteq Copy
  BY DEF TypeOK, Pass
<1>2. \A b \in pass.acts : b.id \in Nat
  BY <1>1, CursorConstants DEF Copy
<1>3. ids \in SUBSET Nat /\ ids # {}
  BY <1>2
<1>4. Lowest(ids) \in ids /\ \A n \in ids : Lowest(ids) <= n
  <2> HIDE DEF ids
  <2> QED BY <1>3, LowestIs
<1>5. \E a \in pass.acts : a.id = Lowest(ids)
  BY <1>4
<1>6. Current \in pass.acts /\ Current.id = Lowest(ids)
  BY <1>5 DEF Current
<1> QED BY <1>4, <1>6

-----------------------------------------------------------------------------
(* Types. *)

LEMMA IdleType == Idle \in Pass /\ NoCursor \in Cursor
BY DEF Idle, Pass, NoCursor, Cursor

LEMMA CursorAtType ==
    ASSUME NEW i \in LogIds, NEW row \in Change
    PROVE  CursorAt(i, row) \in Cursor
BY CursorConstants DEF CursorAt, Cursor, Change

LEMMA KeyOfType ==
    ASSUME NEW i \in LogIds, NEW row \in Change
    PROVE  KeyOf(i, row) \in Key
BY DEF KeyOf, Key, Change

(* The write of a cursor is a pass that only writes. *)
LEMMA WriteType ==
    ASSUME TypeOK, NEW cursor \in Cursor, NEW then \in {"list", "idle"}, Write(cursor, then)
    PROVE  /\ pass' \in Pass
           /\ pass'.pc = "write" /\ pass'.then = then /\ pass'.cursor = cursor
           /\ pass'.next = NoCursor /\ pass'.acts = {}
           /\ then = "list" => pass'.cals = pass.cals /\ pass'.since = pass.since
<1> DEFINE since == IF then = "list" THEN pass.since ELSE 0
           cals == IF then = "list" THEN pass.cals ELSE {}
<1>1. since \in Nat /\ cals \in SUBSET CalendarIds
  BY DEF TypeOK, Pass
<1>2. pass' = [pc |-> "write", since |-> since, cals |-> cals, cursor |-> cursor,
               next |-> NoCursor, acts |-> {}, named |-> {}, tell |-> FALSE,
               field |-> 1, then |-> then]
  BY DEF Write, Idle
<1>3. pass' \in Pass
  <2> HIDE DEF since, cals
  <2> QED BY <1>1, <1>2, IdleType DEF Pass
<1> QED BY <1>2, <1>3

(* What a pass may become in one statement. *)
LEMMA PassType ==
    ASSUME TypeOK, NEW pc \in {"idle", "cursor", "newest", "check", "reset", "list",
                               "look", "file", "end", "write"}
    PROVE  /\ [pass EXCEPT !.pc = pc] \in Pass
           /\ \A c \in Cursor : [pass EXCEPT !.cursor = c, !.pc = pc] \in Pass
           /\ [pass EXCEPT !.pc = pc, !.acts = {}] \in Pass
           /\ [pass EXCEPT !.pc = pc, !.acts = {}, !.tell = FALSE] \in Pass
           /\ [pass EXCEPT !.pc = "list", !.field = 1, !.then = "idle"] \in Pass
           /\ pass.field # 4 => [pass EXCEPT !.field = pass.field + 1] \in Pass
<1> pass \in Pass
  BY DEF TypeOK
<1>1. [pass EXCEPT !.pc = pc] \in Pass
  BY DEF Pass
<1>2. ASSUME NEW c \in Cursor PROVE [pass EXCEPT !.cursor = c, !.pc = pc] \in Pass
  BY DEF Pass
<1>3. [pass EXCEPT !.pc = pc, !.acts = {}] \in Pass
  BY DEF Pass
<1>4. [pass EXCEPT !.pc = pc, !.acts = {}, !.tell = FALSE] \in Pass
  BY DEF Pass
<1>5. [pass EXCEPT !.pc = "list", !.field = 1, !.then = "idle"] \in Pass
  <2> DEFINE first == 1
  <2>1. first \in 1 .. 4
    OBVIOUS
  <2> HIDE DEF first
  <2>2. [pass EXCEPT !.pc = "list", !.field = first, !.then = "idle"] \in Pass
    BY <2>1 DEF Pass
  <2> QED BY <2>2 DEF first
<1>6. ASSUME pass.field # 4 PROVE [pass EXCEPT !.field = pass.field + 1] \in Pass
  <2> DEFINE n == pass.field + 1
  <2>1. pass.field \in 1 .. 4
    BY DEF Pass
  <2>2. n \in 1 .. 4
    BY <1>6, <2>1
  <2> HIDE DEF n
  <2>3. [pass EXCEPT !.field = n] \in Pass
    BY <2>2 DEF Pass
  <2> QED BY <2>3 DEF n
<1> QED BY <1>1, <1>2, <1>3, <1>4, <1>5, <1>6

LEMMA HandledType ==
    ASSUME TypeOK, pass.acts # {}
    PROVE  Handled \in Pass
<1>1. Current \in pass.acts /\ pass.acts \subseteq Copy
  BY CurrentIs DEF TypeOK, Pass
<1> DEFINE rest == pass.acts \ {Current}
           next == CursorAt(Current.id, Current.row)
           pc == IF rest = {} THEN "end" ELSE "look"
<1>2. next \in Cursor
  BY <1>1, CursorAtType DEF Copy
<1>3. rest \subseteq Copy /\ pc \in {"end", "look"}
  BY <1>1
<1>4. Handled = [pass EXCEPT !.acts = rest, !.tell = FALSE, !.next = next, !.pc = pc]
  BY DEF Handled
<1> HIDE DEF rest, next, pc
<1> QED BY <1>2, <1>3, <1>4 DEF TypeOK, Pass

(* The pass works on a change only while it has one. *)
Busy == pass.pc \in {"look", "file"} => pass.acts # {}

(* The log has a last row. *)
Bounded == \E b \in DOMAIN log \cup {0} : \A i \in DOMAIN log : i <= b

TypeInv == TypeOK /\ Busy /\ Bounded

LEMMA TypeInit == Init => TypeInv
<1> SUFFICES ASSUME Init PROVE TypeInv
  OBVIOUS
<1>1. DOMAIN calendars \subseteq CalendarIds /\ calendars \in [DOMAIN calendars -> Calendar]
  BY CursorConstants DEF Init, Calendar
<1>2. CASE log = [i \in {} |-> 0] /\ serial = 0
             /\ meta = [started |-> FALSE, cursor |-> NoCursor]
  <2>1. DOMAIN log = {} /\ log \in [DOMAIN log -> Change]
    BY <1>2
  <2>2. meta \in [started : BOOLEAN, cursor : Cursor]
    BY <1>2, IdleType
  <2> QED BY <1>1, <1>2, <2>1, <2>2, IdleType DEF Init, TypeInv, TypeOK, Busy, Bounded, Idle
<1>3. ASSUME NEW c \in Founding, serial = 1,
             log = [i \in {1} |-> [cal |-> c, at |-> 1, uid |-> 0, mine |-> FALSE,
                                   serial |-> 1, owed |-> FALSE]],
             meta \in {[started |-> FALSE, cursor |-> NoCursor],
                       [started |-> TRUE, cursor |-> [NoCursor EXCEPT !.id = 1]],
                       [started |-> TRUE, cursor |-> CursorAt(1, log[1])]}
      PROVE  TypeInv
  <2>1. log[1] \in Change /\ DOMAIN log = {1}
    BY <1>3, CursorConstants DEF Change
  <2>2. CursorAt(1, log[1]) \in Cursor
    BY <2>1, CursorAtType, CursorConstants
  <2>3. [NoCursor EXCEPT !.id = 1] \in Cursor
    BY DEF NoCursor, Cursor
  <2>4. log \in [DOMAIN log -> Change] /\ DOMAIN log \subseteq LogIds
    BY <1>3, <2>1, CursorConstants
  <2> DEFINE named == CursorAt(1, log[1])
             bare == [NoCursor EXCEPT !.id = 1]
  <2>5. meta \in [started : BOOLEAN, cursor : Cursor]
    <3>1. \E b \in BOOLEAN, m \in {NoCursor, named, bare} : meta = [started |-> b, cursor |-> m]
      BY <1>3
    <3> HIDE DEF named, bare
    <3> QED BY <3>1, <2>2, <2>3, IdleType DEF named, bare
  <2>6. Bounded
    BY <2>1 DEF Bounded
  <2> QED BY <1>1, <1>3, <2>4, <2>5, <2>6, IdleType DEF Init, TypeInv, TypeOK, Busy, Idle
<1> QED BY <1>2, <1>3 DEF Init

(* A member joins no later than now. Only what a step changes is looked at *)
(* in what follows: the family changes the tables, a pass its own state.   *)
LEMMA FamilyType ==
    ASSUME TypeInv, Family
    PROVE  TypeInv'
<1> USE DEF TypeInv
<1>1. UNCHANGED <<now, meta, pass, overlooked, faults>> /\ edits' \in Nat
  <2>1. Edit
    BY DEF Family, CreateCalendar, DeleteCalendar, Join, Leave, SetMuted, LogChange
  <2> QED BY <2>1 DEF Edit, TypeOK
<1>2. \A i \in DOMAIN log : log[i] \in Change /\ i \in LogIds
  BY DEF TypeOK
<1>3. \A c \in DOMAIN calendars : calendars[c] \in Calendar /\ c \in CalendarIds
  BY DEF TypeOK
<1> DEFINE Tables == /\ DOMAIN calendars' \subseteq CalendarIds
                     /\ calendars' \in [DOMAIN calendars' -> Calendar]
                     /\ DOMAIN log' \subseteq LogIds
                     /\ log' \in [DOMAIN log' -> Change]
                     /\ Bounded'
                     /\ outbox' \subseteq Key
                     /\ serial' \in Nat
<1>a. SUFFICES Tables
  BY <1>1 DEF TypeOK, Busy
<1>b. DOMAIN log' \subseteq DOMAIN log => Bounded'
  <2> SUFFICES ASSUME DOMAIN log' \subseteq DOMAIN log PROVE Bounded'
    OBVIOUS
  <2>1. DOMAIN log' \in SUBSET Nat
    BY CursorConstants DEF TypeOK
  <2>2. PICK b \in Nat : \A i \in DOMAIN log' : i <= b
    BY CursorConstants DEF TypeOK, Bounded
  <2>3. CASE DOMAIN log' = {}
    BY <2>3 DEF Bounded
  <2>4. CASE DOMAIN log' # {}
    BY <2>1, <2>2, <2>4, HighestIs DEF Bounded
  <2> QED BY <2>3, <2>4
<1>4. ASSUME CreateCalendar PROVE Tables
  <2>1. PICK c \in CalendarIds, joined \in {0, now} :
            calendars' = Insert(calendars, c, [joined |-> joined, muted |-> FALSE])
    BY <1>4 DEF CreateCalendar
  <2>2. [joined |-> joined, muted |-> FALSE] \in Calendar
    BY DEF TypeOK, Calendar
  <2>3. DOMAIN calendars' = DOMAIN calendars \cup {c}
        /\ \A k \in DOMAIN calendars' : calendars'[k] \in Calendar
    BY <2>1, <2>2, <1>3 DEF Insert
  <2>4. calendars' \in [DOMAIN calendars' -> Calendar]
    BY <2>1, <2>3 DEF Insert
  <2> QED BY <1>b, <1>4, <2>3, <2>4 DEF CreateCalendar, TypeOK
<1>5. ASSUME NEW c \in DOMAIN calendars, DeleteCalendar(c) PROVE Tables
  <2>1. /\ calendars' = Without(calendars, {c})
        /\ log' = Without(log, {i \in DOMAIN log : log[i].cal = c})
        /\ outbox' \subseteq outbox /\ serial' = serial
    BY <1>5 DEF DeleteCalendar
  <2>2. calendars' \in [DOMAIN calendars' -> Calendar] /\ DOMAIN calendars' \subseteq CalendarIds
    BY <2>1, <1>3 DEF Without
  <2>3. log' \in [DOMAIN log' -> Change] /\ DOMAIN log' \subseteq DOMAIN log
    BY <2>1, <1>2 DEF Without
  <2> QED BY <1>b, <2>1, <2>2, <2>3 DEF TypeOK
<1>6. ASSUME NEW c \in DOMAIN calendars, Join(c) PROVE Tables
  <2>1. [joined |-> now, muted |-> FALSE] \in Calendar
    BY DEF TypeOK, Calendar
  <2> QED BY <1>b, <1>6, <2>1 DEF Join, TypeOK
<1>7. ASSUME NEW c \in DOMAIN calendars, Disown(c)
      PROVE  log' \in [DOMAIN log' -> Change] /\ DOMAIN log' = DOMAIN log
  <2>1. \A i \in DOMAIN log : [log[i] EXCEPT !.owed = FALSE] \in Change
    BY <1>2 DEF Change
  <2> QED BY <1>7, <1>2, <2>1 DEF Disown
<1>8. ASSUME NEW c \in DOMAIN calendars, Leave(c) PROVE Tables
  <2>1. [joined |-> 0, muted |-> FALSE] \in Calendar
    BY DEF Calendar
  <2> QED BY <1>b, <1>7, <1>8, <2>1 DEF Leave, TypeOK
<1>9. ASSUME NEW c \in DOMAIN calendars, NEW b \in BOOLEAN, SetMuted(c, b) PROVE Tables
  <2>1. [calendars[c] EXCEPT !.muted = b] \in Calendar
    BY <1>3 DEF Calendar
  <2>2. calendars' = [calendars EXCEPT ![c] = [calendars[c] EXCEPT !.muted = b]]
    BY <1>9 DEF SetMuted
  <2> QED BY <1>b, <1>7, <1>9, <2>1, <2>2 DEF SetMuted, TypeOK
<1>10. ASSUME NEW c \in DOMAIN calendars, NEW b \in BOOLEAN, LogChange(c, b) PROVE Tables
  <2> DEFINE row == [cal |-> c, at |-> now, uid |-> serial', mine |-> b, serial |-> serial',
                     owed |-> ~b /\ calendars[c].joined # 0 /\ ~calendars[c].muted]
  <2>1. serial' \in Nat
    BY <1>10 DEF LogChange, TypeOK
  <2>2. row \in Change
    BY <2>1, <1>3 DEF Change, TypeOK, Calendar
  <2>3. PICK i \in LogIds : IsNextId(log, i) /\ log' = Insert(log, i, row)
    BY <1>10 DEF LogChange
  <2> HIDE DEF row
  <2>4. log' \in [DOMAIN log' -> Change] /\ DOMAIN log' \subseteq LogIds
    BY <2>2, <2>3, <1>2 DEF Insert
  <2>5. Bounded'
    <3>1. DOMAIN log' = DOMAIN log \cup {i} /\ \A k \in DOMAIN log : k < i
      BY <2>3 DEF Insert, IsNextId
    <3>2. i \in Nat /\ \A k \in DOMAIN log : k \in Nat
      BY <1>2, CursorConstants
    <3>3. \A k \in DOMAIN log' : k <= i
      BY <3>1, <3>2
    <3> QED BY <3>1, <3>3 DEF Bounded
  <2> QED BY <1>10, <2>1, <2>4, <2>5 DEF LogChange, TypeOK
<1> QED BY <1>4, <1>5, <1>6, <1>8, <1>9, <1>10 DEF Family

(* The rows a pass lists and the cursors it takes from them are of the log. *)
LEMMA LogFacts ==
    ASSUME TypeOK
    PROVE  /\ \A i \in DOMAIN log : log[i] \in Change /\ i \in LogIds /\ i \in Nat /\ i # 0
           /\ DOMAIN log \in SUBSET Nat
BY CursorConstants DEF TypeOK

LEMMA LastIs ==
    ASSUME TypeInv, NEW ids \in SUBSET DOMAIN log, ids # {}
    PROVE  Highest(ids) \in ids /\ \A i \in ids : i <= Highest(ids)
<1>1. ids \in SUBSET Nat
  BY LogFacts DEF TypeInv
<1>2. PICK b \in Nat : \A i \in ids : i <= b
  BY CursorConstants DEF TypeInv, TypeOK, Bounded
<1> QED BY <1>1, <1>2, HighestIs

LEMMA CursorAtLastIs ==
    ASSUME TypeInv, NEW ids \in SUBSET DOMAIN log
    PROVE  /\ CursorAtLast(ids) \in Cursor
           /\ \/ CursorAtLast(ids) = NoCursor
              \/ \E i \in ids : CursorAtLast(ids) = CursorAt(i, log[i])
<1>1. CASE ids = {}
  BY <1>1, IdleType DEF CursorAtLast
<1>2. CASE ids # {}
  <2>1. Highest(ids) \in ids
    BY <1>2, LastIs
  <2> QED BY <1>2, <2>1, LogFacts, CursorAtType DEF CursorAtLast, TypeInv
<1> QED BY <1>1, <1>2

LEMMA PlanType ==
    ASSUME TypeInv, PlanActivity
    PROVE  TypeInv'
<1> USE DEF TypeInv
<1> DEFINE Read == /\ DOMAIN log' = DOMAIN log
                   /\ log' \in [DOMAIN log' -> Change]
                   /\ meta' \in [started : BOOLEAN, cursor : Cursor]
                   /\ outbox' \subseteq Key
                   /\ overlooked' \subseteq Nat
                   /\ pass' \in Pass
                   /\ pass'.pc \in {"look", "file"} => pass'.acts # {}
<1>1. UNCHANGED <<now, calendars, serial, edits, faults>>
  BY DEF PlanActivity, Unchanged, ReadCalendars, ReadCursor, StartFromPresent, CheckCursor,
         ResetCursor, WriteField, ListLog, Look, File, EndBatch
<1>2. SUFFICES Read
  BY <1>1 DEF TypeOK, Busy, Bounded
<1>3. /\ pass \in Pass /\ log \in [DOMAIN log -> Change] /\ outbox \subseteq Key
      /\ meta \in [started : BOOLEAN, cursor : Cursor] /\ overlooked \subseteq Nat
  BY DEF TypeOK
<1>4. CASE ReadCalendars
  <2> DEFINE cals == DOMAIN calendars
  <2>1. pass' = [Idle EXCEPT !.pc = "cursor", !.since = serial, !.cals = cals]
    BY <1>4 DEF ReadCalendars
  <2>2. cals \subseteq CalendarIds /\ serial \in Nat
    BY DEF TypeOK
  <2>3. pass' \in Pass /\ pass'.pc = "cursor"
    <3> HIDE DEF cals
    <3>1. [Idle EXCEPT !.since = serial, !.cals = cals] \in Pass
      BY <2>2, IdleType DEF Pass
    <3>2. pass' = [[Idle EXCEPT !.since = serial, !.cals = cals] EXCEPT !.pc = "cursor"]
      BY <2>1 DEF Idle
    <3> QED BY <3>1, <3>2 DEF Pass
  <2> QED BY <1>3, <1>4, <2>3 DEF ReadCalendars, Unchanged
<1>5. CASE ReadCursor
  <2> DEFINE pc == CASE ~meta.started            -> "newest"
                     [] meta.started /\ meta.cursor.id = 0 -> "list"
                     [] meta.started /\ meta.cursor.id # 0 ->
                          IF Vouched(meta.cursor) THEN "check" ELSE "reset"
  <2>1. pc \in {"newest", "list", "check", "reset"}
    BY <1>3
  <2>2. pass' = [pass EXCEPT !.cursor = meta.cursor, !.pc = pc]
    BY <1>5 DEF ReadCursor
  <2> HIDE DEF pc
  <2>3. pass' \in Pass
    BY <1>3, <2>1, <2>2, PassType
  <2>4. pass'.pc = pc
    BY <1>3, <2>2 DEF Pass
  <2> QED BY <1>3, <1>5, <2>1, <2>3, <2>4 DEF ReadCursor, Unchanged
<1>6. CASE StartFromPresent
  <2>1. CursorAtLast(Known(pass.cals)) \in Cursor
    BY CursorAtLastIs DEF Known
  <2>2. pass' \in Pass /\ pass'.pc = "write"
    BY <1>6, <2>1, WriteType DEF StartFromPresent
  <2>3. log' \in [DOMAIN log' -> Change] /\ DOMAIN log' = DOMAIN log
    <3>1. \A i \in DOMAIN log : [log[i] EXCEPT !.owed = FALSE] \in Change
      BY <1>3 DEF Change
    <3> QED BY <1>6, <3>1 DEF StartFromPresent
  <2> QED BY <1>3, <1>6, <2>2, <2>3 DEF StartFromPresent
<1>7. CASE CheckCursor
  <2> DEFINE pc == IF pass.cursor.id \in Known(pass.cals) /\ Names(pass.cursor, pass.cursor.id)
                   THEN "list" ELSE "reset"
  <2>1. pass' = [pass EXCEPT !.pc = pc]
    BY <1>7 DEF CheckCursor
  <2>2. pc \in {"list", "reset"}
    OBVIOUS
  <2> HIDE DEF pc
  <2>3. pass' \in Pass /\ pass'.pc = pc
    <3>1. pass' \in Pass
      BY <2>1, <2>2, PassType
    <3> QED BY <1>3, <2>1, <3>1 DEF Pass
  <2> QED BY <1>3, <1>7, <2>2, <2>3 DEF CheckCursor, Unchanged
<1>8. CASE ResetCursor
  <2>1. CursorAtLast(Settled(pass.cals)) \in Cursor
    BY CursorAtLastIs DEF Settled, Known
  <2>2. pass' \in Pass /\ pass'.pc = "write"
    BY <1>8, <2>1, WriteType DEF ResetCursor
  <2> QED BY <1>3, <1>8, <2>2 DEF ResetCursor, Unchanged
<1>9. CASE WriteField
  <2>1. /\ [meta.cursor EXCEPT !.id = pass.cursor.id] \in Cursor
        /\ [meta.cursor EXCEPT !.cal = pass.cursor.cal] \in Cursor
        /\ [meta.cursor EXCEPT !.at = pass.cursor.at] \in Cursor
        /\ [meta.cursor EXCEPT !.uid = pass.cursor.uid] \in Cursor
    <3>1. meta.cursor \in Cursor /\ pass.cursor \in Cursor
      BY <1>3 DEF Pass
    <3> QED BY <3>1 DEF Cursor
  <2>2. meta' \in [started : BOOLEAN, cursor : Cursor]
    <3>1. pass.field \in 1 .. 4
      BY <1>3 DEF Pass
    <3>2. \E m \in Cursor : meta' = [started |-> TRUE, cursor |-> m]
      <4>1. pass.field = 1 \/ pass.field = 2 \/ pass.field = 3 \/ pass.field = 4
        BY <3>1
      <4>2. CASE pass.field = 1
        BY <1>9, <2>1, <4>2 DEF WriteField
      <4>3. CASE pass.field = 2
        BY <1>9, <2>1, <4>3 DEF WriteField
      <4>4. CASE pass.field = 3
        BY <1>9, <2>1, <4>4 DEF WriteField
      <4>5. CASE pass.field = 4
        BY <1>9, <2>1, <4>5 DEF WriteField
      <4> QED BY <4>1, <4>2, <4>3, <4>4, <4>5
    <3> QED BY <3>2
  <2>3. pass' \in Pass /\ pass'.pc \in {"write", "list", "idle"}
    <3>1. pass.field \in 1 .. 4
      BY <1>3 DEF Pass
    <3>2. CASE pass.field < LastField
      <4>1. pass' = [pass EXCEPT !.field = pass.field + 1] /\ pass.field # 4
        BY <1>9, <3>1, <3>2 DEF WriteField, LastField
      <4>2. pass' \in Pass
        BY <4>1, PassType
      <4> QED BY <1>3, <1>9, <4>1, <4>2 DEF WriteField, Pass
    <3>3. CASE ~(pass.field < LastField) /\ pass.then = "list"
      <4>1. pass' = [pass EXCEPT !.pc = "list", !.field = 1, !.then = "idle"]
        BY <1>9, <3>3 DEF WriteField
      <4>2. pass' \in Pass
        BY <4>1, PassType
      <4> QED BY <1>3, <4>1, <4>2 DEF Pass
    <3>4. CASE ~(pass.field < LastField) /\ pass.then # "list"
      BY <1>9, <3>4, IdleType DEF WriteField, Idle
    <3> QED BY <3>2, <3>3, <3>4
  <2> QED BY <1>3, <1>9, <2>2, <2>3 DEF WriteField, Unchanged
<1>10. CASE ListLog
  <2> DEFINE acts == After(pass.cals, pass.cursor.id)
             copies == {[id |-> i, row |-> log[i]] : i \in acts}
             pc == IF acts = {} THEN "end" ELSE "look"
             late == {log[i].serial : i \in {i \in DOMAIN log \ acts :
                         log[i].serial > pass.since /\ \E j \in acts : i < j}}
  <2>1. acts \subseteq DOMAIN log
    BY DEF After, Known
  <2>2. copies \subseteq Copy /\ (acts # {} => copies # {})
    <3>1. \A i \in acts : [id |-> i, row |-> log[i]] \in Copy
      BY <2>1, LogFacts DEF Copy
    <3> HIDE DEF acts
    <3> QED BY <3>1
  <2>3. late \subseteq Nat
    BY LogFacts DEF Change
  <2>4. /\ pass' = [pc |-> pc, since |-> 0, cals |-> {}, cursor |-> pass.cursor,
                    next |-> pass.cursor, acts |-> copies, named |-> {}, tell |-> FALSE,
                    field |-> 1, then |-> "idle"]
        /\ overlooked' = overlooked \cup late
    BY <1>10 DEF ListLog, Idle
  <2>5. pc \in {"end", "look"} /\ (pc = "look" => acts # {})
    OBVIOUS
  <2> HIDE DEF acts, copies, pc, late
  <2>6. pass' \in Pass
    BY <1>3, <2>2, <2>4, <2>5 DEF Pass
  <2>7. pass'.pc \in {"look", "file"} => pass'.acts # {}
    BY <2>2, <2>4, <2>5
  <2>8. overlooked' \subseteq Nat
    BY <1>3, <2>3, <2>4
  <2> QED BY <1>3, <1>10, <2>6, <2>7, <2>8 DEF ListLog, Unchanged
<1>11. CASE Look
  <2>1. Current \in pass.acts /\ pass.acts \subseteq Copy
    BY <1>11, <1>3, CurrentIs DEF Look, Busy, Pass
  <2> DEFINE cal == Current.row.cal
             named == pass.named \cup {cal}
             tell == Concerns(Current.row)
  <2>2. named \subseteq CalendarIds
    BY <1>3, <2>1 DEF Pass, Copy, Change
  <2>3. tell \in BOOLEAN
    BY DEF Concerns
  <2>4. CASE cal \in DOMAIN calendars \cup pass.named
    <3>1. pass' = [pass EXCEPT !.pc = "file", !.tell = tell, !.named = named]
      BY <1>11, <2>4 DEF Look
    <3> HIDE DEF cal, named, tell
    <3>2. pass' \in Pass
      BY <1>3, <2>2, <2>3, <3>1 DEF Pass
    <3>3. pass'.acts # {}
      BY <1>3, <2>1, <3>1 DEF Pass
    <3> QED BY <1>3, <1>11, <3>2, <3>3 DEF Look, Unchanged
  <2>5. CASE cal \notin DOMAIN calendars \cup pass.named
    <3>1. pass' = [pass EXCEPT !.pc = "end", !.acts = {}]
      BY <1>11, <2>5 DEF Look
    <3>2. pass' \in Pass /\ pass'.pc = "end"
      <4>1. pass' \in Pass
        BY <3>1, PassType
      <4> QED BY <1>3, <3>1, <4>1 DEF Pass
    <3> QED BY <1>3, <1>11, <3>2 DEF Look, Unchanged
  <2> QED BY <2>4, <2>5
<1>12. CASE File
  <2>1. Current \in pass.acts /\ pass.acts \subseteq Copy
    BY <1>12, <1>3, CurrentIs DEF File, Busy, Pass
  <2>2. KeyOf(Current.id, Current.row) \in Key
    BY <2>1, KeyOfType DEF Copy
  <2>3. pass' \in Pass
    BY <1>12, <2>1, HandledType DEF File
  <2>4. pass'.pc \in {"look", "file"} => pass'.acts # {}
    BY <1>3, <1>12 DEF File, Handled, Pass
  <2> QED BY <1>3, <1>12, <2>2, <2>3, <2>4 DEF File, Unchanged
<1>13. CASE EndBatch
  <2>1. pass' \in Pass /\ pass'.pc \in {"idle", "write"}
    <3>1. pass.next \in Cursor
      BY <1>3 DEF Pass
    <3>2. CASE pass.next = pass.cursor
      <4>1. pass' = Idle
        BY <1>13, <3>2 DEF EndBatch
      <4> QED BY <4>1, IdleType DEF Idle
    <3>3. CASE pass.next # pass.cursor
      BY <1>13, <3>1, <3>3, WriteType DEF EndBatch
    <3> QED BY <3>2, <3>3
  <2> QED BY <1>3, <1>13, <2>1 DEF EndBatch, Unchanged
<1> QED BY <1>4, <1>5, <1>6, <1>7, <1>8, <1>9, <1>10, <1>11, <1>12, <1>13 DEF PlanActivity

LEMMA TypeNext == TypeInv /\ [Next]_vars => TypeInv'
<1> SUFFICES ASSUME TypeInv, [Next]_vars PROVE TypeInv'
  OBVIOUS
<1>1. CASE Advance
  <2>1. now' \in Nat
    BY <1>1 DEF Advance, TypeInv, TypeOK
  <2> QED BY <1>1, <2>1 DEF Advance, TypeInv, TypeOK, Busy, Bounded
<1>2. CASE AnnounceFails
  <2>1. pass' \in Pass
    BY <1>2, PassType DEF AnnounceFails, TypeInv
  <2>2. pass'.pc = "end"
    BY <1>2 DEF AnnounceFails, TypeInv, TypeOK, Pass
  <2> QED BY <1>2, <2>1, <2>2 DEF AnnounceFails, Fault, Unchanged, TypeInv, TypeOK, Busy, Bounded
<1>3. CASE Abandon
  BY <1>3, IdleType DEF Abandon, Idle, Fault, Unchanged, TypeInv, TypeOK, Busy, Bounded
<1>4. CASE UNCHANGED vars
  BY <1>4 DEF vars, TypeInv, TypeOK, Busy, Bounded
<1> QED BY <1>1, <1>2, <1>3, <1>4, FamilyType, PlanType DEF Next

(* The log, the cursor and the pass hold what their declarations say. *)
THEOREM TypeCorrect == Spec => []TypeOK
<1>1. Spec => []TypeInv
  BY TypeInit, TypeNext, PTL DEF Spec
<1>2. TypeInv => TypeOK
  BY DEF TypeInv
<1> QED BY <1>1, <1>2, PTL

-----------------------------------------------------------------------------
(* The inductive invariant.                                                *)
(*                                                                         *)
(* The log: ids, times and serials grow together, a row is of a calendar   *)
(* that exists, is owed only to a listening member, and has its serial for *)
(* a name unless it is the one from before the names.                      *)
RowOK(i) ==
    /\ log[i].cal \in DOMAIN calendars
    /\ 1 <= log[i].serial /\ log[i].serial <= serial
    /\ log[i].at <= now
    /\ \/ log[i].uid = log[i].serial
       \/ log[i].uid = 0 /\ log[i].serial = 1 /\ ~log[i].owed
    /\ log[i].owed => Concerns(log[i])

LogOK ==
    /\ \A i \in DOMAIN log : RowOK(i)
    /\ \A i, j \in DOMAIN log :
          i < j => log[i].serial < log[j].serial /\ log[i].at <= log[j].at
    /\ \A c \in DOMAIN calendars : calendars[c].joined <= now

(* Every cursor there is, stored, read or about to be written, even one of *)
(* which only some keys are written, names a change up to which nothing is *)
(* pending.                                                                *)
SoundUpTo(s) ==
    \A i \in Pending : log[i].serial <= s => log[i].serial \in overlooked

CursorsOK ==
    \A s \in {meta.cursor.uid, pass.cursor.uid, pass.next.uid} :
        s <= serial /\ SoundUpTo(s)

(* Until it lists the log, a pass knows the calendar of every change that  *)
(* is older than itself; and a position it has settled on has no pending   *)
(* change that old behind it.                                              *)
Settling == pass.pc = "list" \/ (pass.pc = "write" /\ pass.then = "list")

Reading == pass.pc \in {"cursor", "newest", "check", "reset"} \/ Settling

ScopeOK ==
    /\ Reading => pass.since <= serial
    /\ Reading => \A i \in DOMAIN log :
                      log[i].cal \notin pass.cals => log[i].serial > pass.since
    /\ Settling => \A i \in Pending :
                      i <= pass.cursor.id /\ log[i].serial <= pass.since
                          => log[i].serial \in overlooked

(* Afterwards it has a copy of each pending change up to the last it will  *)
(* handle, and does not pass over one it owes.                             *)
IsCopyOf(a, i) == i \in DOMAIN log /\ a.id = i /\ a.row.serial = log[i].serial

CopyOK(a) ==
    /\ a.row.serial <= serial
    /\ a.row.uid = a.row.serial \/ a.row.uid = 0
    /\ \A i \in DOMAIN log : IsCopyOf(a, i) =>
          /\ a.row.cal = log[i].cal /\ a.row.at = log[i].at
          /\ a.row.uid = log[i].uid /\ a.row.mine = log[i].mine

Ready(a) ==
    \A i \in Pending : log[i].serial <= a.row.serial =>
        \/ log[i].serial \in overlooked
        \/ \E b \in pass.acts : IsCopyOf(b, i) /\ i <= a.id

ActsOK ==
    /\ \A a \in pass.acts : CopyOK(a) /\ Ready(a)
    /\ \A a, b \in pass.acts : a.id = b.id => a = b
    /\ (pass.pc = "file" /\ ~pass.tell) =>
           \A i \in DOMAIN log : IsCopyOf(Current, i) => ~log[i].owed

Sound == LogOK /\ CursorsOK /\ ScopeOK /\ ActsOK

(* What no step does: revive a change, or owe one again.                   *)
RowsKept ==
    \A i \in DOMAIN log' :
        \/ log'[i].serial > serial
        \/ /\ i \in DOMAIN log
           /\ log'[i].cal = log[i].cal /\ log'[i].at = log[i].at
           /\ log'[i].uid = log[i].uid /\ log'[i].mine = log[i].mine
           /\ log'[i].serial = log[i].serial
           /\ log'[i].owed => log[i].owed

PendingKept ==
    /\ \A i \in Pending' : log'[i].serial > serial \/ i \in Pending
    /\ serial' \in Nat /\ serial <= serial'

-----------------------------------------------------------------------------
(* The log. *)

LEMMA LogInit == Init => LogOK
<1> SUFFICES ASSUME Init PROVE LogOK
  OBVIOUS
<1>1. now = 1 /\ \A c \in DOMAIN calendars : calendars[c].joined <= now
  BY DEF Init
<1>2. CASE log = [i \in {} |-> 0]
  BY <1>1, <1>2 DEF LogOK
<1>3. ASSUME NEW c \in Founding, serial = 1,
             log = [i \in {1} |-> [cal |-> c, at |-> 1, uid |-> 0, mine |-> FALSE,
                                   serial |-> 1, owed |-> FALSE]]
      PROVE  LogOK
  <2>1. DOMAIN log = {1} /\ RowOK(1)
    BY <1>1, <1>3 DEF RowOK, Init
  <2> QED BY <1>1, <2>1 DEF LogOK
<1> QED BY <1>2, <1>3 DEF Init

(* Losing rows, or what is owed of them, leaves the rest as it was. *)
LEMMA DisownKeeps ==
    ASSUME TypeInv, LogOK, NEW c \in DOMAIN calendars, Disown(c),
           UNCHANGED <<now, serial, outbox>>,
           DOMAIN calendars' = DOMAIN calendars,
           \A k \in DOMAIN calendars : k # c => calendars'[k] = calendars[k],
           calendars'[c].joined <= now
    PROVE  LogOK' /\ RowsKept /\ PendingKept
<1>1. /\ DOMAIN log' = DOMAIN log
      /\ \A i \in DOMAIN log : log[i] \in Change
      /\ \A i \in DOMAIN log : log'[i] = IF log[i].cal = c
                                         THEN [log[i] EXCEPT !.owed = FALSE] ELSE log[i]
  BY LogFacts DEF Disown, TypeInv
<1>2. \A i \in DOMAIN log :
          /\ log'[i].cal = log[i].cal /\ log'[i].at = log[i].at
          /\ log'[i].uid = log[i].uid /\ log'[i].mine = log[i].mine
          /\ log'[i].serial = log[i].serial
          /\ log'[i].owed => log[i].owed /\ log[i].cal # c
  BY <1>1 DEF Change
<1>3. ASSUME NEW i \in DOMAIN log PROVE RowOK(i)'
  <2>1. RowOK(i)
    BY DEF LogOK
  <2>2. log'[i].owed => Concerns(log[i])'
    BY <1>2, <2>1 DEF RowOK, Concerns
  <2> QED BY <1>2, <2>1, <2>2 DEF RowOK
<1>4. LogOK'
  BY <1>1, <1>2, <1>3 DEF LogOK
<1>5. RowsKept
  BY <1>1, <1>2 DEF RowsKept
<1>6. PendingKept
  <2>1. serial \in Nat
    BY DEF TypeInv, TypeOK
  <2> QED BY <1>1, <1>2, <2>1 DEF PendingKept, Pending, KeyOf
<1> QED BY <1>4, <1>5, <1>6

LEMMA FamilyKeeps ==
    ASSUME TypeInv, LogOK, Family
    PROVE  LogOK' /\ RowsKept /\ PendingKept
<1>1. now' = now /\ now \in Nat /\ serial \in Nat
  <2>1. Edit
    BY DEF Family, CreateCalendar, DeleteCalendar, Join, Leave, SetMuted, LogChange
  <2> QED BY <2>1 DEF Edit, TypeInv, TypeOK
<1>2. \A i \in DOMAIN log : log[i] \in Change /\ RowOK(i) /\ i \in Nat
  BY LogFacts DEF LogOK, TypeInv
<1>3. \A c \in DOMAIN calendars : calendars[c] \in Calendar /\ calendars[c].joined <= now
  BY DEF LogOK, TypeInv, TypeOK
<1>4. CASE CreateCalendar
  <2>1. PICK c \in CalendarIds, joined \in {0, now} :
            IsNextId(calendars, c)
            /\ calendars' = Insert(calendars, c, [joined |-> joined, muted |-> FALSE])
    BY <1>4 DEF CreateCalendar
  <2>2. /\ \A k \in DOMAIN calendars : k # c /\ k \in DOMAIN calendars' /\ calendars'[k] = calendars[k]
        /\ \A k \in DOMAIN calendars' : calendars'[k].joined <= now
    BY <2>1, <1>1, <1>3, CursorConstants DEF Insert, IsNextId, Calendar, TypeInv, TypeOK
  <2>3. log' = log /\ outbox' = outbox /\ serial' = serial
    BY <1>4 DEF CreateCalendar
  <2>4. ASSUME NEW i \in DOMAIN log' PROVE RowOK(i)'
    <3>1. i \in DOMAIN log /\ log'[i] = log[i] /\ RowOK(i)
      BY <1>2, <2>3
    <3>2. log'[i].owed => Concerns(log[i])'
      BY <2>2, <3>1 DEF RowOK, Concerns
    <3> QED BY <1>1, <2>2, <2>3, <3>1, <3>2 DEF RowOK
  <2>5. LogOK'
    BY <1>1, <2>2, <2>3, <2>4 DEF LogOK
  <2> QED BY <1>1, <2>3, <2>5 DEF RowsKept, PendingKept, Pending, KeyOf
<1>5. ASSUME NEW c \in DOMAIN calendars, DeleteCalendar(c)
      PROVE  LogOK' /\ RowsKept /\ PendingKept
  <2> DEFINE gone == {i \in DOMAIN log : log[i].cal = c}
  <2>1. /\ calendars' = Without(calendars, {c})
        /\ log' = Without(log, gone)
        /\ serial' = serial
    BY <1>5 DEF DeleteCalendar
  <2>2. PICK unsent \in SUBSET {KeyOf(i, log[i]) : i \in gone} : outbox' = outbox \ unsent
    BY <1>5 DEF DeleteCalendar
  <2>3. /\ DOMAIN calendars' = DOMAIN calendars \ {c}
        /\ \A k \in DOMAIN calendars' : calendars'[k] = calendars[k]
    BY <2>1 DEF Without
  <2>4. /\ DOMAIN log' = DOMAIN log \ gone
        /\ \A i \in DOMAIN log' : i \in DOMAIN log /\ log'[i] = log[i] /\ log[i].cal # c
    BY <2>1 DEF Without
  <2>5. ASSUME NEW i \in DOMAIN log' PROVE RowOK(i)'
    <3>1. i \in DOMAIN log /\ log'[i] = log[i] /\ log[i].cal # c /\ RowOK(i)
      BY <1>2, <2>4
    <3>2. log'[i].owed => Concerns(log[i])'
      BY <2>3, <3>1 DEF RowOK, Concerns
    <3> QED BY <1>1, <2>1, <2>3, <3>1, <3>2 DEF RowOK
  <2>6. LogOK'
    BY <1>1, <1>3, <2>3, <2>4, <2>5 DEF LogOK
  <2>7. RowsKept
    BY <2>4 DEF RowsKept
  <2>8. ASSUME NEW i \in Pending' PROVE i \in Pending
    <3>1. i \in DOMAIN log' /\ log'[i] = log[i] /\ i \in DOMAIN log /\ i \notin gone
      BY <2>4 DEF Pending
    <3>2. KeyOf(i, log[i]) \notin outbox'
      BY <3>1 DEF Pending, KeyOf
    <3>3. \A j \in gone : KeyOf(j, log[j]) # KeyOf(i, log[i])
      BY <3>1 DEF KeyOf
    <3>4. KeyOf(i, log[i]) \notin unsent
      BY <3>3
    <3>5. KeyOf(i, log[i]) \notin outbox
      BY <2>2, <3>2, <3>4
    <3> QED BY <1>1, <3>1, <3>5 DEF Pending
  <2> QED BY <1>1, <2>1, <2>6, <2>7, <2>8 DEF PendingKept
<1>6. ASSUME NEW c \in DOMAIN calendars, Join(c)
      PROVE  LogOK' /\ RowsKept /\ PendingKept
  <2>1. /\ calendars[c].joined = 0
        /\ calendars' = [calendars EXCEPT ![c] = [joined |-> now, muted |-> FALSE]]
        /\ log' = log /\ outbox' = outbox /\ serial' = serial
    BY <1>6 DEF Join
  <2>2. /\ DOMAIN calendars' = DOMAIN calendars
        /\ \A k \in DOMAIN calendars : k # c => calendars'[k] = calendars[k]
        /\ calendars'[c].joined = now
    BY <2>1, <1>1 DEF TypeInv, TypeOK
  <2>3. ASSUME NEW i \in DOMAIN log' PROVE RowOK(i)'
    <3>1. i \in DOMAIN log /\ log'[i] = log[i] /\ RowOK(i)
      BY <1>2, <2>1
    <3>2. log[i].cal = c => ~log[i].owed
      BY <2>1, <3>1 DEF RowOK, Concerns
    <3>3. log[i].cal # c => (log'[i].owed => Concerns(log[i])')
      BY <2>2, <3>1 DEF RowOK, Concerns
    <3> QED BY <1>1, <2>1, <2>2, <3>1, <3>2, <3>3 DEF RowOK
  <2>4. LogOK'
    BY <1>1, <1>3, <2>1, <2>2, <2>3 DEF LogOK
  <2> QED BY <1>1, <2>1, <2>4 DEF RowsKept, PendingKept, Pending, KeyOf
<1>7. ASSUME NEW c \in DOMAIN calendars, Leave(c)
      PROVE  LogOK' /\ RowsKept /\ PendingKept
  <2>1. /\ Disown(c) /\ outbox' = outbox /\ serial' = serial
        /\ calendars' = [calendars EXCEPT ![c] = [joined |-> 0, muted |-> FALSE]]
    BY <1>7 DEF Leave
  <2> QED BY <1>1, <2>1, DisownKeeps DEF TypeInv, TypeOK
<1>8. ASSUME NEW c \in DOMAIN calendars, NEW b \in BOOLEAN, SetMuted(c, b)
      PROVE  LogOK' /\ RowsKept /\ PendingKept
  <2>1. /\ Disown(c) /\ outbox' = outbox /\ serial' = serial
        /\ calendars' = [calendars EXCEPT ![c] = [calendars[c] EXCEPT !.muted = b]]
    BY <1>8 DEF SetMuted
  <2>2. [calendars[c] EXCEPT !.muted = b].joined = calendars[c].joined
    BY <1>3 DEF Calendar
  <2>3. /\ DOMAIN calendars' = DOMAIN calendars
        /\ \A k \in DOMAIN calendars : k # c => calendars'[k] = calendars[k]
        /\ calendars'[c].joined <= now
    BY <1>3, <2>1, <2>2 DEF TypeInv, TypeOK
  <2> QED BY <1>1, <2>1, <2>3, DisownKeeps
<1>9. ASSUME NEW c \in DOMAIN calendars, NEW b \in BOOLEAN, LogChange(c, b)
      PROVE  LogOK' /\ RowsKept /\ PendingKept
  <2> DEFINE owed == ~b /\ calendars[c].joined # 0 /\ ~calendars[c].muted
             row == [cal |-> c, at |-> now, uid |-> serial', mine |-> b, serial |-> serial',
                     owed |-> owed]
  <2>1. serial' = serial + 1 /\ calendars' = calendars /\ outbox' = outbox
    BY <1>9 DEF LogChange
  <2>2. PICK n \in LogIds : IsNextId(log, n) /\ log' = Insert(log, n, row)
    BY <1>9 DEF LogChange
  <2>3. /\ DOMAIN log' = DOMAIN log \cup {n} /\ log'[n] = row /\ n \notin DOMAIN log /\ n \in Nat
        /\ \A i \in DOMAIN log : log'[i] = log[i] /\ i < n
    <3>1. \A i \in DOMAIN log : i < n /\ i # n
      BY <1>2, <2>2, CursorConstants DEF IsNextId
    <3>2. DOMAIN log' = DOMAIN log \cup {n} /\ log'[n] = row
      BY <2>2 DEF Insert
    <3>3. \A i \in DOMAIN log : log'[i] = log[i]
      BY <2>2, <3>1 DEF Insert
    <3> QED BY <3>1, <3>2, <3>3, CursorConstants
  <2>4. ASSUME NEW i \in DOMAIN log' PROVE RowOK(i)'
    <3>1. CASE i # n
      <4>1. i \in DOMAIN log /\ log'[i] = log[i] /\ log[i] \in Change /\ RowOK(i)
        BY <1>2, <2>3, <3>1
      <4> QED BY <1>1, <2>1, <4>1 DEF RowOK, Concerns, Change
    <3>2. CASE i = n
      <4>1. log'[n].owed => Concerns(log[n])'
        <5>1. /\ log'[n].cal = c /\ log'[n].mine = b /\ log'[n].at = now
              /\ log'[n].owed = owed
          <6> HIDE DEF owed
          <6> QED BY <2>3
        <5> QED BY <1>3, <2>1, <5>1 DEF Concerns
      <4> QED BY <1>1, <2>1, <2>3, <3>2, <4>1 DEF RowOK, Concerns
    <3> QED BY <3>1, <3>2
  <2>5. ASSUME NEW i \in DOMAIN log', NEW j \in DOMAIN log', i < j
        PROVE  log'[i].serial < log'[j].serial /\ log'[i].at <= log'[j].at
    <3>1. i \in DOMAIN log /\ log'[i] = log[i] /\ log[i] \in Change /\ RowOK(i)
      BY <1>2, <2>3, <2>5
    <3>2. CASE j # n
      BY <2>3, <2>5, <3>1, <3>2 DEF LogOK
    <3>3. CASE j = n
      BY <1>1, <2>1, <2>3, <3>1, <3>3 DEF RowOK, Change
    <3> QED BY <3>2, <3>3
  <2>6. LogOK'
    BY <1>1, <1>3, <2>1, <2>4, <2>5 DEF LogOK
  <2>7. RowsKept
    BY <1>1, <2>1, <2>3 DEF RowsKept
  <2>8. \A i \in Pending' : log'[i].serial > serial \/ i \in Pending
    <3>1. log'[n].serial > serial
      BY <1>1, <2>1, <2>3
    <3>2. \A i \in DOMAIN log : i \in Pending' => i \in Pending
      BY <1>1, <2>1, <2>3 DEF Pending, KeyOf
    <3>3. Pending' \subseteq DOMAIN log \cup {n}
      BY <2>3 DEF Pending
    <3> QED BY <3>1, <3>2, <3>3
  <2> QED BY <1>1, <2>1, <2>6, <2>7, <2>8 DEF PendingKept
<1> QED BY <1>4, <1>5, <1>6, <1>7, <1>8, <1>9 DEF Family

-----------------------------------------------------------------------------
(* The cursors and the pass, while the tables change around them. *)

(* What no pending change was behind, none is behind later. *)
LEMMA SoundStays ==
    ASSUME TypeInv, TypeInv', LogOK', RowsKept, PendingKept, CursorsOK,
           overlooked \subseteq overlooked',
           NEW s \in {meta.cursor.uid, pass.cursor.uid, pass.next.uid, 0}
    PROVE  /\ s <= serial'
           /\ \A i \in Pending' : log'[i].serial <= s => log'[i].serial \in overlooked'
<1>1. s \in Nat /\ s <= serial /\ serial \in Nat /\ serial' \in Nat
  BY DEF TypeInv, TypeOK, Pass, Cursor, CursorsOK, PendingKept
<1>2. ASSUME NEW i \in Pending', log'[i].serial <= s PROVE log'[i].serial \in overlooked'
  <2>1. i \in DOMAIN log' /\ RowOK(i)'
    BY DEF Pending, LogOK
  <2>2. 1 <= log'[i].serial /\ log'[i].serial <= serial' /\ log'[i].serial \in Nat
    BY <2>1 DEF RowOK, TypeInv, TypeOK, Change
  <2>3. CASE log'[i].serial > serial
    BY <1>1, <1>2, <2>2, <2>3
  <2>4. CASE ~(log'[i].serial > serial)
    <3>1. i \in Pending /\ log'[i].serial = log[i].serial
      BY <2>1, <2>4 DEF PendingKept, RowsKept
    <3>2. s # 0
      BY <1>1, <1>2, <2>2
    <3>3. SoundUpTo(s)
      BY <3>2 DEF CursorsOK
    <3> QED BY <1>2, <3>1, <3>3 DEF SoundUpTo
  <2> QED BY <2>3, <2>4
<1> QED BY <1>1, <1>2 DEF PendingKept

LEMMA CursorsStay ==
    ASSUME TypeInv, TypeInv', LogOK', RowsKept, PendingKept, CursorsOK,
           overlooked \subseteq overlooked',
           {meta'.cursor.uid, pass'.cursor.uid, pass'.next.uid}
               \subseteq {meta.cursor.uid, pass.cursor.uid, pass.next.uid, 0}
    PROVE  CursorsOK'
BY SoundStays DEF CursorsOK, SoundUpTo

(* So do the pass's view of the log and its copies. *)
LEMMA ScopeStays ==
    ASSUME TypeInv, TypeInv', RowsKept, PendingKept, ScopeOK,
           pass' = pass, overlooked' = overlooked
    PROVE  ScopeOK'
<1>1. serial \in Nat /\ serial' \in Nat /\ serial <= serial' /\ pass.since \in Nat
  BY DEF PendingKept, TypeInv, TypeOK, Pass
<1>2. \A i \in DOMAIN log' : log'[i].serial \in Nat
  BY DEF TypeInv, TypeOK, Change
<1>3. Reading' = Reading /\ Settling' = Settling
  BY DEF Reading, Settling
<1>4. Reading' => pass'.since <= serial'
  BY <1>1, <1>3 DEF ScopeOK
<1>5. ASSUME Reading', NEW i \in DOMAIN log', log'[i].cal \notin pass'.cals
      PROVE  log'[i].serial > pass'.since
  <2>1. CASE log'[i].serial > serial
    BY <1>1, <1>2, <1>3, <1>5, <2>1 DEF ScopeOK
  <2>2. CASE ~(log'[i].serial > serial)
    BY <1>3, <1>5, <2>2 DEF ScopeOK, RowsKept
  <2> QED BY <2>1, <2>2
<1>6. ASSUME Settling', NEW i \in Pending', i <= pass'.cursor.id, log'[i].serial <= pass'.since
      PROVE  log'[i].serial \in overlooked'
  <2>1. i \in DOMAIN log'
    BY DEF Pending
  <2>2. Reading
    BY <1>3, <1>6 DEF Reading
  <2>3. ~(log'[i].serial > serial)
    BY <1>1, <1>2, <1>6, <2>1, <2>2 DEF ScopeOK
  <2>4. i \in Pending /\ log'[i].serial = log[i].serial
    BY <2>1, <2>3 DEF PendingKept, RowsKept
  <2> QED BY <1>3, <1>6, <2>4 DEF ScopeOK
<1> QED BY <1>4, <1>5, <1>6 DEF ScopeOK

LEMMA CopyStays ==
    ASSUME TypeInv, TypeInv', RowsKept, PendingKept, NEW a \in Copy, CopyOK(a)
    PROVE  /\ CopyOK(a)'
           /\ \A i \in DOMAIN log' : IsCopyOf(a, i)' =>
                 IsCopyOf(a, i) /\ (log'[i].owed => log[i].owed)
           /\ \A i \in Pending' : log'[i].serial <= a.row.serial =>
                 i \in Pending /\ log'[i].serial = log[i].serial
<1>1. serial \in Nat /\ serial' \in Nat /\ serial <= serial'
      /\ a.row.serial \in Nat /\ a.row.serial <= serial
  BY DEF PendingKept, TypeInv, TypeOK, CopyOK, Copy, Change
<1>2. \A i \in DOMAIN log' : log'[i].serial \in Nat
  BY DEF TypeInv, TypeOK, Change
<1>3. ASSUME NEW i \in DOMAIN log', log'[i].serial <= a.row.serial
      PROVE  /\ i \in DOMAIN log
             /\ log'[i].cal = log[i].cal /\ log'[i].at = log[i].at
             /\ log'[i].uid = log[i].uid /\ log'[i].mine = log[i].mine
             /\ log'[i].serial = log[i].serial
             /\ log'[i].owed => log[i].owed
  BY <1>1, <1>2, <1>3 DEF RowsKept
<1>4. \A i \in DOMAIN log' : IsCopyOf(a, i)' =>
                 IsCopyOf(a, i) /\ (log'[i].owed => log[i].owed)
  BY <1>1, <1>2, <1>3 DEF IsCopyOf
<1>5. CopyOK(a)'
  <2>1. ASSUME NEW i \in DOMAIN log', IsCopyOf(a, i)'
        PROVE  /\ a.row.cal = log'[i].cal /\ a.row.at = log'[i].at
               /\ a.row.uid = log'[i].uid /\ a.row.mine = log'[i].mine
    <3>1. IsCopyOf(a, i) /\ log'[i].serial <= a.row.serial
      BY <1>1, <1>4, <2>1 DEF IsCopyOf
    <3> QED BY <1>3, <3>1 DEF CopyOK, IsCopyOf
  <2> QED BY <1>1, <2>1 DEF CopyOK
<1>6. ASSUME NEW i \in Pending', log'[i].serial <= a.row.serial
      PROVE  i \in Pending /\ log'[i].serial = log[i].serial
  <2>1. i \in DOMAIN log'
    BY DEF Pending
  <2>2. ~(log'[i].serial > serial)
    BY <1>1, <1>2, <1>6, <2>1
  <2> QED BY <1>3, <1>6, <2>1, <2>2 DEF PendingKept
<1> QED BY <1>4, <1>5, <1>6

LEMMA CopiesStay ==
    ASSUME TypeInv, TypeInv', RowsKept, PendingKept, ActsOK, overlooked \subseteq overlooked',
           NEW a \in pass.acts
    PROVE  /\ CopyOK(a)'
           /\ \A i \in DOMAIN log' : IsCopyOf(a, i)' =>
                 IsCopyOf(a, i) /\ (log'[i].owed => log[i].owed)
           /\ \A i \in Pending' : log'[i].serial <= a.row.serial =>
                 \/ log'[i].serial \in overlooked'
                 \/ \E b \in pass.acts : IsCopyOf(b, i)' /\ i <= a.id
<1>1. a \in Copy /\ CopyOK(a) /\ Ready(a)
  BY DEF TypeInv, TypeOK, Pass, ActsOK
<1>2. ASSUME NEW i \in Pending', log'[i].serial <= a.row.serial
      PROVE  \/ log'[i].serial \in overlooked'
             \/ \E b \in pass.acts : IsCopyOf(b, i)' /\ i <= a.id
  <2>1. i \in Pending /\ log'[i].serial = log[i].serial /\ i \in DOMAIN log'
    BY <1>1, <1>2, CopyStays DEF Pending
  <2>2. \/ log[i].serial \in overlooked
        \/ \E b \in pass.acts : IsCopyOf(b, i) /\ i <= a.id
    BY <1>1, <1>2, <2>1 DEF Ready
  <2> QED BY <2>1, <2>2 DEF IsCopyOf
<1> QED BY <1>1, <1>2, CopyStays

LEMMA ActsStay ==
    ASSUME TypeInv, TypeInv', RowsKept, PendingKept, ActsOK,
           pass' = pass, overlooked' = overlooked
    PROVE  ActsOK'
<1>1. \A a \in pass'.acts : CopyOK(a)' /\ Ready(a)'
  BY CopiesStay DEF Ready
<1>2. \A a, b \in pass'.acts : a.id = b.id => a = b
  BY DEF ActsOK
<1>3. ASSUME pass'.pc = "file", ~pass'.tell, NEW i \in DOMAIN log', IsCopyOf(Current, i)'
      PROVE  ~log'[i].owed
  <2>1. Current' = Current
    BY DEF Current
  <2>2. Current \in pass.acts
    BY <1>3, CurrentIs DEF TypeInv, Busy
  <2>3. IsCopyOf(Current, i) /\ (log'[i].owed => log[i].owed)
    BY <1>3, <2>1, <2>2, CopiesStay DEF IsCopyOf
  <2> QED BY <1>3, <2>3 DEF ActsOK, IsCopyOf
<1> QED BY <1>1, <1>2, <1>3 DEF ActsOK

(* The family, and the time that passes, disturb nothing. *)
LEMMA FamilySound ==
    ASSUME TypeInv, TypeInv', Sound, Family \/ Advance
    PROVE  Sound'
<1>1. UNCHANGED <<meta, pass, overlooked>>
  <2>1. Edit \/ Advance
    BY DEF Family, CreateCalendar, DeleteCalendar, Join, Leave, SetMuted, LogChange
  <2> QED BY <2>1 DEF Edit, Advance
<1>2. LogOK' /\ RowsKept /\ PendingKept
  <2>1. CASE Family
    BY <2>1, FamilyKeeps DEF Sound
  <2>2. CASE Advance
    <3>1. UNCHANGED <<calendars, log, outbox, serial>> /\ now' = now + 1 /\ now \in Nat
          /\ serial \in Nat
      BY <2>2 DEF Advance, TypeInv, TypeOK
    <3>2. \A i \in DOMAIN log : log[i].at \in Nat
      BY DEF TypeInv, TypeOK, Change
    <3>3. \A c \in DOMAIN calendars : calendars[c].joined \in Nat
      BY DEF TypeInv, TypeOK, Calendar
    <3>4. \A i \in DOMAIN log' : RowOK(i)'
      BY <3>1, <3>2 DEF Sound, LogOK, RowOK, Concerns
    <3>5. LogOK'
      BY <3>1, <3>3, <3>4 DEF Sound, LogOK
    <3>6. RowsKept
      BY <3>1 DEF RowsKept
    <3>7. PendingKept
      <4>1. MaxLateness \in Nat
        BY CursorConstants
      <4>2. Pending' \subseteq Pending
        BY <3>1, <3>2, <4>1 DEF Pending, KeyOf
      <4> QED BY <3>1, <4>2 DEF PendingKept
    <3> QED BY <3>5, <3>6, <3>7
  <2> QED BY <2>1, <2>2
<1>3. CursorsOK'
  BY <1>1, <1>2, CursorsStay DEF Sound
<1> QED BY <1>1, <1>2, <1>3, ScopeStays, ActsStay DEF Sound

-----------------------------------------------------------------------------
(* The statements of a pass. *)

LEMMA QuietKeeps ==
    ASSUME TypeInv, LogOK, UNCHANGED <<now, calendars, log, serial>>, outbox \subseteq outbox'
    PROVE  LogOK' /\ RowsKept /\ PendingKept
<1>1. LogOK'
  BY DEF LogOK, RowOK, Concerns
<1>2. RowsKept
  BY DEF RowsKept
<1>3. serial \in Nat /\ Pending' \subseteq Pending
  BY DEF TypeInv, TypeOK, Pending, KeyOf
<1> QED BY <1>1, <1>2, <1>3 DEF PendingKept

LEMMA CopiesKept ==
    ASSUME TypeInv, TypeInv', RowsKept, PendingKept, ActsOK, overlooked \subseteq overlooked',
           pass'.acts = pass.acts \/ pass'.acts = {}, pass'.pc # "file"
    PROVE  ActsOK'
<1>1. CASE pass'.acts = {}
  BY <1>1 DEF ActsOK
<1>2. CASE pass'.acts = pass.acts
  <2>1. \A a \in pass'.acts : CopyOK(a)' /\ Ready(a)'
    BY <1>2, CopiesStay DEF Ready
  <2> QED BY <1>2, <2>1 DEF ActsOK
<1> QED BY <1>1, <1>2

(* A row that agrees with a cursor that names it has nothing pending       *)
(* behind it: its name is its serial, or it is the oldest there is.        *)
LEMMA NamedIsSound ==
    ASSUME TypeInv, LogOK, NEW m \in DOMAIN log, SoundUpTo(log[m].uid)
    PROVE  \A i \in Pending : i <= m => log[i].serial \in overlooked
<1> SUFFICES ASSUME NEW i \in Pending, i <= m PROVE log[i].serial \in overlooked
  OBVIOUS
<1>1. i \in DOMAIN log /\ log[i].owed /\ RowOK(i) /\ RowOK(m) /\ i \in Nat /\ m \in Nat
      /\ log[i] \in Change /\ log[m] \in Change
  BY LogFacts DEF Pending, LogOK, TypeInv
<1>2. log[i].serial \in Nat /\ log[m].serial \in Nat
  BY <1>1 DEF Change
<1>3. i = m \/ i < m
  BY <1>1
<1>4. log[i].serial <= log[m].serial /\ (i # m => log[i].serial < log[m].serial)
  BY <1>1, <1>2, <1>3 DEF LogOK
<1>5. CASE log[m].uid = log[m].serial
  BY <1>4, <1>5 DEF SoundUpTo
<1>6. CASE log[m].serial = 1 /\ ~log[m].owed
  BY <1>1, <1>2, <1>4, <1>6 DEF RowOK
<1> QED BY <1>1, <1>5, <1>6 DEF RowOK

LEMMA ReadCalendarsSound ==
    ASSUME TypeInv, TypeInv', Sound, ReadCalendars
    PROVE  Sound'
<1>1. /\ pass'.pc = "cursor" /\ pass'.since = serial /\ pass'.cals = DOMAIN calendars
      /\ pass'.cursor = NoCursor /\ pass'.next = NoCursor /\ pass'.acts = {}
  BY DEF ReadCalendars, Idle
<1>2. UNCHANGED <<now, calendars, log, serial, meta, outbox, overlooked>>
  BY DEF ReadCalendars, Unchanged
<1>3. LogOK' /\ RowsKept /\ PendingKept
  BY <1>2, QuietKeeps DEF Sound
<1>4. CursorsOK'
  BY <1>1, <1>2, <1>3, CursorsStay DEF Sound, NoCursor
<1>5. ScopeOK'
  <2>1. \A i \in DOMAIN log' : log'[i].cal \in pass'.cals
    BY <1>1, <1>2, <1>3 DEF LogOK, RowOK
  <2>2. pass'.since <= serial'
    BY <1>1, <1>2 DEF TypeInv, TypeOK
  <2> QED BY <1>1, <2>1, <2>2 DEF ScopeOK, Settling
<1>6. ActsOK'
  BY <1>1, <1>2, <1>3, CopiesKept DEF Sound
<1> QED BY <1>3, <1>4, <1>5, <1>6 DEF Sound

LEMMA ReadCursorSound ==
    ASSUME TypeInv, TypeInv', Sound, ReadCursor
    PROVE  Sound'
<1> DEFINE pc == CASE ~meta.started            -> "newest"
                   [] meta.started /\ meta.cursor.id = 0 -> "list"
                   [] meta.started /\ meta.cursor.id # 0 ->
                        IF Vouched(meta.cursor) THEN "check" ELSE "reset"
<1>0. pass \in Pass /\ meta.started \in BOOLEAN
  BY DEF TypeInv, TypeOK
<1>1. pass' = [pass EXCEPT !.cursor = meta.cursor, !.pc = pc] /\ pass.pc = "cursor"
  BY DEF ReadCursor
<1>2. pc \in {"newest", "list", "check", "reset"} /\ (pc = "list" => meta.cursor.id = 0)
  BY <1>0
<1> HIDE DEF pc
<1>3. /\ pass'.pc = pc /\ pass'.cursor = meta.cursor /\ pass'.next = pass.next
      /\ pass'.acts = pass.acts /\ pass'.since = pass.since /\ pass'.cals = pass.cals
  BY <1>0, <1>1 DEF Pass
<1>4. UNCHANGED <<now, calendars, log, serial, meta, outbox, overlooked>>
  BY DEF ReadCursor, Unchanged
<1>5. LogOK' /\ RowsKept /\ PendingKept
  BY <1>4, QuietKeeps DEF Sound
<1>6. CursorsOK'
  BY <1>3, <1>4, <1>5, CursorsStay DEF Sound
<1>7. ScopeOK'
  <2>1. Reading
    BY <1>1 DEF Reading
  <2>2. Settling' => pass'.cursor.id = 0
    BY <1>2, <1>3 DEF Settling
  <2>3. \A i \in Pending' : ~(i <= 0)
    BY <1>4, LogFacts DEF TypeInv, Pending
  <2> QED BY <1>3, <1>4, <2>1, <2>2, <2>3 DEF Sound, ScopeOK
<1>8. ActsOK'
  BY <1>2, <1>3, <1>4, <1>5, CopiesKept DEF Sound
<1> QED BY <1>5, <1>6, <1>7, <1>8 DEF Sound

LEMMA StartFromPresentSound ==
    ASSUME TypeInv, TypeInv', Sound, StartFromPresent
    PROVE  Sound'
<1> DEFINE cursor == CursorAtLast(Known(pass.cals))
<1>1. /\ Write(cursor, "idle")
      /\ log' = [i \in DOMAIN log |-> [log[i] EXCEPT !.owed = FALSE]]
      /\ UNCHANGED <<now, calendars, meta, outbox, serial, overlooked>>
  BY DEF StartFromPresent
<1>2. cursor \in Cursor /\ (cursor = NoCursor \/ \E i \in DOMAIN log : cursor = CursorAt(i, log[i]))
  BY CursorAtLastIs DEF Known
<1>3. /\ pass'.pc = "write" /\ pass'.then = "idle" /\ pass'.cursor = cursor
      /\ pass'.next = NoCursor /\ pass'.acts = {}
  BY <1>1, <1>2, WriteType DEF TypeInv
<1>4. /\ DOMAIN log' = DOMAIN log
      /\ \A i \in DOMAIN log :
            /\ log'[i].cal = log[i].cal /\ log'[i].at = log[i].at
            /\ log'[i].uid = log[i].uid /\ log'[i].mine = log[i].mine
            /\ log'[i].serial = log[i].serial /\ ~log'[i].owed
  BY <1>1, LogFacts DEF TypeInv, Change
<1>5. LogOK'
  <2>1. ASSUME NEW i \in DOMAIN log' PROVE RowOK(i)'
    BY <1>1, <1>4 DEF Sound, LogOK, RowOK
  <2> QED BY <1>1, <1>4, <2>1 DEF Sound, LogOK
<1>6. Pending' = {}
  BY <1>4 DEF Pending
<1>7. CursorsOK'
  <2>1. meta'.cursor.uid <= serial' /\ serial \in Nat
    BY <1>1 DEF Sound, CursorsOK, TypeInv, TypeOK
  <2>2. pass'.next.uid <= serial'
    BY <1>1, <1>3, <2>1 DEF NoCursor
  <2>3. pass'.cursor.uid <= serial'
    <3>1. CASE cursor = NoCursor
      BY <1>1, <1>3, <2>1, <3>1 DEF NoCursor
    <3>2. ASSUME NEW i \in DOMAIN log, cursor = CursorAt(i, log[i])
          PROVE  pass'.cursor.uid <= serial'
      <4>1. RowOK(i) /\ log[i] \in Change /\ pass'.cursor.uid = log[i].uid
        BY <1>3, <3>2, LogFacts DEF Sound, LogOK, TypeInv, CursorAt
      <4> QED BY <1>1, <2>1, <4>1 DEF RowOK, Change
    <3> QED BY <1>2, <3>1, <3>2
  <2> QED BY <1>6, <2>1, <2>2, <2>3 DEF CursorsOK, SoundUpTo
<1>8. ScopeOK'
  BY <1>3 DEF ScopeOK, Reading, Settling
<1>9. ActsOK'
  BY <1>3 DEF ActsOK
<1> QED BY <1>5, <1>7, <1>8, <1>9 DEF Sound

LEMMA CheckCursorSound ==
    ASSUME TypeInv, TypeInv', Sound, CheckCursor
    PROVE  Sound'
<1> DEFINE id == pass.cursor.id
           ok == id \in Known(pass.cals) /\ Names(pass.cursor, id)
           pc == IF ok THEN "list" ELSE "reset"
<1>0. pass \in Pass
  BY DEF TypeInv, TypeOK
<1>1. pass' = [pass EXCEPT !.pc = pc] /\ pass.pc = "check"
  BY DEF CheckCursor
<1>2. pc \in {"list", "reset"} /\ (pc = "list" => ok)
  OBVIOUS
<1> HIDE DEF pc
<1>3. /\ pass'.pc = pc /\ pass'.cursor = pass.cursor /\ pass'.next = pass.next
      /\ pass'.acts = pass.acts /\ pass'.since = pass.since /\ pass'.cals = pass.cals
  BY <1>0, <1>1 DEF Pass
<1>4. UNCHANGED <<now, calendars, log, serial, meta, outbox, overlooked>>
  BY DEF CheckCursor, Unchanged
<1>5. LogOK' /\ RowsKept /\ PendingKept
  BY <1>4, QuietKeeps DEF Sound
<1>6. CursorsOK'
  BY <1>3, <1>4, <1>5, CursorsStay DEF Sound
<1>7. ScopeOK'
  <2>1. Reading
    BY <1>1 DEF Reading
  <2>2. Settling' => ok
    BY <1>2, <1>3 DEF Settling
  <2>3. ok => \A i \in Pending : i <= id => log[i].serial \in overlooked
    <3> SUFFICES ASSUME ok PROVE \A i \in Pending : i <= id => log[i].serial \in overlooked
      OBVIOUS
    <3>1. id \in DOMAIN log /\ pass.cursor.uid = log[id].uid
      BY DEF Known, Names, CursorAt
    <3>2. SoundUpTo(log[id].uid)
      BY <3>1 DEF Sound, CursorsOK
    <3> QED BY <3>1, <3>2, NamedIsSound DEF Sound
  <2>4. Pending' = Pending
    BY <1>4 DEF Pending, KeyOf
  <2> QED BY <1>3, <1>4, <2>1, <2>2, <2>3, <2>4 DEF Sound, ScopeOK
<1>8. ActsOK'
  BY <1>2, <1>3, <1>4, <1>5, CopiesKept DEF Sound
<1> QED BY <1>5, <1>6, <1>7, <1>8 DEF Sound

(* What delivery would refuse anyway is pending for nobody, nor is anything *)
(* older.                                                                   *)
LEMMA SettledIsSound ==
    ASSUME TypeInv, LogOK, NEW m \in Settled(pass.cals), NEW i \in Pending
    PROVE  m < i /\ log[m].serial < log[i].serial
<1>1. /\ m \in DOMAIN log /\ i \in DOMAIN log /\ m \in Nat /\ i \in Nat
      /\ log[m] \in Change /\ log[i] \in Change
      /\ now - log[m].at > MaxLateness /\ now - log[i].at <= MaxLateness
  BY LogFacts DEF Settled, Known, Pending, TypeInv
<1>2. now \in Nat /\ MaxLateness \in Nat /\ log[m].at \in Nat /\ log[i].at \in Nat
  BY <1>1, CursorConstants DEF TypeInv, TypeOK, Change
<1>3. log[m].at < log[i].at
  BY <1>1, <1>2
<1>4. ~(i < m) /\ i # m
  BY <1>1, <1>2, <1>3 DEF LogOK
<1> QED BY <1>1, <1>4 DEF LogOK

LEMMA ResetCursorSound ==
    ASSUME TypeInv, TypeInv', Sound, ResetCursor
    PROVE  Sound'
<1> DEFINE cursor == CursorAtLast(Settled(pass.cals))
<1>1. /\ Write(cursor, "list") /\ pass.pc = "reset"
      /\ UNCHANGED <<now, calendars, log, serial, meta, outbox, overlooked>>
  BY DEF ResetCursor, Unchanged
<1>2. /\ cursor \in Cursor
      /\ cursor = NoCursor \/ \E m \in Settled(pass.cals) : cursor = CursorAt(m, log[m])
  BY CursorAtLastIs DEF Settled, Known
<1>3. /\ pass'.pc = "write" /\ pass'.then = "list" /\ pass'.cursor = cursor
      /\ pass'.next = NoCursor /\ pass'.acts = {}
      /\ pass'.cals = pass.cals /\ pass'.since = pass.since
  BY <1>1, <1>2, WriteType DEF TypeInv
<1>4. LogOK' /\ RowsKept /\ PendingKept /\ Pending' = Pending
  <2>1. LogOK' /\ RowsKept /\ PendingKept
    BY <1>1, QuietKeeps DEF Sound
  <2> QED BY <1>1, <2>1 DEF Pending, KeyOf
<1>5. /\ cursor.uid <= serial
      /\ \A i \in Pending : ~(log[i].serial <= cursor.uid) /\ ~(i <= cursor.id)
  <2>0. serial \in Nat
    BY DEF TypeInv, TypeOK
  <2>1. \A i \in Pending : i \in Nat /\ i # 0 /\ log[i].serial \in Nat /\ 1 <= log[i].serial
    BY LogFacts DEF Pending, TypeInv, Change, Sound, LogOK, RowOK
  <2>2. CASE cursor = NoCursor
    BY <2>0, <2>1, <2>2 DEF NoCursor
  <2>3. ASSUME NEW m \in Settled(pass.cals), cursor = CursorAt(m, log[m])
        PROVE  /\ cursor.uid <= serial
               /\ \A i \in Pending : ~(log[i].serial <= cursor.uid) /\ ~(i <= cursor.id)
    <3>1. cursor.uid = log[m].uid /\ cursor.id = m /\ m \in DOMAIN log
      BY <2>3 DEF CursorAt, Settled, Known
    <3>2. RowOK(m) /\ log[m] \in Change /\ m \in Nat
      BY <3>1, LogFacts DEF Sound, LogOK, TypeInv
    <3>3. cursor.uid <= log[m].serial /\ log[m].serial <= serial
          /\ cursor.uid \in Nat /\ log[m].serial \in Nat
      BY <3>1, <3>2 DEF RowOK, Change
    <3>4. \A i \in Pending : m < i /\ log[m].serial < log[i].serial
      BY SettledIsSound DEF Sound
    <3> HIDE DEF cursor
    <3> QED BY <2>0, <2>1, <3>1, <3>2, <3>3, <3>4
  <2> QED BY <1>2, <2>2, <2>3
<1> HIDE DEF cursor
<1>6. CursorsOK'
  <2>1. \A s \in {meta'.cursor.uid, pass'.next.uid} : s <= serial'
            /\ \A i \in Pending' : log'[i].serial <= s => log'[i].serial \in overlooked'
    BY <1>1, <1>3, <1>4, SoundStays DEF Sound, NoCursor
  <2> QED BY <1>1, <1>3, <1>4, <1>5, <2>1 DEF CursorsOK, SoundUpTo
<1>7. ScopeOK'
  BY <1>1, <1>3, <1>4, <1>5 DEF Sound, ScopeOK, Reading, Settling
<1>8. ActsOK'
  BY <1>3 DEF ActsOK
<1> QED BY <1>4, <1>6, <1>7, <1>8 DEF Sound

LEMMA WriteFieldSound ==
    ASSUME TypeInv, TypeInv', Sound, WriteField
    PROVE  Sound'
<1>0. pass \in Pass /\ meta.cursor \in Cursor /\ pass.field \in 1 .. 4
  BY DEF TypeInv, TypeOK, Pass
<1>1. pass.pc = "write" /\ UNCHANGED <<now, calendars, log, serial, outbox, overlooked>>
  BY DEF WriteField, Unchanged
<1>2. LogOK' /\ RowsKept /\ PendingKept
  BY <1>1, QuietKeeps DEF Sound
<1>3. meta'.cursor.uid \in {meta.cursor.uid, pass.cursor.uid}
  <2>1. CASE pass.field = 1
    <3>1. meta'.cursor = [meta.cursor EXCEPT !.id = pass.cursor.id]
      BY <2>1 DEF WriteField
    <3> QED BY <1>0, <3>1 DEF Cursor
  <2>2. CASE pass.field = 2
    <3>1. meta'.cursor = [meta.cursor EXCEPT !.cal = pass.cursor.cal]
      BY <2>2 DEF WriteField
    <3> QED BY <1>0, <3>1 DEF Cursor
  <2>3. CASE pass.field = 3
    <3>1. meta'.cursor = [meta.cursor EXCEPT !.at = pass.cursor.at]
      BY <2>3 DEF WriteField
    <3> QED BY <1>0, <3>1 DEF Cursor
  <2>4. CASE pass.field = 4
    <3>1. meta'.cursor = [meta.cursor EXCEPT !.uid = pass.cursor.uid]
      BY <2>4 DEF WriteField
    <3> QED BY <1>0, <3>1 DEF Cursor
  <2> QED BY <1>0, <2>1, <2>2, <2>3, <2>4
<1>4. \/ /\ pass' = Idle
      \/ /\ pass'.cursor = pass.cursor /\ pass'.next = pass.next /\ pass'.acts = pass.acts
         /\ pass'.cals = pass.cals /\ pass'.since = pass.since
         /\ pass'.pc \in {"write", "list"} /\ (Settling' => Settling)
  <2>1. CASE pass.field < LastField
    <3>1. pass' = [pass EXCEPT !.field = pass.field + 1]
      BY <2>1 DEF WriteField
    <3> QED BY <1>0, <1>1, <3>1 DEF Pass, Settling
  <2>2. CASE ~(pass.field < LastField) /\ pass.then = "list"
    <3>1. pass' = [pass EXCEPT !.pc = "list", !.field = 1, !.then = "idle"]
      BY <2>2 DEF WriteField
    <3>2. Settling
      BY <1>1, <2>2 DEF Settling
    <3> QED BY <1>0, <3>1, <3>2 DEF Pass
  <2>3. CASE ~(pass.field < LastField) /\ pass.then # "list"
    BY <2>3 DEF WriteField
  <2> QED BY <2>1, <2>2, <2>3
<1>5. CASE pass' = Idle
  <2>1. /\ pass'.cursor.uid = 0 /\ pass'.next.uid = 0 /\ pass'.acts = {} /\ pass'.pc = "idle"
    BY <1>5 DEF Idle, NoCursor
  <2>2. CursorsOK'
    BY <1>1, <1>2, <1>3, <2>1, CursorsStay DEF Sound
  <2> QED BY <1>2, <2>1, <2>2 DEF Sound, ScopeOK, ActsOK, Reading, Settling
<1>6. CASE pass' # Idle
  <2>1. CursorsOK'
    BY <1>1, <1>2, <1>3, <1>4, <1>6, CursorsStay DEF Sound
  <2>2. ActsOK'
    BY <1>1, <1>2, <1>4, <1>6, CopiesKept DEF Sound
  <2>3. ScopeOK'
    <3>1. Settling' => Settling
      BY <1>4, <1>6
    <3>2. Reading' => Reading
      BY <1>4, <1>6, <3>1 DEF Reading
    <3>3. Pending' = Pending
      BY <1>1 DEF Pending, KeyOf
    <3> QED BY <1>1, <1>4, <1>6, <3>1, <3>2, <3>3 DEF Sound, ScopeOK
  <2> QED BY <1>2, <2>1, <2>2, <2>3 DEF Sound
<1> QED BY <1>5, <1>6

(* A listing has every change between its start and the last one it has,   *)
(* whatever the limit.                                                     *)
LEMMA AfterIsUnbroken ==
    ASSUME TypeInv, NEW cals, NEW id \in Nat, NEW j \in After(cals, id),
           NEW i \in Known(cals), id < i, i < j
    PROVE  i \in After(cals, id)
<1> DEFINE later == {k \in Known(cals) : k > id}
           below(n) == {k \in later : k < n}
<1>1. later \subseteq DOMAIN log /\ later \in SUBSET Nat
  BY LogFacts DEF Known, TypeInv
<1>2. i \in later /\ j \in later /\ Cardinality(below(j)) < Limit
  BY DEF After, Known
<1>3. below(i) \subseteq below(j)
  BY <1>1, <1>2
<1>4. PICK b \in Nat : \A k \in DOMAIN log : k <= b
  BY CursorConstants DEF TypeInv, TypeOK, Bounded
<1>5. IsFiniteSet(later)
  <2> HIDE DEF later
  <2> QED BY <1>1, <1>4, FS_BoundedSetOfNaturals
<1>6. IsFiniteSet(below(j)) /\ IsFiniteSet(below(i))
  BY <1>5, FS_Subset
<1>7. Cardinality(below(i)) <= Cardinality(below(j))
  BY <1>3, <1>6, FS_Subset
<1>8. Cardinality(below(i)) \in Nat /\ Cardinality(below(j)) \in Nat
  BY <1>6, FS_CardinalityType
<1>9. Cardinality(below(i)) < Limit
  <2> HIDE DEF below, later
  <2> QED BY <1>2, <1>7, <1>8, CursorConstants
<1> QED BY <1>2, <1>9 DEF After

LEMMA ListLogSound ==
    ASSUME TypeInv, TypeInv', Sound, ListLog
    PROVE  Sound'
<1> DEFINE acts == After(pass.cals, pass.cursor.id)
           copies == {[id |-> i, row |-> log[i]] : i \in acts}
           pc == IF acts = {} THEN "end" ELSE "look"
           late == {log[i].serial : i \in {i \in DOMAIN log \ acts :
                       log[i].serial > pass.since /\ \E j \in acts : i < j}}
<1>1. /\ pass' = [pc |-> pc, since |-> 0, cals |-> {}, cursor |-> pass.cursor,
                  next |-> pass.cursor, acts |-> copies, named |-> {}, tell |-> FALSE,
                  field |-> 1, then |-> "idle"]
      /\ overlooked' = overlooked \cup late
      /\ UNCHANGED <<now, calendars, log, serial, meta, outbox>>
      /\ pass.pc = "list"
  BY DEF ListLog, Idle, Unchanged
<1>2. LogOK' /\ RowsKept /\ PendingKept /\ Pending' = Pending
  <2>1. LogOK' /\ RowsKept /\ PendingKept
    BY <1>1, QuietKeeps DEF Sound
  <2> QED BY <1>1, <2>1 DEF Pending, KeyOf
<1>3. /\ pass'.cursor = pass.cursor /\ pass'.next = pass.cursor /\ pass'.acts = copies
      /\ pass'.pc \in {"end", "look"}
  <2>1. pc \in {"end", "look"}
    OBVIOUS
  <2> HIDE DEF pc, copies
  <2> QED BY <1>1, <2>1
<1>4. CursorsOK'
  <2> HIDE DEF late
  <2> QED BY <1>1, <1>2, <1>3, CursorsStay DEF Sound
<1>5. ScopeOK'
  BY <1>3 DEF ScopeOK, Reading, Settling
<1>6. acts \subseteq DOMAIN log
  BY DEF After, Known
<1>7. ASSUME NEW j \in acts, NEW i \in Pending, log[i].serial <= log[j].serial
      PROVE  log[i].serial \in overlooked' \/ (i \in acts /\ i <= j)
  <2>1. /\ i \in DOMAIN log /\ j \in DOMAIN log /\ i \in Nat /\ j \in Nat
        /\ log[i].serial \in Nat /\ log[j].serial \in Nat
    BY <1>6, LogFacts DEF Pending, TypeInv, Change
  <2>2. i = j \/ i < j
    BY <1>7, <2>1 DEF Sound, LogOK
  <2>3. CASE i \in acts
    BY <2>1, <2>2, <2>3
  <2>4. CASE i \notin acts /\ log[i].serial > pass.since
    <3>1. log[i].serial \in late
      BY <1>7, <2>1, <2>2, <2>4
    <3> QED BY <1>1, <3>1
  <2>5. CASE i \notin acts /\ ~(log[i].serial > pass.since)
    <3>1. Settling /\ Reading
      BY <1>1 DEF Settling, Reading
    <3>2. i \in Known(pass.cals)
      BY <2>1, <2>5, <3>1 DEF Sound, ScopeOK, Known
    <3>3. pass.cursor.id \in Nat /\ pass.since \in Nat
      BY DEF TypeInv, TypeOK, Pass, Cursor
    <3>4. ~(pass.cursor.id < i)
      BY <1>7, <2>2, <2>5, <3>2, <3>3, AfterIsUnbroken
    <3>5. i <= pass.cursor.id /\ log[i].serial <= pass.since
      BY <2>1, <2>5, <3>3, <3>4
    <3>6. log[i].serial \in overlooked
      BY <3>1, <3>5 DEF Sound, ScopeOK
    <3> QED BY <1>1, <3>6
  <2> QED BY <2>3, <2>4, <2>5
<1>8. ActsOK'
  <2>1. ASSUME NEW a \in copies PROVE CopyOK(a)' /\ Ready(a)'
    <3>1. PICK j \in acts : a = [id |-> j, row |-> log[j]]
      OBVIOUS
    <3>2. j \in DOMAIN log /\ a.id = j /\ a.row = log[j] /\ log[j] \in Change /\ RowOK(j)
      BY <1>6, <3>1, LogFacts DEF TypeInv, Sound, LogOK
    <3> HIDE DEF acts
    <3>3. CopyOK(a)'
      BY <1>1, <3>2 DEF CopyOK, IsCopyOf, RowOK
    <3>4. ASSUME NEW i \in Pending', log'[i].serial <= a.row.serial
          PROVE  log'[i].serial \in overlooked' \/ \E b \in copies : IsCopyOf(b, i)' /\ i <= a.id
      <4>1. log[i].serial \in overlooked' \/ (i \in acts /\ i <= j)
        BY <1>1, <1>2, <1>7, <3>2, <3>4
      <4>2. ASSUME i \in acts, i <= j
            PROVE  \E b \in copies : IsCopyOf(b, i)' /\ i <= a.id
        <5>1. PICK b \in copies : b = [id |-> i, row |-> log[i]]
          BY <4>2
        <5>2. IsCopyOf(b, i)'
          BY <1>1, <1>6, <4>2, <5>1 DEF IsCopyOf
        <5> HIDE DEF copies
        <5> QED BY <3>2, <4>2, <5>2
      <4> QED BY <1>1, <4>1, <4>2
    <3>5. Ready(a)'
      <4> HIDE DEF copies
      <4> QED BY <1>3, <3>4 DEF Ready
    <3> QED BY <3>3, <3>5
  <2>2. \A a, b \in copies : a.id = b.id => a = b
    OBVIOUS
  <2> HIDE DEF copies
  <2> QED BY <1>3, <2>1, <2>2 DEF ActsOK
<1> QED BY <1>2, <1>4, <1>5, <1>8 DEF Sound

LEMMA LookSound ==
    ASSUME TypeInv, TypeInv', Sound, Look
    PROVE  Sound'
<1> DEFINE cal == Current.row.cal
           named == pass.named \cup {cal}
           tell == Concerns(Current.row)
<1>0. pass \in Pass /\ Current \in pass.acts /\ pass.acts \subseteq Copy /\ tell \in BOOLEAN
  BY CurrentIs DEF Look, TypeInv, TypeOK, Busy, Pass, Concerns
<1>1. UNCHANGED <<now, calendars, log, serial, meta, outbox, overlooked>>
  BY DEF Look, Unchanged
<1>2. LogOK' /\ RowsKept /\ PendingKept
  BY <1>1, QuietKeeps DEF Sound
<1>3. CASE pass' = [pass EXCEPT !.pc = "end", !.acts = {}]
  <2>1. /\ pass'.cursor = pass.cursor /\ pass'.next = pass.next /\ pass'.acts = {}
        /\ pass'.pc = "end"
    BY <1>0, <1>3 DEF Pass
  <2>2. CursorsOK' /\ ActsOK'
    BY <1>1, <1>2, <2>1, CursorsStay, CopiesKept DEF Sound
  <2> QED BY <1>2, <2>1, <2>2 DEF Sound, ScopeOK, Reading, Settling
<1>4. CASE pass' = [pass EXCEPT !.pc = "file", !.tell = tell, !.named = named]
  <2>1. /\ pass'.cursor = pass.cursor /\ pass'.next = pass.next /\ pass'.acts = pass.acts
        /\ pass'.pc = "file" /\ pass'.tell = tell
    <3> HIDE DEF tell, named
    <3> QED BY <1>0, <1>4 DEF Pass
  <2>2. CursorsOK'
    BY <1>1, <1>2, <2>1, CursorsStay DEF Sound
  <2>3. Current' = Current
    BY <2>1 DEF Current
  <2>4. ASSUME NEW i \in DOMAIN log', ~tell, IsCopyOf(Current, i)' PROVE ~log'[i].owed
    <3>1. i \in DOMAIN log /\ IsCopyOf(Current, i) /\ log'[i] = log[i]
      BY <1>1, <2>3, <2>4 DEF IsCopyOf
    <3>2. /\ Current.row.cal = log[i].cal /\ Current.row.at = log[i].at
          /\ Current.row.mine = log[i].mine
      BY <1>0, <3>1 DEF Sound, ActsOK, CopyOK
    <3>3. log[i].owed => Concerns(log[i])
      BY <3>1 DEF Sound, LogOK, RowOK
    <3> QED BY <2>4, <3>1, <3>2, <3>3 DEF Concerns
  <2>5. \A a \in pass'.acts : CopyOK(a)' /\ Ready(a)'
    BY <1>1, <1>2, <2>1, CopiesStay DEF Ready, Sound
  <2>6. ActsOK'
    <3> HIDE DEF tell
    <3> QED BY <2>1, <2>4, <2>5 DEF ActsOK, Sound
  <2> QED BY <1>2, <2>1, <2>2, <2>6 DEF Sound, ScopeOK, Reading, Settling
<1>5. pass' = [pass EXCEPT !.pc = "end", !.acts = {}]
      \/ pass' = [pass EXCEPT !.pc = "file", !.tell = tell, !.named = named]
  BY DEF Look
<1> QED BY <1>3, <1>4, <1>5

LEMMA FileSound ==
    ASSUME TypeInv, TypeInv', Sound, File
    PROVE  Sound'
<1> DEFINE rest == pass.acts \ {Current}
           next == CursorAt(Current.id, Current.row)
           pc == IF rest = {} THEN "end" ELSE "look"
           key == KeyOf(Current.id, Current.row)
<1>0. /\ pass \in Pass /\ pass.pc = "file" /\ pass.tell \in BOOLEAN
      /\ Current \in pass.acts /\ pass.acts \subseteq Copy
      /\ \A b \in pass.acts : Current.id <= b.id
  BY CurrentIs DEF File, TypeInv, TypeOK, Busy, Pass
<1>1. /\ UNCHANGED <<now, calendars, log, serial, meta, overlooked>>
      /\ outbox' = IF pass.tell THEN outbox \cup {key} ELSE outbox
      /\ outbox \subseteq outbox'
  BY DEF File, Unchanged
<1>2. LogOK' /\ RowsKept /\ PendingKept
  BY <1>1, QuietKeeps DEF Sound
<1>3. /\ pass'.cursor = pass.cursor /\ pass'.next = next /\ pass'.acts = rest
      /\ pass'.pc \in {"end", "look"}
  <2>1. pass' = [pass EXCEPT !.acts = rest, !.tell = FALSE, !.next = next, !.pc = pc]
    BY DEF File, Handled
  <2>2. pc \in {"end", "look"}
    OBVIOUS
  <2> HIDE DEF rest, next, pc
  <2> QED BY <1>0, <2>1, <2>2 DEF Pass
<1>4. ASSUME NEW i \in Pending' PROVE ~IsCopyOf(Current, i)
  <2> SUFFICES ASSUME IsCopyOf(Current, i) PROVE FALSE
    OBVIOUS
  <2>1. i \in DOMAIN log /\ log[i].owed /\ KeyOf(i, log[i]) \notin outbox'
    BY <1>1 DEF Pending, KeyOf
  <2>2. KeyOf(i, log[i]) = key
    BY <1>0, <2>1 DEF Sound, ActsOK, CopyOK, IsCopyOf, KeyOf
  <2>3. CASE pass.tell
    BY <1>1, <2>1, <2>2, <2>3
  <2>4. CASE ~pass.tell
    BY <1>0, <2>1, <2>4 DEF Sound, ActsOK
  <2> QED BY <1>0, <2>3, <2>4
<1>5. ASSUME NEW a \in pass.acts, NEW i \in Pending', log'[i].serial <= a.row.serial
      PROVE  log'[i].serial \in overlooked' \/ \E b \in rest : IsCopyOf(b, i)' /\ i <= a.id
  <2>1. \/ log'[i].serial \in overlooked'
        \/ \E b \in pass.acts : IsCopyOf(b, i)' /\ i <= a.id
    BY <1>1, <1>2, <1>5, CopiesStay DEF Sound
  <2>2. \A b \in pass.acts : IsCopyOf(b, i)' => b \in rest
    BY <1>1, <1>4 DEF IsCopyOf
  <2> QED BY <2>1, <2>2
<1>6. ActsOK'
  <2>1. \A a \in rest : CopyOK(a)' /\ Ready(a)'
    <3>1. \A a \in rest : CopyOK(a)'
      BY <1>1, <1>2, CopiesStay DEF Sound
    <3> HIDE DEF rest
    <3>2. \A a \in rest : a \in pass.acts
      BY DEF rest
    <3> QED BY <1>3, <1>5, <3>1, <3>2 DEF Ready
  <2>2. \A a, b \in rest : a.id = b.id => a = b
    BY DEF Sound, ActsOK
  <2> HIDE DEF rest
  <2> QED BY <1>3, <2>1, <2>2 DEF ActsOK
<1>7. CursorsOK'
  <2>1. \A s \in {meta'.cursor.uid, pass'.cursor.uid} : s <= serial'
            /\ \A i \in Pending' : log'[i].serial <= s => log'[i].serial \in overlooked'
    BY <1>1, <1>2, <1>3, SoundStays DEF Sound
  <2>2. /\ Current \in Copy /\ CopyOK(Current) /\ serial \in Nat
    BY <1>0 DEF Sound, ActsOK, TypeInv, TypeOK
  <2>3. /\ next.uid = Current.row.uid /\ Current.row.serial <= serial
        /\ Current.row.uid = Current.row.serial \/ Current.row.uid = 0
        /\ Current.row.serial \in Nat
    BY <2>2 DEF CopyOK, CursorAt, Copy, Change
  <2>4. next.uid <= serial'
    BY <1>1, <2>2, <2>3
  <2>5. ASSUME NEW i \in Pending', log'[i].serial <= next.uid
        PROVE  log'[i].serial \in overlooked'
    <3>1. i \in DOMAIN log' /\ log'[i].serial \in Nat /\ i \in Nat
      BY <1>1, LogFacts DEF Pending, TypeInv, Change
    <3>2. CASE Current.row.uid = 0
      BY <1>1, <1>2, <2>3, <2>5, <3>1, <3>2 DEF LogOK, RowOK
    <3>3. CASE Current.row.uid = Current.row.serial
      <4>1. \/ log'[i].serial \in overlooked'
            \/ \E b \in rest : IsCopyOf(b, i)' /\ i <= Current.id
        BY <1>0, <1>5, <2>3, <2>5, <3>3
      <4>2. \A b \in rest : ~(IsCopyOf(b, i)' /\ i <= Current.id)
        <5> SUFFICES ASSUME NEW b \in rest, IsCopyOf(b, i)', i <= Current.id PROVE FALSE
          OBVIOUS
        <5>1. b.id = i /\ b \in pass.acts /\ b # Current /\ Current.id <= b.id
          BY <1>0 DEF IsCopyOf
        <5>2. b.id # Current.id
          BY <1>0, <5>1 DEF Sound, ActsOK
        <5>3. Current.id \in Nat /\ b.id \in Nat
          BY <1>0, <5>1, CursorConstants DEF Copy
        <5> QED BY <5>1, <5>2, <5>3
      <4> QED BY <4>1, <4>2
    <3> QED BY <2>3, <3>2, <3>3
  <2> HIDE DEF next
  <2> QED BY <1>3, <2>1, <2>4, <2>5 DEF CursorsOK, SoundUpTo
<1>8. ScopeOK'
  BY <1>3 DEF ScopeOK, Reading, Settling
<1> QED BY <1>2, <1>6, <1>7, <1>8 DEF Sound

(* The end of a batch, an error and a crash only drop what the pass had. *)
LEMMA EndSound ==
    ASSUME TypeInv, TypeInv', Sound, EndBatch \/ AnnounceFails \/ Abandon
    PROVE  Sound'
<1>0. pass \in Pass /\ pass.next \in Cursor
  BY DEF TypeInv, TypeOK, Pass
<1>1. UNCHANGED <<now, calendars, log, serial, meta, outbox, overlooked>>
  BY DEF EndBatch, AnnounceFails, Abandon, Unchanged
<1>2. LogOK' /\ RowsKept /\ PendingKept
  BY <1>1, QuietKeeps DEF Sound
<1>3. /\ pass'.cursor.uid \in {pass.cursor.uid, pass.next.uid, 0}
      /\ pass'.next.uid \in {pass.next.uid, 0} /\ pass'.acts = {}
      /\ pass'.pc \in {"idle", "end", "write"} /\ (pass'.pc = "write" => pass'.then = "idle")
  <2>1. CASE pass' = Idle
    BY <2>1 DEF Idle, NoCursor
  <2>2. CASE Write(pass.next, "idle")
    BY <1>0, <2>2, WriteType DEF TypeInv, NoCursor
  <2>3. CASE pass' = [pass EXCEPT !.pc = "end", !.acts = {}, !.tell = FALSE]
    BY <1>0, <2>3 DEF Pass
  <2> QED BY <2>1, <2>2, <2>3 DEF EndBatch, AnnounceFails, Abandon
<1>4. CursorsOK' /\ ActsOK'
  BY <1>1, <1>2, <1>3, CursorsStay, CopiesKept DEF Sound
<1> QED BY <1>2, <1>3, <1>4 DEF Sound, ScopeOK, Reading, Settling

-----------------------------------------------------------------------------
LEMMA SoundInit == Init => Sound
<1> SUFFICES ASSUME Init PROVE Sound
  OBVIOUS
<1>1. TypeInv /\ LogOK
  BY TypeInit, LogInit
<1>2. pass = Idle /\ (\A i \in DOMAIN log : ~log[i].owed)
  BY DEF Init
<1>3. Pending = {}
  BY <1>2 DEF Pending
<1>4. meta.cursor.uid = 0
  <2>1. CASE meta.cursor = NoCursor
    BY <2>1 DEF NoCursor
  <2>2. CASE meta.cursor = [NoCursor EXCEPT !.id = 1]
    BY <2>2 DEF NoCursor
  <2>3. CASE meta.cursor = CursorAt(1, log[1]) /\ log[1].uid = 0
    BY <2>3 DEF CursorAt
  <2> QED BY <2>1, <2>2, <2>3 DEF Init
<1>5. serial \in Nat
  BY <1>1 DEF TypeInv, TypeOK
<1>6. CursorsOK
  BY <1>2, <1>3, <1>4, <1>5 DEF CursorsOK, SoundUpTo, Idle, NoCursor
<1>7. ScopeOK /\ ActsOK
  BY <1>2 DEF ScopeOK, ActsOK, Reading, Settling, Idle
<1> QED BY <1>1, <1>6, <1>7 DEF Sound

LEMMA SoundNext == TypeInv /\ Sound /\ [Next]_vars => Sound'
<1> SUFFICES ASSUME TypeInv, Sound, [Next]_vars PROVE Sound'
  OBVIOUS
<1>1. TypeInv'
  BY TypeNext
<1>2. CASE UNCHANGED vars
  <2>1. UNCHANGED <<now, calendars, log, serial, outbox, meta, pass, overlooked>>
    BY <1>2 DEF vars
  <2>2. LogOK' /\ RowsKept /\ PendingKept
    BY <2>1, QuietKeeps DEF Sound
  <2>3. CursorsOK'
    BY <1>1, <2>1, <2>2, CursorsStay DEF Sound
  <2> QED BY <1>1, <2>1, <2>2, <2>3, ScopeStays, ActsStay DEF Sound
<1>3. CASE PlanActivity
  BY <1>1, <1>3, ReadCalendarsSound, ReadCursorSound, StartFromPresentSound,
     CheckCursorSound, ResetCursorSound, WriteFieldSound, ListLogSound, LookSound,
     FileSound, EndSound DEF PlanActivity
<1> QED BY <1>1, <1>2, <1>3, FamilySound, EndSound DEF Next

(* A cursor that the next pass would trust has no pending change behind it: *)
(* what it names is of the log, so nothing up to it is pending.             *)
LEMMA SoundMeansCursorIsSound == TypeInv /\ Sound => CursorIsSound
<1> SUFFICES ASSUME TypeInv, Sound, Trusted, NEW i \in Pending, ~(i > meta.cursor.id)
             PROVE  log[i].serial \in overlooked
  BY DEF CursorIsSound
<1>1. i \in Nat /\ i # 0 /\ meta.cursor.id \in Nat
  BY LogFacts DEF Pending, TypeInv, TypeOK, Cursor
<1>2. i <= meta.cursor.id /\ meta.cursor.id # 0
  BY <1>1
<1>3. meta.cursor.id \in DOMAIN log /\ log[meta.cursor.id].uid = meta.cursor.uid
  BY <1>2 DEF Trusted, CursorAt
<1>4. SoundUpTo(log[meta.cursor.id].uid)
  BY <1>3 DEF Sound, CursorsOK
<1> QED BY <1>2, <1>3, <1>4, NamedIsSound DEF Sound

(* Nothing ever reads a row the cursor has passed, so this is the property *)
(* the cursor stands or falls with (planActivity, repairCursor).           *)
THEOREM CursorStaysSound == Spec => []CursorIsSound
<1>1. Spec => [](TypeInv /\ Sound)
  <2>1. Init => TypeInv /\ Sound
    BY TypeInit, SoundInit
  <2>2. TypeInv /\ Sound /\ [Next]_vars => (TypeInv /\ Sound)'
    BY TypeNext, SoundNext
  <2> QED BY <2>1, <2>2, PTL DEF Spec
<1> QED BY <1>1, SoundMeansCursorIsSound, PTL
=============================================================================
