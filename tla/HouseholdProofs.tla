--------------------------- MODULE HouseholdProofs ---------------------------
(***************************************************************************)
(* For any number of members, calendars, invitations and requests in       *)
(* flight: a calendar that no overtaken request wrote to is inhabited and  *)
(* holds nothing of people who are gone, an invitation admits to the       *)
(* calendar it was made for, and a deletion takes a calendar from nobody.  *)
(*                                                                         *)
(* The argument: whatever changes the members of a calendar marks every    *)
(* other request about it as overtaken (End), so a request that was not    *)
(* overtaken still finds what it looked at (Looked).                       *)
(***************************************************************************)
EXTENDS Household, TLAPS

(* What request r saw is still true unless it was overtaken.               *)
Looked(r) ==
    /\ req[r].op # "none" => req[r].who \in People
    /\ req[r].op = "remove" => req[r].who \notin req[r].others
    /\ req[r].op # "none" /\ ~req[r].late =>
          /\ req[r].cal \in DOMAIN calendars
          /\ calendars[req[r].cal].serial = req[r].named
          /\ req[r].op = "remove" => calendars[req[r].cal].creator = req[r].who
          /\ req[r].op = "edit" => req[r].others \subseteq Members(req[r].cal)
          /\ req[r].op = "remind" => req[r].who \in Members(req[r].cal)
          /\ req[r].op = "delete" => AtMostOne(Members(req[r].cal))

AsLooked == \A r \in Requests : Looked(r)

(* No invitation outlives its calendar.                                    *)
InvitesCurrent ==
    \A t \in DOMAIN invites :
        /\ invites[t].cal \in DOMAIN calendars
        /\ calendars[invites[t].cal].serial = invites[t].named

IInv == TypeOK /\ AsLooked /\ InvitesCurrent /\ Inhabited /\ NothingLeftBehind

(* Calendar c is to its requests what it was.                              *)
Keeps(c) ==
    /\ c \in DOMAIN calendars'
    /\ calendars'[c].serial = calendars[c].serial
    /\ calendars'[c].creator = calendars[c].creator
    /\ Members(c)' = Members(c)

-----------------------------------------------------------------------------
LEMMA InitHolds == Init => IInv
<1> SUFFICES ASSUME Init PROVE IInv
  OBVIOUS
<1> USE HouseholdConstants DEF Init
<1>1. TypeOK
  BY DEF TypeOK, Calendar, Invite, Request, NoRequest
<1>2. AsLooked
  BY DEF AsLooked, Looked, NoRequest
<1>3. InvitesCurrent
  BY DEF InvitesCurrent
<1>4. Inhabited /\ NothingLeftBehind
  BY DEF Inhabited, NothingLeftBehind, Members
<1> QED BY <1>1, <1>2, <1>3, <1>4 DEF IInv

(* The requests after the end of one of them.                              *)
LEMMA EndTyped ==
    ASSUME TypeOK, NEW r \in Requests, NEW changed \in BOOLEAN, End(r, changed)
    PROVE  /\ req' \in [Requests -> Request]
           /\ req'[r].op = "none"
           /\ \A q \in Requests \ {r} : req'[q].op = req[q].op
<1>1. NoRequest \in Request /\ NoRequest.op = "none"
  BY HouseholdConstants DEF NoRequest, Request
<1>2. \A q \in Requests : req[q] \in Request /\ [req[q] EXCEPT !.late = TRUE] \in Request
  BY DEF TypeOK, Request
<1>3. req' \in [Requests -> Request]
  BY <1>1, <1>2 DEF End
<1>4. \A q \in Requests \ {r} : req'[q].op = req[q].op
  BY <1>2 DEF End, Request
<1> QED BY <1>1, <1>3, <1>4 DEF End

(* A request that ends overtakes those about the calendar whose members it *)
(* changed, and leaves the calendars of the others alone.                  *)
LEMMA EndLooked ==
    ASSUME TypeOK, AsLooked, NEW r \in Requests, NEW changed \in BOOLEAN, End(r, changed),
           \A c \in DOMAIN calendars : (~changed \/ c # req[r].cal) => Keeps(c)
    PROVE  AsLooked'
<1> SUFFICES ASSUME NEW q \in Requests PROVE Looked(q)'
  BY DEF AsLooked
<1>1. req[q] \in Request /\ Looked(q)
  BY DEF TypeOK, AsLooked
<1>2. CASE q = r
  <2>1. req'[q].op = "none"
    BY <1>2, EndTyped
  <2> QED BY <2>1 DEF Looked
<1>3. CASE q # r /\ changed /\ req[q].op # "none" /\ req[q].cal = req[r].cal
  <2>1. req'[q] = [req[q] EXCEPT !.late = TRUE]
    BY <1>3 DEF End
  <2>2. req'[q].late /\ req'[q].op = req[q].op /\ req'[q].who = req[q].who
          /\ req'[q].others = req[q].others
    BY <2>1, <1>1 DEF Request
  <2> QED BY <2>2, <1>1 DEF Looked
<1>4. CASE q # r /\ ~(changed /\ req[q].op # "none" /\ req[q].cal = req[r].cal)
  <2>1. req'[q] = req[q]
    BY <1>4 DEF End
  <2>2. CASE req[q].op # "none" /\ ~req[q].late
    <3>1. req[q].cal \in DOMAIN calendars
      BY <2>2, <1>1 DEF Looked
    <3>2. Keeps(req[q].cal)
      BY <3>1, <2>2, <1>4
    <3> QED BY <2>1, <3>2, <1>1 DEF Looked, Keeps, AtMostOne
  <2>3. CASE ~(req[q].op # "none" /\ ~req[q].late)
    BY <2>1, <2>3, <1>1 DEF Looked
  <2> QED BY <2>2, <2>3
<1> QED BY <1>2, <1>3, <1>4

-----------------------------------------------------------------------------
(* A request begins: only what it noted changes.                           *)
LEMMA BeginHolds ==
    ASSUME IInv, NEW r \in Requests, NEW q \in Request, req' = [req EXCEPT ![r] = q],
           UNCHANGED <<accounts, calendars, invites, spent, serial, raced>>,
           q.who \in People, q.op = "remove" => q.who \notin q.others,
           q.cal \in DOMAIN calendars, calendars[q.cal].serial = q.named,
           q.op = "remove" => calendars[q.cal].creator = q.who,
           q.op = "edit" => q.others \subseteq Members(q.cal),
           q.op = "remind" => q.who \in Members(q.cal),
           q.op # "delete"
    PROVE  IInv'
<1> USE DEF IInv
<1>1. TypeOK'
  BY DEF TypeOK
<1>2. AsLooked'
  <2> SUFFICES ASSUME NEW p \in Requests PROVE Looked(p)'
    BY DEF AsLooked
  <2>1. CASE p = r
    <3>1. req'[p] = q
      BY <2>1 DEF TypeOK
    <3> QED BY <3>1 DEF Looked, Members
  <2>2. CASE p # r
    <3>1. req'[p] = req[p] /\ Looked(p)
      BY <2>2 DEF TypeOK, AsLooked
    <3> QED BY <3>1 DEF Looked, Members
  <2> QED BY <2>1, <2>2
<1>3. InvitesCurrent' /\ Inhabited' /\ NothingLeftBehind'
  BY DEF InvitesCurrent, Inhabited, NothingLeftBehind, Members
<1> QED BY <1>1, <1>2, <1>3

LEMMA AskHolds == ASSUME IInv, NEW r \in Requests, Ask(r) PROVE IInv'
<1> USE HouseholdConstants
<1>1. ASSUME NEW c \in DOMAIN calendars, NEW u \in accounts
      PROVE  /\ c \in CalendarIds /\ u \in People
             /\ calendars[c] \in Calendar
             /\ calendars[c].serial \in Nat /\ Members(c) \in SUBSET People
  BY DEF IInv, TypeOK, Calendar, Members
<1>2. ASSUME NEW c \in DOMAIN calendars, NEW u \in accounts,
             NEW op \in {"leave", "remove", "count", "edit", "remind", "erase", "mint"},
             NEW others \in SUBSET People, Begin(r, op, u, c, others),
             op = "remove" => calendars[c].creator = u /\ u \notin others,
             op = "edit" => others \subseteq Members(c),
             op = "remind" => u \in Members(c)
      PROVE  IInv'
  <2> DEFINE q == [op |-> op, who |-> u, cal |-> c, others |-> others,
                   named |-> calendars[c].serial, late |-> FALSE]
  <2>1. q \in Request
    BY <1>1 DEF Request
  <2>2. req' = [req EXCEPT ![r] = q]
          /\ UNCHANGED <<accounts, calendars, invites, spent, serial, raced>>
    BY <1>2 DEF Begin
  <2>3. /\ q.op = op /\ q.who = u /\ q.cal = c /\ q.others = others
        /\ q.named = calendars[c].serial
    OBVIOUS
  <2> HIDE DEF q
  <2> QED BY <2>1, <2>2, <2>3, <1>1, <1>2, BeginHolds
<1>3. ASSUME NEW c \in DOMAIN calendars, NEW u \in accounts,
             \/ BeginLeave(r, u, c) \/ BeginDelete(r, u, c) \/ BeginInvite(r, u, c)
             \/ BeginReminders(r, u, c) \/ BeginErase(r, u, c)
      PROVE  IInv'
  BY <1>3, <1>1, <1>2 DEF BeginLeave, BeginDelete, BeginInvite, BeginReminders, BeginErase
<1>4. ASSUME NEW c \in DOMAIN calendars, NEW u \in accounts,
             NEW going \in Invited(u, c), BeginEdit(r, u, c, going)
      PROVE  IInv'
  <2>1. going \in SUBSET People
    BY <1>1 DEF Invited
  <2> QED BY <2>1, <1>4, <1>2 DEF BeginEdit
<1>5. ASSUME NEW c \in DOMAIN calendars, NEW u \in accounts,
             NEW target \in accounts, BeginRemove(r, u, c, target)
      PROVE  IInv'
  <2>1. {target} \in SUBSET People /\ u \notin {target}
    BY <1>5 DEF BeginRemove, IInv, TypeOK
  <2> QED BY <2>1, <1>5, <1>2 DEF BeginRemove
<1>6. ASSUME NEW u \in People, NEW t \in DOMAIN invites, BeginSignup(r, u, t)
      PROVE  IInv'
  <2> DEFINE q == [op |-> "join", who |-> u, cal |-> invites[t].cal, others |-> {},
                   named |-> invites[t].named, late |-> FALSE]
  <2>1. invites[t] \in Invite
    BY DEF IInv, TypeOK
  <2>2. q \in Request
    BY <2>1 DEF Request, Invite
  <2>3. req' = [req EXCEPT ![r] = q]
          /\ UNCHANGED <<accounts, calendars, invites, spent, serial, raced>>
    BY <1>6 DEF BeginSignup
  <2>4. q.op = "join" /\ q.who \in People /\ q.cal \in DOMAIN calendars /\ calendars[q.cal].serial = q.named
    BY DEF IInv, InvitesCurrent
  <2> HIDE DEF q
  <2> QED BY <2>2, <2>3, <2>4, BeginHolds
<1> QED BY <1>3, <1>4, <1>5, <1>6 DEF Ask

-----------------------------------------------------------------------------
(* A request ends without a change.                                        *)
LEMMA RefuseHolds == ASSUME IInv, NEW r \in Requests, Refuse(r) PROVE IInv'
<1> USE DEF Refuse
<1>1. \A c \in DOMAIN calendars : Keeps(c)
  BY DEF Keeps, Members
<1>2. AsLooked'
  BY <1>1, EndLooked DEF IInv
<1>3. TypeOK'
  BY EndTyped DEF IInv, TypeOK
<1>4. InvitesCurrent' /\ Inhabited' /\ NothingLeftBehind'
  BY DEF IInv, InvitesCurrent, Inhabited, NothingLeftBehind, Members
<1> QED BY <1>2, <1>3, <1>4 DEF IInv

(* A calendar goes, and takes its invitations along.                       *)
LEMMA DropHolds ==
    ASSUME IInv, NEW r \in Requests, req[r].cal \in DOMAIN calendars,
           Drop(req[r].cal), End(r, TRUE), UNCHANGED <<accounts, spent, serial, raced>>
    PROVE  IInv'
<1> DEFINE c == req[r].cal
           gone == {t \in DOMAIN invites : invites[t].cal = c}
<1>1. /\ DOMAIN calendars' = DOMAIN calendars \ {c}
      /\ \A k \in DOMAIN calendars' : calendars'[k] = calendars[k]
  BY DEF Drop, Without
<1>2. /\ DOMAIN invites' = DOMAIN invites \ gone
      /\ \A t \in DOMAIN invites' : invites'[t] = invites[t]
  BY DEF Drop, Without
<1>3. AsLooked'
  <2>1. \A k \in DOMAIN calendars : k # c => Keeps(k)
    BY <1>1 DEF Keeps, Members
  <2> QED BY <2>1, EndLooked DEF IInv
<1>4. TypeOK'
  <2>1. calendars' \in [DOMAIN calendars' -> Calendar]
    BY <1>1 DEF IInv, TypeOK, Drop, Without
  <2>2. invites' \in [DOMAIN invites' -> Invite]
    BY <1>2 DEF IInv, TypeOK, Drop, Without
  <2> QED BY <1>1, <1>2, <2>1, <2>2, EndTyped DEF IInv, TypeOK
<1>5. InvitesCurrent'
  BY <1>1, <1>2 DEF IInv, InvitesCurrent
<1>6. Inhabited' /\ NothingLeftBehind'
  BY <1>1 DEF IInv, Inhabited, NothingLeftBehind, Members
<1> QED BY <1>3, <1>4, <1>5, <1>6 DEF IInv

(* A calendar is written to: the request notes a change of its members,    *)
(* and was overtaken or leaves the calendar in order.                      *)
LEMMA WriteHolds ==
    ASSUME IInv, NEW r \in Requests, req[r].cal \in DOMAIN calendars,
           NEW calendar \in Calendar, calendars' = [calendars EXCEPT ![req[r].cal] = calendar],
           calendar.serial = calendars[req[r].cal].serial,
           NEW changed \in BOOLEAN, End(r, changed),
           ~changed => /\ calendar.creator = calendars[req[r].cal].creator
                       /\ calendar.members = calendars[req[r].cal].members,
           accounts' \subseteq People, UNCHANGED <<invites, spent, serial>>,
           raced \subseteq raced', raced' \subseteq Nat,
           calendar.serial \notin raced' =>
               /\ calendar.creator \in calendar.members
               /\ calendar.going \cup calendar.reminded \subseteq calendar.members
    PROVE  IInv'
<1> DEFINE c == req[r].cal
<1>1. /\ DOMAIN calendars' = DOMAIN calendars
      /\ calendars'[c] = calendar
      /\ \A k \in DOMAIN calendars \ {c} : calendars'[k] = calendars[k]
  OBVIOUS
<1>2. AsLooked'
  <2>1. ASSUME NEW k \in DOMAIN calendars, ~changed \/ k # c PROVE Keeps(k)
    BY <1>1, <2>1 DEF Keeps, Members
  <2> QED BY <2>1, EndLooked DEF IInv
<1>3. TypeOK'
  <2>1. calendars' \in [DOMAIN calendars' -> Calendar]
    BY <1>1 DEF IInv, TypeOK
  <2> QED BY <1>1, <2>1, EndTyped DEF IInv, TypeOK
<1>4. InvitesCurrent'
  BY <1>1 DEF IInv, InvitesCurrent
<1>5. Inhabited' /\ NothingLeftBehind'
  BY <1>1 DEF IInv, Inhabited, NothingLeftBehind, Members
<1> QED BY <1>2, <1>3, <1>4, <1>5 DEF IInv

(* Who leaves is out of everything the calendar holds.                     *)
LEMMA OutTyped ==
    ASSUME NEW calendar \in Calendar, NEW u
    PROVE  /\ Out(calendar, u) \in Calendar
           /\ Out(calendar, u).serial = calendar.serial
           /\ Out(calendar, u).creator = calendar.creator
           /\ Out(calendar, u).members = calendar.members \ {u}
           /\ Out(calendar, u).going = calendar.going \ {u}
           /\ Out(calendar, u).reminded = calendar.reminded \ {u}
BY DEF Out, Calendar

LEMMA LeaveHolds == ASSUME IInv, NEW r \in Requests, Leave(r) PROVE IInv'
<1> DEFINE c == req[r].cal
           u == req[r].who
<1>1. c \in DOMAIN calendars /\ calendars[c] \in Calendar /\ End(r, TRUE)
  BY DEF Leave, Here, IInv, TypeOK
<1>2. PICK next \in People :
        /\ IF u = calendars[c].creator THEN next \in Members(c) \ {u}
           ELSE next = calendars[c].creator
        /\ calendars' = [calendars EXCEPT ![c] = [Out(@, u) EXCEPT !.creator = next]]
  BY DEF Leave
<1> DEFINE out == Out(calendars[c], u)
           calendar == [out EXCEPT !.creator = next]
<1>3. /\ out \in Calendar /\ out.serial = calendars[c].serial
      /\ out.members = Members(c) \ {u} /\ out.going = calendars[c].going \ {u}
      /\ out.reminded = calendars[c].reminded \ {u}
  BY <1>1, OutTyped DEF Members
<1>4. calendars' = [calendars EXCEPT ![c] = calendar]
  BY <1>2
<1> HIDE DEF out
<1>6. /\ calendar \in Calendar
      /\ calendar.serial = calendars[c].serial
      /\ calendar.creator = next
      /\ calendar.members = Members(c) \ {u}
      /\ calendar.going \cup calendar.reminded
            \subseteq (calendars[c].going \cup calendars[c].reminded) \ {u}
  BY <1>3 DEF Calendar
<1> HIDE DEF calendar
<1>7. calendar.serial \notin raced =>
        /\ calendar.creator \in calendar.members
        /\ calendar.going \cup calendar.reminded \subseteq calendar.members
  BY <1>1, <1>2, <1>6 DEF IInv, Inhabited, NothingLeftBehind
<1>8. UNCHANGED <<accounts, invites, spent, serial, raced>>
        /\ accounts \subseteq People /\ raced \subseteq Nat
  BY DEF Leave, IInv, TypeOK
<1> QED BY <1>1, <1>4, <1>6, <1>7, <1>8, WriteHolds DEF Members

(* The remover was the creator when it looked, and still is unless it was  *)
(* overtaken.                                                              *)
LEMMA RemoveHolds == ASSUME IInv, NEW r \in Requests, Remove(r) PROVE IInv'
<1> DEFINE c == req[r].cal
<1>1. c \in DOMAIN calendars /\ calendars[c] \in Calendar /\ End(r, TRUE) /\ NoteRace(r)
        /\ req[r].op = "remove"
  BY DEF Remove, Here, IInv, TypeOK
<1>2. PICK target \in req[r].others :
        calendars' = [calendars EXCEPT ![c] = Out(@, target)]
  BY DEF Remove
<1> DEFINE calendar == Out(calendars[c], target)
<1>3. /\ calendar \in Calendar /\ calendar.serial = calendars[c].serial
      /\ calendar.creator = calendars[c].creator
      /\ calendar.members = Members(c) \ {target}
      /\ calendar.going \cup calendar.reminded
            \subseteq (calendars[c].going \cup calendars[c].reminded) \ {target}
  BY <1>1, OutTyped DEF Members
<1>4. calendars' = [calendars EXCEPT ![c] = calendar]
  BY <1>2
<1> HIDE DEF calendar
<1>5. /\ raced \subseteq raced' /\ raced' \subseteq Nat
      /\ req[r].late => calendar.serial \in raced'
  BY <1>1, <1>3 DEF NoteRace, IInv, TypeOK, Calendar
<1>6. ~req[r].late => calendars[c].creator # target
  BY <1>1, <1>2 DEF IInv, AsLooked, Looked
<1>7. calendar.serial \notin raced' =>
        /\ calendar.creator \in calendar.members
        /\ calendar.going \cup calendar.reminded \subseteq calendar.members
  BY <1>1, <1>3, <1>5, <1>6 DEF IInv, Inhabited, NothingLeftBehind
<1>8. UNCHANGED <<accounts, invites, spent, serial>> /\ accounts \subseteq People
  BY DEF Remove, IInv, TypeOK
<1> QED BY <1>1, <1>3, <1>4, <1>5, <1>7, <1>8, WriteHolds DEF Members

-----------------------------------------------------------------------------
(* Writes to the event of a calendar: the request passed its checks and    *)
(* was not overtaken, or the calendar is noted.                            *)
LEMMA EventHolds ==
    ASSUME IInv, NEW r \in Requests, req[r].cal \in DOMAIN calendars, End(r, FALSE),
           NEW calendar \in Calendar, calendars' = [calendars EXCEPT ![req[r].cal] = calendar],
           calendar.serial = calendars[req[r].cal].serial,
           calendar.creator = calendars[req[r].cal].creator,
           calendar.members = calendars[req[r].cal].members,
           UNCHANGED <<accounts, invites, spent, serial>>,
           raced' = raced \/ NoteRace(r),
           \/ NoteRace(r) /\ req[r].late
           \/ calendar.serial \in raced
           \/ calendar.going \cup calendar.reminded \subseteq calendar.members
    PROVE  IInv'
<1> DEFINE c == req[r].cal
<1>1. calendars[c] \in Calendar
  BY DEF IInv, TypeOK
<1>2. /\ raced \subseteq raced' /\ raced' \subseteq Nat /\ accounts' \subseteq People
      /\ NoteRace(r) /\ req[r].late => calendar.serial \in raced'
  BY <1>1 DEF NoteRace, IInv, TypeOK, Calendar
<1>3. calendar.serial \notin raced' =>
        /\ calendar.creator \in calendar.members
        /\ calendar.going \cup calendar.reminded \subseteq calendar.members
  BY <1>2 DEF IInv, Inhabited, Members
<1> QED BY <1>2, <1>3, WriteHolds

LEMMA EditHolds ==
    ASSUME IInv, NEW r \in Requests, EditEvent(r) \/ PutReminders(r) \/ EraseEvent(r)
    PROVE  IInv'
<1> DEFINE c == req[r].cal
<1>1. c \in DOMAIN calendars /\ End(r, FALSE) /\ UNCHANGED <<accounts, invites, spent, serial>>
  BY DEF EditEvent, PutReminders, EraseEvent, Here
<1>2. /\ calendars[c] \in Calendar /\ req[r] \in Request /\ Looked(r)
      /\ calendars[c].serial \notin raced =>
            calendars[c].going \cup calendars[c].reminded \subseteq Members(c)
  BY <1>1 DEF IInv, TypeOK, AsLooked, NothingLeftBehind
<1>3. CASE EditEvent(r)
  <2> DEFINE calendar == [calendars[c] EXCEPT !.going = req[r].others,
                                              !.reminded = calendars[c].reminded]
  <2>1. req[r].op = "edit" /\ NoteRace(r)
    BY <1>3 DEF EditEvent, Here
  <2>2. calendars' = [calendars EXCEPT ![c] = calendar]
    BY <1>3, <1>2 DEF EditEvent, Calendar
  <2>3. req[r].others \in SUBSET People /\ calendars[c].reminded \in SUBSET People
    BY <1>2 DEF Request, Calendar
  <2>4. ~req[r].late => req[r].others \subseteq Members(c)
    BY <1>2, <2>1 DEF Looked
  <2>5. /\ calendar \in Calendar /\ calendar.serial = calendars[c].serial
        /\ calendar.creator = calendars[c].creator /\ calendar.members = Members(c)
        /\ calendar.going = req[r].others /\ calendar.reminded = calendars[c].reminded
    BY <2>3, <1>2 DEF Calendar, Members
  <2> HIDE DEF calendar
  <2> QED BY <1>1, <1>2, <2>1, <2>2, <2>4, <2>5, EventHolds DEF Members
<1>4. CASE PutReminders(r)
  <2>1. req[r].op = "remind" /\ NoteRace(r) /\ req[r].who \in People
    BY <1>4, <1>2 DEF PutReminders, Here, Looked
  <2>2. PICK some \in BOOLEAN :
           calendars' = [calendars EXCEPT ![c].reminded =
                            IF some THEN @ \cup {req[r].who} ELSE @ \ {req[r].who}]
    BY <1>4 DEF PutReminders
  <2> DEFINE reminded == IF some THEN calendars[c].reminded \cup {req[r].who}
                         ELSE calendars[c].reminded \ {req[r].who}
             calendar == [calendars[c] EXCEPT !.going = calendars[c].going,
                                              !.reminded = reminded]
  <2>3. calendars' = [calendars EXCEPT ![c] = calendar]
    BY <2>2, <1>2 DEF Calendar
  <2>4. calendars[c].going \in SUBSET People /\ reminded \in SUBSET People
    BY <1>2, <2>1 DEF Calendar
  <2>5. ~req[r].late => req[r].who \in Members(c)
    BY <1>2, <2>1 DEF Looked
  <2>6. reminded \subseteq calendars[c].reminded \cup {req[r].who}
    OBVIOUS
  <2> HIDE DEF reminded
  <2>7. /\ calendar \in Calendar /\ calendar.serial = calendars[c].serial
        /\ calendar.creator = calendars[c].creator /\ calendar.members = Members(c)
        /\ calendar.going = calendars[c].going /\ calendar.reminded = reminded
    BY <2>4, <1>2 DEF Calendar, Members
  <2> HIDE DEF calendar
  <2> QED BY <1>1, <1>2, <2>1, <2>3, <2>5, <2>6, <2>7, EventHolds DEF Members
<1>5. CASE EraseEvent(r)
  <2> DEFINE calendar == [calendars[c] EXCEPT !.going = {}, !.reminded = {}]
  <2>1. calendars' = [calendars EXCEPT ![c] = calendar] /\ raced' = raced
    BY <1>5, <1>2 DEF EraseEvent, Calendar
  <2>2. /\ calendar \in Calendar /\ calendar.serial = calendars[c].serial
        /\ calendar.creator = calendars[c].creator /\ calendar.members = Members(c)
        /\ calendar.going = {} /\ calendar.reminded = {}
    BY <1>2 DEF Calendar, Members
  <2> HIDE DEF calendar
  <2> QED BY <1>1, <2>1, <2>2, EventHolds DEF Members
<1> QED BY <1>3, <1>4, <1>5

LEMMA CountHolds == ASSUME IInv, NEW r \in Requests, CountMembers(r) PROVE IInv'
<1>1. /\ req[r].op = "count" /\ req[r] \in Request
      /\ req[r].cal \in DOMAIN calendars => AtMostOne(Members(req[r].cal))
      /\ UNCHANGED <<accounts, calendars, invites, spent, serial, raced>>
  BY DEF CountMembers, IInv, TypeOK
<1>2. req' = [req EXCEPT ![r] = [req[r] EXCEPT !.op = "delete"]]
  BY DEF CountMembers
<1>3. TypeOK'
  BY <1>1, <1>2 DEF IInv, TypeOK, Request
<1>4. AsLooked'
  <2> SUFFICES ASSUME NEW q \in Requests PROVE Looked(q)'
    BY DEF AsLooked
  <2>1. Looked(q) /\ Looked(r) /\ req \in [Requests -> Request]
    BY DEF IInv, AsLooked, TypeOK
  <2>2. CASE q = r
    <3>1. /\ req'[q].op = "delete" /\ req'[q].who = req[r].who /\ req'[q].cal = req[r].cal
          /\ req'[q].named = req[r].named /\ req'[q].late = req[r].late
      BY <1>1, <1>2, <2>1, <2>2 DEF Request
    <3> QED BY <3>1, <2>1, <2>2, <1>1 DEF Looked, Members
  <2>3. CASE q # r
    BY <1>1, <1>2, <2>1, <2>3 DEF Looked, Members
  <2> QED BY <2>2, <2>3
<1>5. InvitesCurrent' /\ Inhabited' /\ NothingLeftBehind'
  BY <1>1 DEF IInv, InvitesCurrent, Inhabited, NothingLeftBehind, Members
<1> QED BY <1>3, <1>4, <1>5 DEF IInv

LEMMA CreateInviteHolds ==
    ASSUME IInv, NEW r \in Requests, CreateInvite(r) PROVE IInv'
<1> DEFINE c == req[r].cal
<1>1. c \in DOMAIN calendars /\ c \in CalendarIds /\ calendars[c].serial \in Nat /\ End(r, FALSE)
        /\ UNCHANGED <<accounts, calendars, serial, raced>>
  BY DEF CreateInvite, Here, IInv, TypeOK, Calendar
<1>2. PICK t \in Tokens :
        /\ invites' = Insert(invites, t, [cal |-> c, open |-> TRUE,
                                          named |-> calendars[c].serial])
        /\ spent' = spent \cup {t}
  BY DEF CreateInvite
<1>3. /\ DOMAIN invites' = DOMAIN invites \cup {t}
      /\ invites'[t] = [cal |-> c, open |-> TRUE, named |-> calendars[c].serial]
      /\ \A i \in DOMAIN invites \ {t} : invites'[i] = invites[i]
      /\ invites' = [i \in DOMAIN invites' |-> invites'[i]]
  BY <1>2 DEF Insert
<1>4. TypeOK'
  <2>1. invites'[t] \in Invite
    BY <1>1, <1>3 DEF Invite
  <2>2. invites' \in [DOMAIN invites' -> Invite]
    BY <1>3, <2>1 DEF IInv, TypeOK
  <2> QED BY <1>1, <1>2, <1>3, <2>2, EndTyped DEF IInv, TypeOK
<1>5. AsLooked'
  BY <1>1, EndLooked DEF IInv, Keeps, Members
<1>6. InvitesCurrent'
  BY <1>1, <1>3 DEF IInv, InvitesCurrent
<1>7. Inhabited' /\ NothingLeftBehind'
  BY <1>1 DEF IInv, Inhabited, NothingLeftBehind, Members
<1> QED BY <1>4, <1>5, <1>6, <1>7 DEF IInv

LEMMA SignupHolds == ASSUME IInv, NEW r \in Requests, Signup(r) PROVE IInv'
<1> DEFINE c == req[r].cal
           calendar == [calendars[c] EXCEPT !.members = @ \cup {req[r].who}]
<1>1. /\ c \in DOMAIN calendars /\ calendars[c] \in Calendar /\ req[r].who \in People
      /\ End(r, TRUE) /\ accounts' \subseteq People
      /\ UNCHANGED <<invites, spent, serial, raced>> /\ raced \subseteq Nat
  BY DEF Signup, Here, IInv, TypeOK, AsLooked, Looked
<1>2. calendars' = [calendars EXCEPT ![c] = calendar]
  BY DEF Signup
<1>3. /\ calendar \in Calendar /\ calendar.serial = calendars[c].serial
      /\ calendar.creator = calendars[c].creator
      /\ calendar.members = Members(c) \cup {req[r].who}
      /\ calendar.going = calendars[c].going /\ calendar.reminded = calendars[c].reminded
  BY <1>1 DEF Calendar, Members
<1> HIDE DEF calendar
<1>4. calendar.serial \notin raced =>
        /\ calendar.creator \in calendar.members
        /\ calendar.going \cup calendar.reminded \subseteq calendar.members
  BY <1>1, <1>3 DEF IInv, Inhabited, NothingLeftBehind
<1> QED BY <1>1, <1>2, <1>3, <1>4, WriteHolds

(* A calendar of its own disturbs no request: those that were not          *)
(* overtaken are about calendars that exist.                               *)
LEMMA CreateCalendarHolds ==
    ASSUME IInv, NEW u \in accounts, CreateCalendar(u) PROVE IInv'
<1> DEFINE calendar == [serial |-> serial', creator |-> u, members |-> {u},
                        going |-> {}, reminded |-> {}]
<1>1. /\ serial' \in Nat /\ u \in People
      /\ UNCHANGED <<accounts, invites, spent, req, raced>>
  BY DEF CreateCalendar, IInv, TypeOK
<1>2. PICK c \in CalendarIds : IsNextId(calendars, c) /\ calendars' = Insert(calendars, c, calendar)
  BY DEF CreateCalendar
<1>3. c \notin DOMAIN calendars
  BY <1>2, HouseholdConstants DEF IsNextId
<1>4. /\ calendar \in Calendar /\ calendar.creator \in calendar.members
      /\ calendar.going \cup calendar.reminded \subseteq calendar.members
  BY <1>1 DEF Calendar
<1> HIDE DEF calendar
<1>5. /\ DOMAIN calendars' = DOMAIN calendars \cup {c}
      /\ calendars'[c] = calendar
      /\ \A k \in DOMAIN calendars : calendars'[k] = calendars[k]
      /\ calendars' = [k \in DOMAIN calendars' |-> calendars'[k]]
  BY <1>2, <1>3 DEF Insert
<1>6. TypeOK'
  <2>1. calendars' \in [DOMAIN calendars' -> Calendar]
    BY <1>4, <1>5 DEF IInv, TypeOK
  <2> QED BY <1>1, <1>5, <2>1 DEF IInv, TypeOK
<1>7. AsLooked'
  <2> SUFFICES ASSUME NEW q \in Requests PROVE Looked(q)'
    BY DEF AsLooked
  <2>1. Looked(q) /\ req'[q] = req[q]
    BY <1>1 DEF IInv, AsLooked
  <2>2. CASE req[q].op # "none" /\ ~req[q].late
    <3>1. req[q].cal \in DOMAIN calendars
      BY <2>1, <2>2 DEF Looked
    <3> QED BY <3>1, <2>1, <1>5 DEF Looked, Members
  <2>3. CASE ~(req[q].op # "none" /\ ~req[q].late)
    BY <2>1, <2>3 DEF Looked
  <2> QED BY <2>2, <2>3
<1>8. InvitesCurrent'
  BY <1>1, <1>5 DEF IInv, InvitesCurrent
<1>9. Inhabited' /\ NothingLeftBehind'
  BY <1>1, <1>4, <1>5 DEF IInv, Inhabited, NothingLeftBehind, Members
<1> QED BY <1>6, <1>7, <1>8, <1>9 DEF IInv

LEMMA CloseInviteHolds ==
    ASSUME IInv, NEW t \in DOMAIN invites, CloseInvite(t) PROVE IInv'
<1>1. /\ invites \in [DOMAIN invites -> Invite]
      /\ invites' = [invites EXCEPT ![t].open = FALSE]
      /\ UNCHANGED <<accounts, calendars, spent, req, serial, raced>>
  BY DEF CloseInvite, IInv, TypeOK
<1>2. /\ DOMAIN invites' = DOMAIN invites
      /\ invites' \in [DOMAIN invites -> Invite]
      /\ \A i \in DOMAIN invites :
            invites'[i].cal = invites[i].cal /\ invites'[i].named = invites[i].named
  BY <1>1 DEF Invite
<1>3. TypeOK'
  BY <1>1, <1>2 DEF IInv, TypeOK
<1>4. AsLooked' /\ InvitesCurrent'
  BY <1>1, <1>2 DEF IInv, AsLooked, Looked, InvitesCurrent, Members
<1>5. Inhabited' /\ NothingLeftBehind'
  BY <1>1 DEF IInv, Inhabited, NothingLeftBehind, Members
<1> QED BY <1>3, <1>4, <1>5 DEF IInv

LEMMA StutterHolds == ASSUME IInv, UNCHANGED vars PROVE IInv'
BY DEF vars, IInv, TypeOK, AsLooked, Looked, InvitesCurrent, Inhabited, NothingLeftBehind, Members

-----------------------------------------------------------------------------
LEMMA ActHolds == ASSUME IInv, NEW r \in Requests, Act(r) PROVE IInv'
<1>1. CASE LeaveNothing(r) \/ RemoveNothing(r) \/ CountOthers(r)
  BY <1>1, RefuseHolds DEF LeaveNothing, RemoveNothing, CountOthers
<1>2. CASE LeaveLast(r) \/ Delete(r)
  BY <1>2, DropHolds DEF LeaveLast, Delete, Here
<1>3. CASE Leave(r)
  BY <1>3, LeaveHolds
<1>4. CASE Remove(r)
  BY <1>4, RemoveHolds
<1>5. CASE CountMembers(r)
  BY <1>5, CountHolds
<1>6. CASE EditEvent(r) \/ PutReminders(r) \/ EraseEvent(r)
  BY <1>6, EditHolds
<1>7. CASE CreateInvite(r)
  BY <1>7, CreateInviteHolds
<1>8. CASE Signup(r)
  BY <1>8, SignupHolds
<1> QED BY <1>1, <1>2, <1>3, <1>4, <1>5, <1>6, <1>7, <1>8 DEF Act

LEMMA NextHolds == ASSUME IInv, [Next]_vars PROVE IInv'
<1>1. CASE \E r \in Requests : Ask(r)
  BY <1>1, AskHolds
<1>2. CASE \E r \in Requests : Act(r)
  BY <1>2, ActHolds
<1>3. CASE \E r \in Requests : Cancel(r)
  BY <1>3, RefuseHolds DEF Cancel
<1>4. CASE \E u \in accounts : CreateCalendar(u)
  BY <1>4, CreateCalendarHolds
<1>5. CASE \E t \in DOMAIN invites : CloseInvite(t)
  BY <1>5, CloseInviteHolds
<1>6. CASE UNCHANGED vars
  BY <1>6, StutterHolds
<1> QED BY <1>1, <1>2, <1>3, <1>4, <1>5, <1>6 DEF Next

LEMMA Invariance == Spec => []IInv
<1>1. Init => IInv
  BY InitHolds
<1>2. IInv /\ [Next]_vars => IInv'
  BY NextHolds
<1> QED BY <1>1, <1>2, PTL DEF Spec

(* Every variable keeps the shape of the tables and requests it stands for.*)
THEOREM TypeCorrect == Spec => []TypeOK
<1>1. IInv => TypeOK
  BY DEF IInv
<1> QED BY <1>1, Invariance, PTL

(* No calendar is left without the creator among its members, whoever      *)
(* leaves, joins or is removed at once (handleLeaveCalendar), unless a     *)
(* removal was overtaken by a departure.                                   *)
THEOREM CreatorStays == Spec => []Inhabited
<1>1. IInv => Inhabited
  BY DEF IInv
<1> QED BY <1>1, Invariance, PTL

(* Nobody who left is still on an event or has reminders there             *)
(* (Store.RemoveMember), unless an edit was overtaken by the departure.    *)
THEOREM DepartureIsComplete == Spec => []NothingLeftBehind
<1>1. IInv => NothingLeftBehind
  BY DEF IInv
<1> QED BY <1>1, Invariance, PTL

(* An invitation admits to the calendar it was made for, though ids are    *)
(* handed out again (handleSignup).                                        *)
THEOREM InvitedThere == Spec => JoinsTheNamed
<1>1. IInv /\ [Next]_vars =>
        [\A r \in Requests :
            Signup(r) => calendars[req[r].cal].serial = req[r].named \/ req[r].late]_vars
  <2> SUFFICES ASSUME IInv, NEW r \in Requests, Signup(r)
               PROVE  calendars[req[r].cal].serial = req[r].named \/ req[r].late
    OBVIOUS
  <2>1. Looked(r) /\ req[r].op # "none"
    BY DEF IInv, AsLooked, Signup, Here
  <2> QED BY <2>1 DEF Looked
<1> QED BY <1>1, Invariance, PTL DEF Spec, JoinsTheNamed

(* The last one out deletes a calendar, and a member's cleanup takes it    *)
(* from nobody who was there when it counted (handleLeaveCalendar,         *)
(* handleDeleteCalendar).                                                  *)
THEOREM DeletionSparesOthers == Spec => SparesOthers
<1> DEFINE Spares(r) ==
      LET c == req[r].cal
      IN  /\ req[r].op \in {"leave", "delete"}
          /\ req[r].op # req'[r].op /\ Deletes(c)
          /\ req[r].who \in Members(c)
          /\ req[r].op = "delete" => ~req[r].late
          => Members(c) = {req[r].who}
<1>1. ASSUME IInv, NEW q \in Requests, NEW r \in Requests, Act(q),
             req[r].op \in {"leave", "delete"}, req[r].op # req'[r].op, Deletes(req[r].cal),
             req[r].who \in Members(req[r].cal), req[r].op = "delete" => ~req[r].late
      PROVE  AtMostOne(Members(req[r].cal))
  <2>1. TypeOK /\ Looked(r)
    BY <1>1 DEF IInv, AsLooked
  <2>2. CASE req[r].op = "delete"
    BY <1>1, <2>1, <2>2 DEF Looked
  <2>3. CASE req[r].op = "leave"
    <3>1. CASE LeaveLast(q) \/ Delete(q)
      <4>1. End(q, TRUE)
        BY <3>1 DEF LeaveLast, Delete
      <4>2. r = q
        BY <4>1, <2>1, <1>1, EndTyped
      <4> QED BY <4>2, <3>1, <2>3 DEF LeaveLast, Delete, Here
    <3>2. CASE ~(LeaveLast(q) \/ Delete(q))
      <4>1. DOMAIN calendars' = DOMAIN calendars
        BY <1>1, <3>2 DEF Act, Refuse, LeaveNothing, RemoveNothing, CountOthers, Leave, Remove,
              CountMembers, EditEvent, PutReminders, EraseEvent, CreateInvite, Signup
      <4> QED BY <4>1, <1>1 DEF Deletes
    <3> QED BY <3>1, <3>2
  <2> QED BY <1>1, <2>2, <2>3
<1>2. ASSUME IInv, [Next]_vars, NEW r \in Requests PROVE Spares(r)
  <2> SUFFICES ASSUME req[r].op \in {"leave", "delete"}, req[r].op # req'[r].op,
                      Deletes(req[r].cal), req[r].who \in Members(req[r].cal),
                      req[r].op = "delete" => ~req[r].late
               PROVE  Members(req[r].cal) = {req[r].who}
    OBVIOUS
  <2>1. \E q \in Requests : Act(q)
    <3>1. CASE UNCHANGED calendars
      BY <3>1 DEF Deletes
    <3>2. CASE \E u \in accounts : CreateCalendar(u)
      BY <3>2 DEF CreateCalendar, Insert, Deletes
    <3>3. ASSUME NEW q \in Requests, Ask(q) PROVE UNCHANGED calendars
      BY <3>3 DEF Ask, Begin, BeginLeave, BeginDelete, BeginInvite, BeginReminders,
            BeginErase, BeginEdit, BeginRemove, BeginSignup
    <3>4. ASSUME NEW q \in Requests, Cancel(q) PROVE UNCHANGED calendars
      BY <3>4 DEF Cancel, Refuse
    <3>5. ASSUME NEW t \in DOMAIN invites, CloseInvite(t) PROVE UNCHANGED calendars
      BY <3>5 DEF CloseInvite
    <3>6. UNCHANGED vars => UNCHANGED calendars
      BY DEF vars
    <3> QED BY <1>2, <3>1, <3>2, <3>3, <3>4, <3>5, <3>6 DEF Next
  <2>2. AtMostOne(Members(req[r].cal))
    BY <2>1, <1>1, <1>2
  <2> QED BY <2>2 DEF AtMostOne
<1>3. IInv /\ [Next]_vars => [\A r \in Requests : Spares(r)]_vars
  BY <1>2
<1> QED BY <1>3, Invariance, PTL DEF Spec, SparesOthers
=============================================================================
