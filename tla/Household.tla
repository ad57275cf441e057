------------------------------ MODULE Household ------------------------------
(***************************************************************************)
(* Who belongs to which calendar. Each HTTP request is a goroutine: it     *)
(* looks at the database to see whether its caller may do what it asks     *)
(* (requireMember, the creator of the calendar, the participants of an     *)
(* event, the invitation) and changes the database in a later transaction, *)
(* or never (the request is cancelled, the process stops). Requests        *)
(* interleave between the two. The handlers are those of                   *)
(* internal/httpapi/calendars.go and auth.go and the services they call.   *)
(*                                                                         *)
(* A calendar is followed with one event of it, with the event's           *)
(* participants and the members who set reminders on it. Calendar ids are  *)
(* handed out again (Rowid); members, requests and invitation tokens are   *)
(* names.                                                                  *)
(***************************************************************************)
EXTENDS Rowid, FiniteSets

CONSTANTS
    People,       \* accounts, made or to be made
    Founder,      \* the account cmd/almanack bootstrap makes
    Tokens,       \* invitation tokens
    Requests,     \* bound: requests in flight at once
    CalendarIds,  \* bound: calendar ids
    MaxCalendars, \* bound: calendars ever made
    None          \* no account, no token

ASSUME HouseholdConstants ==
    /\ Founder \in People
    /\ CalendarIds \subseteq Nat \ {0}
    /\ 1 \in CalendarIds
    /\ MaxCalendars \in Nat \ {0}
    /\ None \notin People \cup Tokens

VARIABLES
    accounts,   \* users
    calendars,  \* calendars, calendar_members, event_participants, reminders
    invites,    \* invites, by token
    spent,      \* tokens that were drawn: none is drawn twice
    req,        \* the local state of each request
    serial,     \* history: calendars ever made
    raced       \* history: calendars written to by an overtaken request

vars == <<accounts, calendars, invites, spent, req, serial, raced>>

Calendar == [serial   : Nat,              \* history: which one it is
             creator  : People,
             members  : SUBSET People,
             going    : SUBSET People,    \* participants of its event
             reminded : SUBSET People]    \* reminders, reminder_detachments

Invite == [cal : CalendarIds, open : BOOLEAN,
           named : Nat]                   \* history: the calendar it was made for

Request == [op     : {"none", "leave", "remove", "count", "delete", "edit",
                      "remind", "erase", "mint", "join"},
            who    : People \cup {None},
            cal    : CalendarIds,
            others : SUBSET People,       \* whom it names
            named  : Nat,                 \* history: the calendar it looked at
            late   : BOOLEAN]             \* history: overtaken since it looked

NoRequest == [op |-> "none", who |-> None, cal |-> 1, others |-> {}, named |-> 0,
              late |-> FALSE]

Members(c) == calendars[c].members

(* COUNT( * ) <= 1 *)
AtMostOne(people) == \A a, b \in people : a = b

-----------------------------------------------------------------------------
(* almanack bootstrap: one account, one calendar, one invitation. *)
Init ==
    /\ accounts = {Founder}
    /\ calendars = [c \in {1} |-> [serial |-> 1, creator |-> Founder, members |-> {Founder},
                                   going |-> {}, reminded |-> {}]]
    /\ \E t \in Tokens :
          /\ invites = [i \in {t} |-> [cal |-> 1, open |-> TRUE, named |-> 1]]
          /\ spent = {t}
    /\ req = [r \in Requests |-> NoRequest]
    /\ serial = 1
    /\ raced = {}

-----------------------------------------------------------------------------
(* The first half of a request: what it finds allows it to go on. *)

Begin(r, op, who, c, others) ==
    /\ req[r].op = "none"
    /\ req' = [req EXCEPT ![r] =
                  [op |-> op, who |-> who, cal |-> c, others |-> others,
                   named |-> calendars[c].serial, late |-> FALSE]]
    /\ UNCHANGED <<accounts, calendars, invites, spent, serial, raced>>

(* requireMember *)
BeginLeave(r, u, c) == u \in Members(c) /\ Begin(r, "leave", u, c, {})
BeginDelete(r, u, c) == u \in Members(c) /\ Begin(r, "count", u, c, {})
BeginInvite(r, u, c) == u \in Members(c) /\ Begin(r, "mint", u, c, {})
BeginReminders(r, u, c) == u \in Members(c) /\ Begin(r, "remind", u, c, {u})

(* handleRemoveMember asks who the creator is, not who the members are. *)
BeginRemove(r, u, c, target) ==
    /\ calendars[c].creator = u
    /\ target # u
    /\ Begin(r, "remove", u, c, {target})

(* Bound: an edit invites everybody, or the caller alone. *)
Invited(u, c) == {{u}, Members(c)}

(* Service.authorize and Service.validate *)
BeginEdit(r, u, c, going) ==
    /\ u \in Members(c)
    /\ going \subseteq Members(c)
    /\ Begin(r, "edit", u, c, going)

BeginErase(r, u, c) == u \in Members(c) /\ Begin(r, "erase", u, c, {})

(* InviteByToken *)
BeginSignup(r, u, t) ==
    /\ u \notin accounts
    /\ invites[t].open
    /\ req[r].op = "none"
    /\ req' = [req EXCEPT ![r] =
                  [op |-> "join", who |-> u, cal |-> invites[t].cal, others |-> {},
                   named |-> invites[t].named, late |-> FALSE]]
    /\ UNCHANGED <<accounts, calendars, invites, spent, serial, raced>>

-----------------------------------------------------------------------------
(* The second half: the transaction. *)

(* Request r is over; when it changed who is in its calendar, it has       *)
(* overtaken every other request about that calendar.                      *)
End(r, changed) ==
    req' = [q \in Requests |->
               IF q = r THEN NoRequest
               ELSE IF changed /\ req[q].op # "none" /\ req[q].cal = req[r].cal
               THEN [req[q] EXCEPT !.late = TRUE] ELSE req[q]]

(* Nothing was found to change, or the request was cut short. *)
Refuse(r) == End(r, FALSE) /\ UNCHANGED <<accounts, calendars, invites, spent, serial, raced>>

Cancel(r) == req[r].op # "none" /\ Refuse(r)

NoteRace(r) ==
    raced' = IF req[r].late THEN raced \cup {calendars[req[r].cal].serial} ELSE raced

(* Mutation: the foreign key of invites loses ON DELETE CASCADE. *)
DropKeepingInvites(c) ==
    /\ calendars' = Without(calendars, {c})
    /\ UNCHANGED invites

(* Store.DeleteCalendar; what hangs off the calendar cascades. *)
Drop(c) ==
    /\ calendars' = Without(calendars, {c})
    /\ invites' = Without(invites, {t \in DOMAIN invites : invites[t].cal = c})

(* Mutation: the membership row alone goes. *)
OutOnly(calendar, u) == [calendar EXCEPT !.members = @ \ {u}]

(* Store.RemoveMember: everything that was only there because of it. *)
Out(calendar, u) ==
    [calendar EXCEPT !.members = @ \ {u}, !.going = @ \ {u}, !.reminded = @ \ {u}]

Here(r, op) == req[r].op = op /\ req[r].cal \in DOMAIN calendars

(* handleLeaveCalendar: the calendar is gone. *)
LeaveNothing(r) ==
    /\ req[r].op = "leave"
    /\ \/ req[r].cal \notin DOMAIN calendars
       \/ /\ req[r].cal \in DOMAIN calendars
          /\ ~AtMostOne(Members(req[r].cal))       \* RemoveMember finds no row
          /\ req[r].who \notin Members(req[r].cal)
    /\ Refuse(r)

(* The last member out deletes it. *)
LeaveLast(r) ==
    /\ Here(r, "leave")
    /\ AtMostOne(Members(req[r].cal))
    /\ Drop(req[r].cal)
    /\ End(r, TRUE)
    /\ UNCHANGED <<accounts, spent, serial, raced>>

(* Mutation: nobody takes over from a creator who leaves. *)
LeaveVacant(r) ==
    LET c == req[r].cal
        u == req[r].who
    IN  /\ Here(r, "leave")
        /\ ~AtMostOne(Members(c))
        /\ u \in Members(c)
        /\ calendars' = [calendars EXCEPT ![c] =
               [Out(@, u) EXCEPT !.creator = IF u = @ THEN None ELSE @]]
        /\ End(r, TRUE)
        /\ UNCHANGED <<accounts, invites, spent, serial, raced>>

(* TransferCreator and RemoveMember. The next creator is the longest-      *)
(* standing other member; no property tells which one that is.             *)
Leave(r) ==
    LET c == req[r].cal
        u == req[r].who
    IN  /\ Here(r, "leave")
        /\ ~AtMostOne(Members(c))
        /\ u \in Members(c)
        /\ \E next \in People :
              /\ IF u = calendars[c].creator THEN next \in Members(c) \ {u}
                 ELSE next = calendars[c].creator
              /\ calendars' = [calendars EXCEPT ![c] = [Out(@, u) EXCEPT !.creator = next]]
        /\ End(r, TRUE)
        /\ UNCHANGED <<accounts, invites, spent, serial, raced>>

(* handleRemoveMember *)
Remove(r) ==
    LET c == req[r].cal
    IN  /\ Here(r, "remove")
        /\ req[r].others \subseteq Members(c)
        /\ \E target \in req[r].others :
              calendars' = [calendars EXCEPT ![c] = Out(@, target)]
        /\ NoteRace(r)
        /\ End(r, TRUE)
        /\ UNCHANGED <<accounts, invites, spent, serial>>

RemoveNothing(r) ==
    /\ req[r].op = "remove"
    /\ \/ req[r].cal \notin DOMAIN calendars
       \/ /\ req[r].cal \in DOMAIN calendars
          /\ ~(req[r].others \subseteq Members(req[r].cal))
    /\ Refuse(r)

(* Mutation: handleDeleteCalendar does not count. *)
CountNobody(r) ==
    /\ req[r].op = "count"
    /\ req' = [req EXCEPT ![r].op = "delete"]
    /\ UNCHANGED <<accounts, calendars, invites, spent, serial, raced>>

(* handleDeleteCalendar counts the members, ... *)
CountMembers(r) ==
    /\ req[r].op = "count"
    /\ req[r].cal \in DOMAIN calendars => AtMostOne(Members(req[r].cal))
    /\ req' = [req EXCEPT ![r].op = "delete"]
    /\ UNCHANGED <<accounts, calendars, invites, spent, serial, raced>>

CountOthers(r) ==
    /\ Here(r, "count")
    /\ ~AtMostOne(Members(req[r].cal))
    /\ Refuse(r)

(* ... and then deletes. *)
Delete(r) ==
    /\ Here(r, "delete")
    /\ Drop(req[r].cal)
    /\ End(r, TRUE)
    /\ UNCHANGED <<accounts, spent, serial, raced>>

(* Service.Create and Service.Update: the event and its participants. *)
EditEvent(r) ==
    /\ Here(r, "edit")
    /\ calendars' = [calendars EXCEPT ![req[r].cal].going = req[r].others]
    /\ NoteRace(r)
    /\ End(r, FALSE)
    /\ UNCHANGED <<accounts, invites, spent, serial>>

(* Service.Delete: the event, its participants and its reminders. *)
EraseEvent(r) ==
    /\ Here(r, "erase")
    /\ calendars' = [calendars EXCEPT ![req[r].cal].going = {}, ![req[r].cal].reminded = {}]
    /\ End(r, FALSE)
    /\ UNCHANGED <<accounts, invites, spent, serial, raced>>

(* Store.ReplaceReminders, for the caller alone; an empty list clears. *)
PutReminders(r) ==
    /\ Here(r, "remind")
    /\ \E some \in BOOLEAN :
          calendars' = [calendars EXCEPT ![req[r].cal].reminded =
                           IF some THEN @ \cup {req[r].who} ELSE @ \ {req[r].who}]
    /\ NoteRace(r)
    /\ End(r, FALSE)
    /\ UNCHANGED <<accounts, invites, spent, serial>>

(* Store.CreateInvite *)
CreateInvite(r) ==
    /\ Here(r, "mint")
    /\ \E t \in Tokens \ spent :
          /\ invites' = Insert(invites, t, [cal |-> req[r].cal, open |-> TRUE,
                                            named |-> calendars[req[r].cal].serial])
          /\ spent' = spent \cup {t}
    /\ End(r, FALSE)
    /\ UNCHANGED <<accounts, calendars, serial, raced>>

(* handleSignup: the account and its membership are one transaction, which *)
(* fails when the calendar is gone or the address taken.                   *)
Signup(r) ==
    /\ Here(r, "join")
    /\ req[r].who \notin accounts
    /\ accounts' = accounts \cup {req[r].who}
    /\ calendars' = [calendars EXCEPT ![req[r].cal].members = @ \cup {req[r].who}]
    /\ End(r, TRUE)
    /\ UNCHANGED <<invites, spent, serial, raced>>

-----------------------------------------------------------------------------
(* Requests of one transaction, and time. *)

CreateCalendar(u) ==
    /\ serial < MaxCalendars
    /\ serial' = serial + 1
    /\ \E c \in CalendarIds :
          /\ IsNextId(calendars, c)
          /\ calendars' = Insert(calendars, c,
                [serial |-> serial', creator |-> u, members |-> {u},
                 going |-> {}, reminded |-> {}])
    /\ UNCHANGED <<accounts, invites, spent, req, raced>>

(* handleRevokeInvite by a member, or the seven days are over. *)
CloseInvite(t) ==
    /\ invites[t].open
    /\ invites' = [invites EXCEPT ![t].open = FALSE]
    /\ UNCHANGED <<accounts, calendars, spent, req, serial, raced>>

-----------------------------------------------------------------------------
Ask(r) ==
    \/ \E c \in DOMAIN calendars, u \in accounts :
          \/ BeginLeave(r, u, c) \/ BeginDelete(r, u, c) \/ BeginInvite(r, u, c)
          \/ BeginReminders(r, u, c) \/ BeginErase(r, u, c)
          \/ \E going \in Invited(u, c) : BeginEdit(r, u, c, going)
          \/ \E target \in accounts : BeginRemove(r, u, c, target)
    \/ \E u \in People, t \in DOMAIN invites : BeginSignup(r, u, t)

Act(r) ==
    \/ LeaveNothing(r) \/ LeaveLast(r) \/ Leave(r)
    \/ Remove(r) \/ RemoveNothing(r)
    \/ CountMembers(r) \/ CountOthers(r) \/ Delete(r)
    \/ EditEvent(r) \/ EraseEvent(r) \/ PutReminders(r)
    \/ CreateInvite(r) \/ Signup(r)

Next ==
    \/ \E r \in Requests : Ask(r) \/ Act(r) \/ Cancel(r)
    \/ \E u \in accounts : CreateCalendar(u)
    \/ \E t \in DOMAIN invites : CloseInvite(t)

Spec == Init /\ [][Next]_vars

-----------------------------------------------------------------------------
TypeOK ==
    /\ accounts \subseteq People
    /\ DOMAIN calendars \subseteq CalendarIds
    /\ calendars \in [DOMAIN calendars -> Calendar]
    /\ DOMAIN invites \subseteq Tokens
    /\ invites \in [DOMAIN invites -> Invite]
    /\ spent \subseteq Tokens
    /\ req \in [Requests -> Request]
    /\ serial \in Nat
    /\ raced \subseteq Nat

(* "A calendar with no members at all, which no query returns to anybody   *)
(* and which nothing left in the application can reach" never comes to be, *)
(* and the creator, who alone may remove others, is always one of the      *)
(* members: through any number of members leaving at once, of deletions,   *)
(* invitations and requests cut short. Only the removal of a member that   *)
(* was overtaken by a departure may break it (handleLeaveCalendar).        *)
Inhabited ==
    \A c \in DOMAIN calendars : calendars[c].serial \notin raced =>
        calendars[c].creator \in Members(c)

(* "An ex-member still shown on other people's events", or with reminders  *)
(* that would fire again on the day they are invited back, does not exist  *)
(* (Store.RemoveMember), unless a write that had checked the members was   *)
(* overtaken by the departure.                                             *)
NothingLeftBehind ==
    \A c \in DOMAIN calendars : calendars[c].serial \notin raced =>
        calendars[c].going \cup calendars[c].reminded \subseteq Members(c)

(* An invitation admits to the calendar it was made for and to no later    *)
(* one under the same id, unless that calendar was deleted while the       *)
(* account was being made (handleSignup).                                  *)
JoinsTheNamed ==
    [][\A r \in Requests :
          Signup(r) => calendars[req[r].cal].serial = req[r].named \/ req[r].late]_vars

Deletes(c) == c \in DOMAIN calendars /\ c \notin DOMAIN calendars'

(* "One member's cleanup is not another's" (handleDeleteCalendar): a       *)
(* request that deletes a calendar takes it from nobody but its caller,    *)
(* when the caller is still a member and nobody joined since it counted.   *)
SparesOthers ==
    [][\A r \in Requests :
          LET c == req[r].cal
          IN  /\ req[r].op \in {"leave", "delete"}
              /\ req[r].op # req'[r].op /\ Deletes(c)
              /\ req[r].who \in Members(c)
              /\ req[r].op = "delete" => ~req[r].late
              => Members(c) = {req[r].who}]_vars
=============================================================================
