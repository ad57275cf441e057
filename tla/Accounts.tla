------------------------------ MODULE Accounts ------------------------------
(***************************************************************************)
(* Passwords, sessions and reset links: handleLogin, requireSession,       *)
(* handlePatchMe, handleLogout, handleResetRequest and handleResetConfirm  *)
(* over the tables users, sessions and password_resets. A request is a     *)
(* goroutine whose statements are separate transactions: every step below  *)
(* is one statement, requests interleave between them, and any statement   *)
(* may be the last one (it fails, the client goes away, the process        *)
(* stops).                                                                 *)
(*                                                                         *)
(* A password is the number of times the account's was set; a stored hash  *)
(* either verifies or it does not. Of the profile only that it is written  *)
(* is kept. A cookie names a session by a token that is never drawn twice, *)
(* the touch of a session names it by its id, which may be (Rowid).        *)
(***************************************************************************)
EXTENDS Rowid, FiniteSets

CONSTANTS
    Users,        \* accounts
    Requests,     \* bound: requests in flight at once
    Links,        \* bound: reset links ever mailed
    SessionIds,   \* bound: session ids
    MaxTokens,    \* bound: sessions ever made
    MaxPasswords, \* bound: passwords ever set, per account
    SessionTTL, PasswordResetTTL, TouchInterval,
    MaxStall,     \* bound: how long a touch is on its way
    MaxTime,      \* bound: the end of time
    None

ASSUME AccountsConstants ==
    /\ SessionIds \subseteq Nat \ {0}
    /\ {MaxTokens, MaxPasswords, MaxStall, MaxTime} \subseteq Nat
    /\ {SessionTTL, PasswordResetTTL, TouchInterval} \subseteq Nat
    /\ MaxStall <= TouchInterval
    /\ None \notin Users \cup Links

VARIABLES
    clock,
    password,  \* users.password_hash: which password it is of
    sessions,  \* sessions, by id
    links,     \* password_resets, by token
    req,       \* the local state of each request
    tokens,    \* tokens drawn so far
    settled    \* history: the last password whose change was answered with success

vars == <<clock, password, sessions, links, req, tokens, settled>>

Session == [token : Nat, who : Users, seen : Nat, expires : Int,
            born : Nat,  \* history: the password when the row was made
            used : Nat]  \* history: its last use

Link == [who : Users, expires : Nat, used : BOOLEAN,
         sets : Nat]     \* history: passwords set by it

Request == [op      : {"none", "login", "view", "profile", "change", "reset"},
            step    : {"idle", "touch", "check", "save", "set", "end", "start"},
            who     : Users \cup {None},
            id      : Nat,          \* the session it is to touch
            link    : Links \cup {None},
            now     : Nat,          \* the clock it read for that
            set     : Nat,          \* history: the password it set, 0 none
            wrote   : BOOLEAN]      \* history: it changed the account

Ready == [op |-> "none", step |-> "idle", who |-> None, id |-> 0, link |-> None, now |-> 0,
          set |-> 0, wrote |-> FALSE]

Idle == {r \in Requests : req[r].step = "idle"}

\* Mutant: the sessions go before the password does.
AfterEnding(op, step) ==
    CASE step = "spend" -> "end"
      [] step = "touch" -> IF op = "view" THEN "idle" ELSE "check"
      [] step = "check" -> IF op = "login" THEN "start" ELSE "save"
      [] step = "save"  -> IF op = "change" THEN "end" ELSE "idle"
      [] step = "end"   -> "set"
      [] step = "set"   -> IF op = "change" THEN "start" ELSE "idle"
      [] step = "start" -> "idle"

\* Mutant: the password is changed before the rest of the payload is looked at.
AfterChanging(op, step) ==
    CASE step = "spend" -> "set"
      [] step = "touch" -> IF op = "view" THEN "idle" ELSE IF op = "change" THEN "set" ELSE "check"
      [] step = "set"   -> "end"
      [] step = "end"   -> IF op = "change" THEN "check" ELSE "idle"
      [] step = "check" -> IF op = "login" THEN "start" ELSE "save"
      [] step = "save"  -> IF op = "change" THEN "start" ELSE "idle"
      [] step = "start" -> "idle"

\* What follows a step of a request: the handlers from top to bottom.
After(op, step) ==
    CASE step = "spend" -> "set"
      [] step = "touch" -> IF op = "view" THEN "idle" ELSE "check"
      [] step = "check" -> IF op = "login" THEN "start" ELSE "save"
      [] step = "save"  -> IF op = "change" THEN "set" ELSE "idle"
      [] step = "set"   -> "end"
      [] step = "end"   -> IF op = "change" THEN "start" ELSE "idle"
      [] step = "start" -> "idle"

Init ==
    /\ clock = 0
    /\ password = [u \in Users |-> 0]
    /\ sessions = [i \in {} |-> None]
    /\ links = [t \in {} |-> None]
    /\ req = [r \in Requests |-> Ready]
    /\ tokens = 0
    /\ settled = [u \in Users |-> 0]

-----------------------------------------------------------------------------
(* The steps of a request.                                                 *)

Larger(m, n) == IF m >= n THEN m ELSE n

\* The request ends without a promise: 400, 401, 404, 500, or no answer at all.
Abandon(r) ==
    /\ req' = [req EXCEPT ![r] = Ready]
    /\ UNCHANGED <<clock, password, sessions, links, tokens, settled>>

\* Request r has done its step and is now q: on to the next one, or the answer.
Goes(r, q) ==
    LET next == After(q.op, q.step) IN
    IF next = "idle"
    THEN /\ req' = [req EXCEPT ![r] = Ready]
         /\ settled' = [settled EXCEPT ![q.who] = Larger(@, q.set)]
    ELSE /\ req' = [req EXCEPT ![r] = [q EXCEPT !.step = next]]
         /\ UNCHANGED settled

\* The request is turned down: a wrong password, a payload that does not pass.
Refuse(r) == req[r].step = "check" /\ Abandon(r)

\* A statement fails, or the client or the process goes away.
Fail(r) == req[r].step # "idle" /\ Abandon(r)

\* Behind requireSession the session's id and the instant are no longer needed.
Behind(q) == [q EXCEPT !.id = 0, !.now = 0]

\* requireSession: a touch that fails is logged, and the request goes on.
SlideFails(r) ==
    /\ req[r].step = "touch"
    /\ Goes(r, Behind(req[r]))
    /\ UNCHANGED <<clock, password, sessions, links, tokens>>

\* handleLogin: the address is known, the stored hash is read and verified.
Login(r, u) ==
    /\ r \in Idle
    /\ req' = [req EXCEPT ![r] = [Ready EXCEPT !.op = "login", !.step = "check", !.who = u]]
    /\ UNCHANGED <<clock, password, sessions, links, tokens, settled>>

\* sessionTouchInterval: the window is old enough to be slid.
Stale(session) == clock - session.seen > TouchInterval

\* requireSession: a cookie names a session that has not expired; its user comes with it.
Arrive(r, i, op) ==
    /\ r \in Idle
    /\ sessions[i].expires > clock
    /\ LET u    == sessions[i].who
           come == [Ready EXCEPT !.op = op, !.step = "touch", !.who = u, !.id = i, !.now = clock]
       IN IF Stale(sessions[i])
          THEN /\ req' = [req EXCEPT ![r] = come]
               /\ UNCHANGED <<sessions, settled>>
          ELSE /\ Goes(r, Behind(come))
               /\ sessions' = [sessions EXCEPT ![i].used = clock]
    /\ UNCHANGED <<clock, password, links, tokens>>

\* Mutant: the stamp moves, the window does not.
SlidStamp(session, now) == [session EXCEPT !.seen = now, !.used = Larger(@, now)]

Slid(session, now) ==
    [session EXCEPT !.seen = now, !.expires = now + SessionTTL, !.used = Larger(@, now)]

\* TouchSession, by id: a row that is gone is an error, which is only logged.
TouchSession(r) ==
    LET q == req[r] IN
    /\ q.step = "touch"
    /\ sessions' = IF q.id \in DOMAIN sessions
                   THEN [sessions EXCEPT ![q.id] = Slid(@, q.now)] ELSE sessions
    /\ Goes(r, Behind(q))
    /\ UNCHANGED <<clock, password, links, tokens>>

\* handleLogin, handlePatchMe: the stored hash is that of the password given, if one is,
\* and the rest of the payload is as it should be.
Check(r) ==
    /\ req[r].step = "check"
    /\ Goes(r, req[r])
    /\ UNCHANGED <<clock, password, sessions, links, tokens>>

\* UpdateUser, if the request changes the profile; which columns is left out.
UpdateUser(r) ==
    /\ req[r].step = "save"
    /\ Goes(r, [req[r] EXCEPT !.wrote = TRUE])
    /\ UNCHANGED <<clock, password, sessions, links, tokens>>

SetPassword(r) ==
    LET q == req[r] IN
    /\ q.step = "set"
    /\ password[q.who] < MaxPasswords
    /\ password' = [password EXCEPT ![q.who] = @ + 1]
    /\ links' = IF q.op = "reset" THEN [links EXCEPT ![q.link].sets = @ + 1] ELSE links
    /\ Goes(r, [q EXCEPT !.set = password[q.who] + 1, !.wrote = TRUE])
    /\ UNCHANGED <<clock, sessions, tokens>>

DeleteUserSessions(r) ==
    LET q == req[r] IN
    /\ q.step = "end"
    /\ sessions' = Without(sessions, {i \in DOMAIN sessions : sessions[i].who = q.who})
    /\ Goes(r, q)
    /\ UNCHANGED <<clock, password, links, tokens>>

\* startSession: a token is drawn and CreateSession stores its hash.
StartSession(r) ==
    LET q == req[r] IN
    /\ q.step = "start"
    /\ tokens < MaxTokens
    /\ tokens' = tokens + 1
    /\ \E i \in SessionIds :
          /\ IsNextId(sessions, i)
          /\ sessions' = Insert(sessions, i,
                [token |-> tokens + 1, who |-> q.who, seen |-> clock, expires |-> clock + SessionTTL,
                 born |-> password[q.who], used |-> clock])
    /\ Goes(r, q)
    /\ UNCHANGED <<clock, password, links>>

-----------------------------------------------------------------------------
(* Requests of one statement.                                              *)

\* DeleteSession, by the token of the cookie; the cookie may be an old one.
Logout(token) ==
    /\ sessions' = Without(sessions, {i \in DOMAIN sessions : sessions[i].token = token})
    /\ sessions' # sessions
    /\ UNCHANGED <<clock, password, links, req, tokens, settled>>

\* handleResetRequest: whether the mail arrives does not change the tables.
ResetRequest(u, t) ==
    /\ t \notin DOMAIN links
    /\ links' = [s \in DOMAIN links \cup {t} |->
                    IF s = t THEN [who |-> u, expires |-> clock + PasswordResetTTL, used |-> FALSE, sets |-> 0]
                    ELSE links[s]]
    /\ UNCHANGED <<clock, password, sessions, req, tokens, settled>>

\* Mutant: a link is good for its half hour, however often it is used.
RedeemableInTime(link) == link.expires > clock

\* The WHERE of ConsumePasswordReset.
Redeemable(link) == ~link.used /\ link.expires > clock

\* handleResetConfirm up to the password: the link is checked and spent in one statement.
ConsumePasswordReset(r, t) ==
    /\ r \in Idle
    /\ Redeemable(links[t])
    /\ links' = [links EXCEPT ![t].used = TRUE]
    /\ req' = [req EXCEPT ![r] = [Ready EXCEPT !.op = "reset", !.step = After("reset", "spend"), !.who = links[t].who,
                                               !.link = t, !.wrote = TRUE]]
    /\ UNCHANGED <<clock, password, sessions, tokens, settled>>

Advance ==
    /\ clock < MaxTime
    /\ \A r \in Requests : req[r].step = "touch" => clock - req[r].now < MaxStall
    /\ clock' = clock + 1
    /\ UNCHANGED <<password, sessions, links, req, tokens, settled>>

Handle(r) ==
    \/ \E u \in Users : Login(r, u)
    \/ \E i \in DOMAIN sessions : \E op \in {"view", "profile", "change"} : Arrive(r, i, op)
    \/ \E t \in DOMAIN links : ConsumePasswordReset(r, t)
    \/ TouchSession(r)
    \/ Check(r)
    \/ UpdateUser(r)
    \/ SetPassword(r)
    \/ DeleteUserSessions(r)
    \/ StartSession(r)
    \/ Refuse(r)
    \/ Fail(r)
    \/ SlideFails(r)

Next ==
    \/ \E r \in Requests : Handle(r)
    \/ \E token \in 1 .. tokens : Logout(token)
    \/ \E u \in Users, t \in Links : ResetRequest(u, t)
    \/ Advance

Spec == Init /\ [][Next]_vars

-----------------------------------------------------------------------------
(* Properties.                                                             *)

TypeOK ==
    /\ clock \in Nat /\ tokens \in Nat
    /\ password \in [Users -> Nat] /\ settled \in [Users -> Nat]
    /\ DOMAIN sessions \subseteq SessionIds
    /\ \A i \in DOMAIN sessions : sessions[i] \in Session
    /\ DOMAIN links \subseteq Links
    /\ \A t \in DOMAIN links : links[t] \in Link
    /\ req \in [Requests -> Request]

\* SetPassword, DeleteUserSessions: "a password change exists to lock somebody out, and
\* leaving their sessions alive means it did not". Once a change or a reset has answered,
\* no session made under an earlier password is left, whatever ran next to it.
OldSessionsEnd ==
    \A i \in DOMAIN sessions : sessions[i].born >= settled[sessions[i].who]

\* ConsumePasswordReset: "two concurrent redemptions of the same token cannot both
\* succeed": a mailed link sets at most one password, and is spent before it does.
OneLinkOneChange ==
    \A t \in DOMAIN links : links[t].sets <= IF links[t].used THEN 1 ELSE 0

\* handlePatchMe: "everything in the request is checked before any of it is written":
\* a request that can still be turned down has changed neither profile nor password.
RefusedChangesNothing ==
    \A r \in Requests : req[r].step = "check" => ~req[r].wrote

\* requireSession slides the window by the clock it read, a stalled request writes an older
\* one over a newer, and an id may be another session's by then: a session still lasts its
\* TTL from its last use, short of one touch interval.
UsedStaysSignedIn ==
    \A i \in DOMAIN sessions : sessions[i].expires >= sessions[i].used + SessionTTL - TouchInterval
=============================================================================
