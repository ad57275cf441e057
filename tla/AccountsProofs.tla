--------------------------- MODULE AccountsProofs ---------------------------
(***************************************************************************)
(* For any accounts, requests and links: a finished change of the password *)
(* leaves no older session, a link sets one password, a refused request    *)
(* has written nothing, and who uses a session stays signed in. None of    *)
(* these says anything of a request between two of its statements; the     *)
(* invariant does.                                                         *)
(***************************************************************************)
EXTENDS Accounts, TLAPS

(* The handlers, as the steps that a request of each kind goes through. *)
StepsOf(op) ==
    CASE op = "login"   -> {"check", "start"}
      [] op = "view"    -> {"touch"}
      [] op = "profile" -> {"touch", "check", "save"}
      [] op = "change"  -> {"touch", "check", "save", "set", "end", "start"}
      [] op = "reset"   -> {"set", "end"}
      [] op = "none"    -> {}

(* A link that has been spent and is about to set the password. *)
Redeems(q) == q.op = "reset" /\ q.step = "set"

(* What a request that is on its way has done, and not done: the password  *)
(* it set is among those the account has had, and none before it is set;   *)
(* past the end of the sessions none older than it is left; nothing is     *)
(* written before the check; a touch is not late; a spent link has not     *)
(* been of use yet.                                                        *)
RequestIsRight(q) ==
    q.step # "idle" =>
        /\ q.step \in StepsOf(q.op)
        /\ q.who \in Users
        /\ q.set <= password[q.who]
        /\ q.step \in {"touch", "check", "save", "set"} => q.set = 0
        /\ q.step # "end" =>
              \A i \in DOMAIN sessions : sessions[i].who = q.who => sessions[i].born >= q.set
        /\ q.step \in {"touch", "check"} => ~q.wrote
        /\ q.step = "touch" => q.now <= clock /\ clock - q.now <= MaxStall
        /\ Redeems(q) => q.link \in DOMAIN links /\ links[q.link].used /\ links[q.link].sets = 0

(* A session's window is TTL from the instant it was last slid, which is   *)
(* less than a touch interval before its last use.                         *)
SessionIsRight(s) ==
    /\ s.born >= settled[s.who]
    /\ s.used <= clock
    /\ s.expires = s.seen + SessionTTL
    /\ s.expires >= s.used + SessionTTL - TouchInterval

(* No link is being redeemed twice. *)
OneAtATime ==
    \A r, q \in Requests :
        r # q /\ Redeems(req[r]) /\ Redeems(req[q]) => req[r].link # req[q].link

IInv ==
    /\ TypeOK
    /\ \A u \in Users : settled[u] <= password[u]
    /\ \A r \in Requests : RequestIsRight(req[r])
    /\ \A i \in DOMAIN sessions : SessionIsRight(sessions[i])
    /\ OneLinkOneChange
    /\ OneAtATime

-----------------------------------------------------------------------------
(* What the steps of a handler lead to, and what is known of who stands    *)
(* where: facts about After and the types alone.                           *)
LEMMA StepsFollow ==
    ASSUME NEW op \in {"none", "login", "view", "profile", "change", "reset"},
           NEW step \in StepsOf(op)
    PROVE  /\ After(op, step) = "idle" \/ After(op, step) \in StepsOf(op)
           /\ step = "touch" => After(op, step) \in {"idle", "check"}
           /\ step = "check" => After(op, step) \in {"start", "save"}
           /\ step = "save"  => After(op, step) \in {"idle", "set"} /\ op # "reset"
           /\ step = "set"   => After(op, step) = "end"
           /\ step = "end"   => After(op, step) \in {"idle", "start"}
           /\ step = "start" => After(op, step) = "idle"
           /\ After(op, step) # "touch"
BY DEF StepsOf, After

LEMMA ReadyIsIdle == Ready \in Request /\ Ready.step = "idle"
BY AccountsConstants DEF Ready, Request

(* What Goes makes of the request and of the history.                      *)
LEMMA GoesOn ==
    ASSUME TypeOK, NEW r \in Requests, NEW q \in Request, Goes(r, q),
           q.who \in Users, q.step \in StepsOf(q.op)
    PROVE  LET next == After(q.op, q.step)
               onto == IF next = "idle" THEN Ready ELSE [q EXCEPT !.step = next]
           IN /\ onto \in Request
              /\ req' = [req EXCEPT ![r] = onto]
              /\ settled' \in [Users -> Nat]
              /\ \A u \in Users :
                    \/ settled'[u] = settled[u]
                    \/ next = "idle" /\ u = q.who /\ settled'[u] = q.set
              /\ q.set = 0 => settled' = settled
<1> DEFINE next == After(q.op, q.step)
           onto == IF next = "idle" THEN Ready ELSE [q EXCEPT !.step = next]
<1>1. next \in {"idle", "touch", "check", "save", "set", "end", "start"}
  <2>1. q.op \in {"none", "login", "view", "profile", "change", "reset"}
    BY DEF Request
  <2>2. next = "idle" \/ next \in StepsOf(q.op)
    BY <2>1, StepsFollow
  <2> QED BY <2>1, <2>2 DEF StepsOf
<1>2. onto \in Request
  BY <1>1, ReadyIsIdle DEF Request
<1>3. req' = [req EXCEPT ![r] = onto]
  BY DEF Goes
<1>4. CASE next = "idle"
  <2>1. settled' = [settled EXCEPT ![q.who] = Larger(settled[q.who], q.set)]
    BY <1>4 DEF Goes
  <2>2. settled \in [Users -> Nat] /\ q.set \in Nat
    BY DEF TypeOK, Request
  <2>3. q.set = 0 => settled' = settled
    BY <2>1, <2>2 DEF Larger
  <2> QED BY <1>2, <1>3, <1>4, <2>1, <2>2, <2>3 DEF Larger
<1>5. CASE next # "idle"
  BY <1>2, <1>3, <1>5 DEF Goes, TypeOK
<1> QED BY <1>4, <1>5

(* A step of one request leaves the others where they were. What has to be *)
(* seen for it of the tables: passwords grow, sessions keep whose and how  *)
(* old they are, or are as new as the password, and no link that another   *)
(* request redeems is touched.                                             *)
LEMMA OthersStand ==
    ASSUME IInv, TypeOK', NEW r \in Requests, clock' = clock,
           \A s \in Requests \ {r} : req'[s] = req[s],
           \A u \in Users : password[u] <= password'[u] /\ settled'[u] <= password'[u],
           \A i \in DOMAIN sessions' :
              \/ /\ i \in DOMAIN sessions
                 /\ sessions'[i].who = sessions[i].who
                 /\ sessions'[i].born = sessions[i].born
              \/ sessions'[i].born >= password[sessions'[i].who],
           \A i \in DOMAIN sessions' : SessionIsRight(sessions[i])',
           \A t \in DOMAIN links :
              /\ t \in DOMAIN links'
              /\ \/ links'[t] = links[t]
                 \/ \A s \in Requests \ {r} : ~(Redeems(req[s]) /\ req[s].link = t),
           OneLinkOneChange',
           RequestIsRight(req[r])',
           Redeems(req[r])' =>
              \A s \in Requests \ {r} : Redeems(req[s]) => req[s].link # req'[r].link
    PROVE  IInv'
<1>1. ASSUME NEW s \in Requests \ {r}
      PROVE  RequestIsRight(req[s])'
  <2> SUFFICES ASSUME req[s].step # "idle" PROVE RequestIsRight(req[s])'
    BY DEF RequestIsRight
  <2>1. req[s] \in Request /\ RequestIsRight(req[s]) /\ req'[s] = req[s]
    BY DEF IInv, TypeOK
  <2>2. /\ req[s].step \in StepsOf(req[s].op) /\ req[s].who \in Users
        /\ req[s].set <= password[req[s].who]
        /\ req[s].step \in {"touch", "check", "save", "set"} => req[s].set = 0
        /\ req[s].step \in {"touch", "check"} => ~req[s].wrote
        /\ req[s].step = "touch" => req[s].now <= clock /\ clock - req[s].now <= MaxStall
    BY <2>1 DEF RequestIsRight
  <2>3. password \in [Users -> Nat] /\ password' \in [Users -> Nat] /\ req[s].set \in Nat
    BY <2>1 DEF IInv, TypeOK, Request
  <2>4. req[s].set <= password'[req[s].who]
    BY <2>2, <2>3
  <2>5. ASSUME req[s].step # "end", NEW i \in DOMAIN sessions', sessions'[i].who = req[s].who
        PROVE  sessions'[i].born >= req[s].set
    <3>1. sessions'[i] \in Session
      BY DEF TypeOK
    <3>2. CASE sessions'[i].born >= password[sessions'[i].who]
      BY <2>2, <2>3, <2>5, <3>1, <3>2 DEF Session
    <3>3. CASE i \in DOMAIN sessions /\ sessions'[i].who = sessions[i].who /\ sessions'[i].born = sessions[i].born
      BY <2>1, <2>5, <3>3 DEF RequestIsRight
    <3> QED BY <3>2, <3>3
  <2>6. Redeems(req[s]) => req[s].link \in DOMAIN links' /\ links'[req[s].link].used /\ links'[req[s].link].sets = 0
    BY <2>1 DEF RequestIsRight
  <2> QED BY <2>1, <2>2, <2>4, <2>5, <2>6 DEF RequestIsRight, Redeems
<1>2. \A s \in Requests : RequestIsRight(req[s])'
  BY <1>1
<1>3. OneAtATime'
  <2> SUFFICES ASSUME NEW s \in Requests, NEW t \in Requests, s # t, Redeems(req[s])', Redeems(req[t])'
               PROVE  req'[s].link # req'[t].link
    BY DEF OneAtATime
  <2>1. CASE s # r /\ t # r
    <3>1. req'[s] = req[s] /\ req'[t] = req[t]
      BY <2>1
    <3> QED BY <3>1 DEF IInv, OneAtATime, Redeems
  <2>2. CASE s = r
    <3>1. req'[t] = req[t]
      BY <2>2
    <3> QED BY <2>2, <3>1 DEF Redeems
  <2>3. CASE t = r
    <3>1. req'[s] = req[s]
      BY <2>3
    <3> QED BY <2>3, <3>1 DEF Redeems
  <2> QED BY <2>1, <2>2, <2>3
<1> QED BY <1>2, <1>3 DEF IInv

-----------------------------------------------------------------------------
(* One lemma per action. A request that stands at a step is known by the   *)
(* invariant; most actions disturb one conjunct.                           *)
LEMMA InitIsRight == Init => IInv
<1> SUFFICES ASSUME Init PROVE IInv
  OBVIOUS
<1>1. TypeOK
  BY ReadyIsIdle DEF Init, TypeOK
<1>2. \A r \in Requests : req[r] = Ready
  BY DEF Init
<1> QED BY <1>1, <1>2, ReadyIsIdle DEF Init, IInv, RequestIsRight, OneLinkOneChange, OneAtATime, Redeems

LEMMA AbandonIsRight ==
    ASSUME IInv, NEW r \in Requests, Abandon(r)
    PROVE  IInv'
<1>1. TypeOK'
  BY ReadyIsIdle DEF IInv, TypeOK, Abandon
<1>2. req'[r] = Ready /\ (\A s \in Requests \ {r} : req'[s] = req[s])
  BY DEF IInv, TypeOK, Abandon
<1>3. RequestIsRight(req[r])' /\ ~Redeems(req[r])'
  BY <1>2, ReadyIsIdle DEF RequestIsRight, Redeems
<1>4. \A u \in Users : password[u] <= password'[u] /\ settled'[u] <= password'[u]
  BY DEF IInv, TypeOK, Abandon
<1> QED BY <1>1, <1>2, <1>3, <1>4, OthersStand DEF Abandon, IInv, SessionIsRight, OneLinkOneChange

LEMMA LoginIsRight ==
    ASSUME IInv, NEW r \in Requests, NEW u \in Users, Login(r, u)
    PROVE  IInv'
<1> DEFINE come == [Ready EXCEPT !.op = "login", !.step = "check", !.who = u]
<1>1. come \in Request
  BY ReadyIsIdle DEF Request, Ready
<1>2. TypeOK'
  BY <1>1 DEF IInv, TypeOK, Login
<1>3. req'[r] = come /\ (\A s \in Requests \ {r} : req'[s] = req[s])
  BY DEF IInv, TypeOK, Login
<1>4. password \in [Users -> Nat] /\ \A i \in DOMAIN sessions : sessions[i].born \in Nat
  BY DEF IInv, TypeOK, Session
<1>5. RequestIsRight(req[r])' /\ ~Redeems(req[r])'
  <2>1. come.op = "login" /\ come.step = "check" /\ come.who = u /\ come.set = 0 /\ ~come.wrote
    BY DEF Ready
  <2>2. come.step \in StepsOf(come.op)
    BY <2>1 DEF StepsOf
  <2>3. password' = password /\ sessions' = sessions
    BY DEF Login
  <2> HIDE DEF come
  <2> QED BY <1>3, <1>4, <2>1, <2>2, <2>3 DEF RequestIsRight, Redeems
<1>6. \A v \in Users : password[v] <= password'[v] /\ settled'[v] <= password'[v]
  BY DEF IInv, TypeOK, Login
<1> QED BY <1>2, <1>3, <1>5, <1>6, OthersStand DEF Login, IInv, SessionIsRight, OneLinkOneChange

(* A request that goes on to a step, or to the answer, with no row touched *)
(* but those of its own session.                                           *)
LEMMA GoesOnIsRight ==
    ASSUME IInv, NEW r \in Requests, NEW q \in Request, Goes(r, q),
           q.who \in Users, q.step \in StepsOf(q.op), q.step \in {"touch", "check", "save"},
           q.set = 0, q.step # "save" => ~q.wrote,
           UNCHANGED <<clock, password, links, tokens>>,
           DOMAIN sessions' = DOMAIN sessions,
           \A i \in DOMAIN sessions :
              /\ sessions'[i] \in Session
              /\ sessions'[i].who = sessions[i].who /\ sessions'[i].born = sessions[i].born
              /\ sessions'[i].used <= clock
              /\ sessions'[i].expires = sessions'[i].seen + SessionTTL
              /\ sessions'[i].expires >= sessions'[i].used + SessionTTL - TouchInterval
    PROVE  IInv'
<1> DEFINE next == After(q.op, q.step)
           onto == IF next = "idle" THEN Ready ELSE [q EXCEPT !.step = next]
<1>1. q.op \in {"none", "login", "view", "profile", "change", "reset"}
  BY DEF Request
<1>2. /\ onto \in Request
      /\ req' = [req EXCEPT ![r] = onto]
      /\ settled' = settled
  BY GoesOn DEF IInv
<1>3. TypeOK'
  BY <1>2 DEF IInv, TypeOK
<1>4. req'[r] = onto /\ (\A s \in Requests \ {r} : req'[s] = req[s])
  BY <1>2 DEF IInv, TypeOK
<1>5. /\ next = "idle" \/ next \in StepsOf(q.op)
      /\ next \in {"idle", "check", "start", "save", "set"}
      /\ next = "check" => q.step = "touch"
      /\ next = "set" => q.op # "reset"
  BY <1>1, StepsFollow
<1>6. RequestIsRight(req[r])' /\ ~Redeems(req[r])'
  <2>1. password \in [Users -> Nat] /\ \A i \in DOMAIN sessions' : sessions'[i].born \in Nat
    BY DEF IInv, TypeOK, Session
  <2>2. CASE next = "idle"
    BY <1>4, <2>2, ReadyIsIdle DEF RequestIsRight, Redeems
  <2>3. CASE next # "idle"
    <3>1. /\ onto.step = next /\ onto.op = q.op /\ onto.who = q.who
          /\ onto.set = q.set /\ onto.wrote = q.wrote
      BY <2>3 DEF Request
    <3> HIDE DEF onto, next
    <3>2. /\ onto.step \in StepsOf(onto.op) /\ onto.who \in Users
          /\ onto.set = 0 /\ onto.step \notin {"touch", "end"}
          /\ onto.step = "check" => ~onto.wrote
      BY <1>5, <2>3, <3>1
    <3>3. ~Redeems(onto)
      BY <1>5, <3>1 DEF Redeems
    <3>4. onto.set <= password'[onto.who] /\ \A i \in DOMAIN sessions' : sessions'[i].born >= onto.set
      BY <2>1, <3>2
    <3> QED BY <1>4, <3>2, <3>3, <3>4 DEF RequestIsRight, Redeems
  <2> QED BY <2>2, <2>3
<1>7. \A u \in Users : password[u] <= password'[u] /\ settled'[u] <= password'[u]
  BY <1>2 DEF IInv, TypeOK
<1>8. \A i \in DOMAIN sessions' : SessionIsRight(sessions[i])'
  BY <1>2 DEF IInv, SessionIsRight
<1> HIDE DEF onto, next
<1> QED BY <1>3, <1>4, <1>6, <1>7, <1>8, OthersStand DEF IInv, OneLinkOneChange

LEMMA TouchSessionIsRight ==
    ASSUME IInv, NEW r \in Requests, TouchSession(r)
    PROVE  IInv'
<1> DEFINE q == req[r]
<1>1. q \in Request /\ q.step = "touch" /\ RequestIsRight(q)
  BY DEF IInv, TypeOK, TouchSession
<1>2. /\ q.step \in StepsOf(q.op) /\ q.who \in Users /\ q.set = 0 /\ ~q.wrote
      /\ q.now <= clock /\ clock - q.now <= MaxStall /\ q.now \in Nat
  BY <1>1 DEF RequestIsRight, Request
<1>3. Behind(q) \in Request /\ Behind(q).step = q.step /\ Behind(q).op = q.op /\ Behind(q).who = q.who
      /\ Behind(q).set = q.set /\ Behind(q).wrote = q.wrote
  BY <1>1 DEF Behind, Request
<1>4. ASSUME NEW i \in DOMAIN sessions
      PROVE  /\ sessions'[i] \in Session
             /\ sessions'[i].who = sessions[i].who /\ sessions'[i].born = sessions[i].born
             /\ sessions'[i].used <= clock
             /\ sessions'[i].expires = sessions'[i].seen + SessionTTL
             /\ sessions'[i].expires >= sessions'[i].used + SessionTTL - TouchInterval
  <2>1. sessions[i] \in Session /\ SessionIsRight(sessions[i]) /\ clock \in Nat
    BY DEF IInv, TypeOK
  <2>2. CASE sessions'[i] = sessions[i]
    BY <2>1, <2>2 DEF SessionIsRight
  <2>3. CASE sessions'[i] = Slid(sessions[i], q.now)
    <3>1. /\ sessions'[i].who = sessions[i].who /\ sessions'[i].born = sessions[i].born
          /\ sessions'[i].seen = q.now /\ sessions'[i].expires = q.now + SessionTTL
          /\ sessions'[i].used = Larger(sessions[i].used, q.now)
      BY <2>1, <2>3 DEF Slid, Session
    <3>2. Larger(sessions[i].used, q.now) \in Nat
      BY <1>2, <2>1 DEF Larger, Session
    <3>3. SessionTTL \in Nat /\ TouchInterval \in Nat /\ MaxStall \in Nat /\ MaxStall <= TouchInterval
      BY AccountsConstants
    <3>4. sessions'[i] \in Session
      <4>1. q.now \in Nat /\ q.now + SessionTTL \in Int
        BY <1>2, <3>3
      <4> HIDE DEF q
      <4> QED BY <2>1, <2>3, <3>2, <4>1 DEF Slid, Session
    <3>5. sessions'[i].used <= clock
      BY <1>2, <2>1, <3>1 DEF Larger, SessionIsRight, Session
    <3>6. sessions'[i].expires >= sessions'[i].used + SessionTTL - TouchInterval
      BY <1>2, <2>1, <3>1, <3>2, <3>3, <3>5
    <3> QED BY <3>1, <3>4, <3>5, <3>6
  <2> QED BY <2>2, <2>3 DEF TouchSession
<1>5. DOMAIN sessions' = DOMAIN sessions
  BY DEF TouchSession
<1>6. Goes(r, Behind(q)) /\ UNCHANGED <<clock, password, links, tokens>>
  BY DEF TouchSession
<1> HIDE DEF q
<1> QED BY <1>1, <1>2, <1>3, <1>4, <1>5, <1>6, GoesOnIsRight

(* Steps that touch no row: a slide that fails, the check, the profile.    *)
LEMMA OnlyGoesIsRight ==
    ASSUME IInv, NEW r \in Requests, NEW q \in Request, Goes(r, q),
           q.who \in Users, q.step \in StepsOf(q.op), q.step \in {"touch", "check", "save"},
           q.set = 0, q.step # "save" => ~q.wrote,
           UNCHANGED <<clock, password, sessions, links, tokens>>
    PROVE  IInv'
<1>1. \A i \in DOMAIN sessions :
         /\ sessions'[i] \in Session
         /\ sessions'[i].used <= clock
         /\ sessions'[i].expires = sessions'[i].seen + SessionTTL
         /\ sessions'[i].expires >= sessions'[i].used + SessionTTL - TouchInterval
  BY DEF IInv, TypeOK, SessionIsRight
<1> QED BY <1>1, GoesOnIsRight

LEMMA SlideFailsIsRight ==
    ASSUME IInv, NEW r \in Requests, SlideFails(r)
    PROVE  IInv'
<1> DEFINE q == req[r]
<1>1. q \in Request /\ q.step = "touch" /\ RequestIsRight(q)
  BY DEF IInv, TypeOK, SlideFails
<1>2. q.step \in StepsOf(q.op) /\ q.who \in Users /\ q.set = 0 /\ ~q.wrote
  BY <1>1 DEF RequestIsRight
<1>3. Behind(q) \in Request /\ Behind(q).step = q.step /\ Behind(q).op = q.op /\ Behind(q).who = q.who
      /\ Behind(q).set = q.set /\ Behind(q).wrote = q.wrote
  BY <1>1 DEF Behind, Request
<1>4. Goes(r, Behind(q)) /\ UNCHANGED <<clock, password, sessions, links, tokens>>
  BY DEF SlideFails
<1> HIDE DEF q
<1> QED BY <1>1, <1>2, <1>3, <1>4, OnlyGoesIsRight

LEMMA CheckIsRight ==
    ASSUME IInv, NEW r \in Requests, Check(r)
    PROVE  IInv'
<1>1. req[r] \in Request /\ req[r].step = "check" /\ RequestIsRight(req[r])
  BY DEF IInv, TypeOK, Check
<1>2. req[r].step \in StepsOf(req[r].op) /\ req[r].who \in Users /\ req[r].set = 0 /\ ~req[r].wrote
  BY <1>1 DEF RequestIsRight
<1> QED BY <1>1, <1>2, OnlyGoesIsRight DEF Check

LEMMA UpdateUserIsRight ==
    ASSUME IInv, NEW r \in Requests, UpdateUser(r)
    PROVE  IInv'
<1> DEFINE q == [req[r] EXCEPT !.wrote = TRUE]
<1>1. req[r] \in Request /\ req[r].step = "save" /\ RequestIsRight(req[r])
  BY DEF IInv, TypeOK, UpdateUser
<1>2. req[r].step \in StepsOf(req[r].op) /\ req[r].who \in Users /\ req[r].set = 0
  BY <1>1 DEF RequestIsRight
<1>3. q \in Request /\ q.step = req[r].step /\ q.op = req[r].op /\ q.who = req[r].who /\ q.set = req[r].set
  BY <1>1 DEF Request
<1>4. Goes(r, q) /\ UNCHANGED <<clock, password, sessions, links, tokens>>
  BY DEF UpdateUser
<1> HIDE DEF q
<1> QED BY <1>1, <1>2, <1>3, <1>4, OnlyGoesIsRight

LEMMA ArriveIsRight ==
    ASSUME IInv, NEW r \in Requests, NEW i \in DOMAIN sessions,
           NEW op \in {"view", "profile", "change"}, Arrive(r, i, op)
    PROVE  IInv'
<1> DEFINE come == [Ready EXCEPT !.op = op, !.step = "touch", !.who = sessions[i].who, !.id = i, !.now = clock]
<1>1. sessions[i] \in Session /\ SessionIsRight(sessions[i]) /\ clock \in Nat /\ i \in Nat
  BY AccountsConstants DEF IInv, TypeOK
<1>2. come \in Request
  BY <1>1, ReadyIsIdle DEF Request, Ready, Session
<1>3. /\ come.op = op /\ come.step = "touch" /\ come.who \in Users /\ come.now = clock
      /\ come.set = 0 /\ ~come.wrote
  BY <1>1 DEF Ready, Session
<1>4. come.step \in StepsOf(come.op)
  BY <1>3 DEF StepsOf
<1>5. CASE Stale(sessions[i])
  <2>1. req' = [req EXCEPT ![r] = come] /\ UNCHANGED <<clock, password, sessions, links, tokens, settled>>
    BY <1>5 DEF Arrive
  <2> HIDE DEF come
  <2>2. TypeOK'
    BY <1>2, <2>1 DEF IInv, TypeOK
  <2>3. req'[r] = come /\ (\A s \in Requests \ {r} : req'[s] = req[s])
    BY <2>1 DEF IInv, TypeOK
  <2>4. password \in [Users -> Nat] /\ \A j \in DOMAIN sessions : sessions[j].born \in Nat
    BY DEF IInv, TypeOK, Session
  <2>5. MaxStall \in Nat
    BY AccountsConstants
  <2>6. RequestIsRight(req[r])' /\ ~Redeems(req[r])'
    BY <1>1, <1>3, <1>4, <2>1, <2>3, <2>4, <2>5 DEF RequestIsRight, Redeems
  <2>7. \A u \in Users : password[u] <= password'[u] /\ settled'[u] <= password'[u]
    BY <2>1 DEF IInv, TypeOK
  <2> QED BY <2>1, <2>2, <2>3, <2>6, <2>7, OthersStand DEF IInv, SessionIsRight, OneLinkOneChange
<1>6. CASE ~Stale(sessions[i])
  <2>1. Goes(r, Behind(come)) /\ sessions' = [sessions EXCEPT ![i].used = clock]
        /\ UNCHANGED <<clock, password, links, tokens>>
    BY <1>6 DEF Arrive
  <2> HIDE DEF come
  <2>2. /\ Behind(come) \in Request /\ Behind(come).step = come.step /\ Behind(come).op = come.op
        /\ Behind(come).who = come.who /\ Behind(come).set = come.set /\ Behind(come).wrote = come.wrote
    BY <1>2 DEF Behind, Request
  <2>3. ASSUME NEW j \in DOMAIN sessions
        PROVE  /\ sessions'[j] \in Session
               /\ sessions'[j].who = sessions[j].who /\ sessions'[j].born = sessions[j].born
               /\ sessions'[j].used <= clock
               /\ sessions'[j].expires = sessions'[j].seen + SessionTTL
               /\ sessions'[j].expires >= sessions'[j].used + SessionTTL - TouchInterval
    <3>1. sessions[j] \in Session /\ SessionIsRight(sessions[j])
      BY DEF IInv, TypeOK
    <3>2. CASE j # i
      BY <2>1, <3>1, <3>2 DEF SessionIsRight
    <3>3. CASE j = i
      <4>1. sessions'[j] = [sessions[j] EXCEPT !.used = clock]
        BY <2>1, <3>3
      <4>2. /\ sessions'[j] \in Session
            /\ sessions'[j].who = sessions[j].who /\ sessions'[j].born = sessions[j].born
            /\ sessions'[j].used = clock /\ sessions'[j].seen = sessions[j].seen
            /\ sessions'[j].expires = sessions[j].expires
        BY <1>1, <3>1, <4>1 DEF Session
      <4>3. sessions[j].seen \in Nat /\ SessionTTL \in Nat /\ TouchInterval \in Nat
        BY <3>1, AccountsConstants DEF Session
      <4>4. clock - sessions[j].seen <= TouchInterval
        BY <1>1, <1>6, <3>3, <4>3 DEF Stale
      <4>5. sessions[j].expires = sessions[j].seen + SessionTTL
        BY <3>1 DEF SessionIsRight
      <4> QED BY <1>1, <4>2, <4>3, <4>4, <4>5
    <3> QED BY <3>2, <3>3
  <2>4. DOMAIN sessions' = DOMAIN sessions
    BY <2>1
  <2> QED BY <1>3, <1>4, <2>1, <2>2, <2>3, <2>4, GoesOnIsRight
<1> QED BY <1>5, <1>6

(* The new password is counted, and used up the link that brought it.      *)
LEMMA SetPasswordIsRight ==
    ASSUME IInv, NEW r \in Requests, SetPassword(r)
    PROVE  IInv'
<1> DEFINE q == req[r]
           onto == [q EXCEPT !.set = password[q.who] + 1, !.wrote = TRUE, !.step = "end"]
<1>1. q \in Request /\ q.step = "set" /\ RequestIsRight(q)
  BY DEF IInv, TypeOK, SetPassword
<1>2. /\ q.step \in StepsOf(q.op) /\ q.who \in Users
      /\ Redeems(q) => q.link \in DOMAIN links /\ links[q.link].used /\ links[q.link].sets = 0
  BY <1>1 DEF RequestIsRight
<1>3. password \in [Users -> Nat] /\ settled \in [Users -> Nat]
  BY DEF IInv, TypeOK
<1>4. password' = [password EXCEPT ![q.who] = @ + 1] /\ UNCHANGED <<clock, sessions, tokens>>
  BY DEF SetPassword
<1>5. req' = [req EXCEPT ![r] = onto] /\ settled' = settled /\ onto \in Request
  <2> DEFINE mid == [q EXCEPT !.set = password[q.who] + 1, !.wrote = TRUE]
  <2>1. mid \in Request /\ mid.op = q.op /\ mid.step = q.step
    <3>1. password[q.who] + 1 \in Nat
      BY <1>2, <1>3
    <3> HIDE DEF q
    <3> QED BY <1>1, <3>1 DEF Request
  <2>2. After(mid.op, mid.step) = "end"
    BY <1>1, <2>1 DEF After
  <2>3. Goes(r, mid)
    BY DEF SetPassword
  <2>4. req' = [req EXCEPT ![r] = [mid EXCEPT !.step = "end"]] /\ settled' = settled
    BY <2>2, <2>3 DEF Goes
  <2>5. [mid EXCEPT !.step = "end"] = onto
    OBVIOUS
  <2>6. [mid EXCEPT !.step = "end"] \in Request
    BY <2>1 DEF Request
  <2> QED BY <2>4, <2>5, <2>6
<1>6. onto.step = "end" /\ onto.op = q.op /\ onto.who = q.who /\ onto.set = password[q.who] + 1
  BY <1>1 DEF Request
<1>7. links' = IF q.op = "reset" THEN [links EXCEPT ![q.link].sets = @ + 1] ELSE links
  BY DEF SetPassword
<1> HIDE DEF q, onto
<1>8. \A t \in DOMAIN links :
         /\ links'[t] \in Link
         /\ links'[t].used = links[t].used
         /\ \/ links'[t] = links[t]
            \/ Redeems(q) /\ t = q.link /\ links'[t].sets = 1
  BY <1>1, <1>2, <1>7 DEF IInv, TypeOK, Link, Redeems
<1>9. DOMAIN links' = DOMAIN links
  BY <1>7
<1>10. TypeOK'
  BY <1>2, <1>3, <1>4, <1>5, <1>8, <1>9 DEF IInv, TypeOK
<1>11. req'[r] = onto /\ (\A s \in Requests \ {r} : req'[s] = req[s])
  BY <1>5 DEF IInv, TypeOK
<1>12. \A u \in Users : password[u] <= password'[u] /\ settled'[u] <= password'[u]
  BY <1>2, <1>3, <1>4, <1>5 DEF IInv
<1>13. RequestIsRight(req[r])' /\ ~Redeems(req[r])'
  <2>1. onto.step \in StepsOf(onto.op)
    BY <1>1, <1>2, <1>6 DEF StepsOf, Request
  <2>2. onto.set <= password'[onto.who] /\ onto.who \in Users
    BY <1>2, <1>3, <1>4, <1>6
  <2> QED BY <1>6, <1>11, <2>1, <2>2 DEF RequestIsRight, Redeems
<1>14. \A t \in DOMAIN links :
          \/ links'[t] = links[t]
          \/ \A s \in Requests \ {r} : ~(Redeems(req[s]) /\ req[s].link = t)
  BY <1>8 DEF IInv, OneAtATime, q
<1>15. OneLinkOneChange'
  BY <1>2, <1>8, <1>9 DEF IInv, OneLinkOneChange
<1>16. \A i \in DOMAIN sessions' : SessionIsRight(sessions[i])'
  BY <1>4, <1>5 DEF IInv, SessionIsRight
<1> QED BY <1>4, <1>9, <1>10, <1>11, <1>12, <1>13, <1>14, <1>15, <1>16, OthersStand

(* Nothing is left of the account's sessions when its change answers.      *)
LEMMA DeleteUserSessionsIsRight ==
    ASSUME IInv, NEW r \in Requests, DeleteUserSessions(r)
    PROVE  IInv'
<1> DEFINE q == req[r]
           next == After(q.op, q.step)
           onto == IF next = "idle" THEN Ready ELSE [q EXCEPT !.step = next]
<1>1. q \in Request /\ q.step = "end" /\ RequestIsRight(q)
  BY DEF IInv, TypeOK, DeleteUserSessions
<1>2. q.step \in StepsOf(q.op) /\ q.who \in Users /\ q.set <= password[q.who] /\ q.set \in Nat
  BY <1>1 DEF RequestIsRight, Request
<1>3. /\ sessions' = Without(sessions, {i \in DOMAIN sessions : sessions[i].who = q.who})
      /\ Goes(r, q)
      /\ UNCHANGED <<clock, password, links, tokens>>
  BY DEF DeleteUserSessions
<1> HIDE DEF q
<1>4. /\ DOMAIN sessions' \subseteq DOMAIN sessions
      /\ \A i \in DOMAIN sessions' : sessions'[i] = sessions[i] /\ sessions[i].who # q.who
  BY <1>3 DEF Without
<1>5. /\ onto \in Request
      /\ req' = [req EXCEPT ![r] = onto]
      /\ settled' \in [Users -> Nat]
      /\ \A u \in Users : settled'[u] = settled[u] \/ (u = q.who /\ settled'[u] = q.set)
  BY <1>1, <1>2, <1>3, GoesOn DEF IInv
<1>6. /\ q.op \in {"none", "login", "view", "profile", "change", "reset"}
      /\ next \in {"idle", "start"}
      /\ next = "idle" \/ next \in StepsOf(q.op)
  BY <1>1, <1>2, StepsFollow DEF Request
<1>7. TypeOK'
  BY <1>3, <1>4, <1>5 DEF IInv, TypeOK
<1>8. req'[r] = onto /\ (\A s \in Requests \ {r} : req'[s] = req[s])
  BY <1>5 DEF IInv, TypeOK
<1>9. RequestIsRight(req[r])' /\ ~Redeems(req[r])'
  <2>1. CASE next = "idle"
    BY <1>8, <2>1, ReadyIsIdle DEF RequestIsRight, Redeems
  <2>2. CASE next # "idle"
    <3>1. /\ onto.step = "start" /\ onto.op = q.op /\ onto.who = q.who /\ onto.set = q.set
          /\ onto.step \in StepsOf(onto.op)
      <4>1. next = "start" /\ "start" \in StepsOf(q.op)
        BY <1>6, <2>2
      <4>2. onto = [q EXCEPT !.step = "start"]
        BY <4>1
      <4> HIDE DEF onto, next
      <4> QED BY <1>1, <4>1, <4>2 DEF Request
    <3> HIDE DEF onto, next
    <3> QED BY <1>2, <1>3, <1>4, <1>8, <3>1 DEF RequestIsRight, Redeems
  <2> QED BY <2>1, <2>2
<1>10. \A u \in Users : password[u] <= password'[u] /\ settled'[u] <= password'[u]
  BY <1>2, <1>3, <1>5 DEF IInv, TypeOK
<1>11. \A i \in DOMAIN sessions' : SessionIsRight(sessions[i])'
  <2> SUFFICES ASSUME NEW i \in DOMAIN sessions' PROVE SessionIsRight(sessions[i])'
    OBVIOUS
  <2>1. sessions[i] \in Session /\ SessionIsRight(sessions[i]) /\ sessions'[i] = sessions[i]
    BY <1>4 DEF IInv, TypeOK
  <2>2. settled'[sessions[i].who] = settled[sessions[i].who]
    BY <1>4, <1>5, <2>1 DEF Session
  <2> QED BY <1>3, <2>1, <2>2 DEF SessionIsRight
<1> HIDE DEF onto, next
<1> QED BY <1>3, <1>4, <1>7, <1>8, <1>9, <1>10, <1>11, OthersStand DEF IInv, OneLinkOneChange

(* A new session is as new as the password, and its request has answered.  *)
LEMMA StartSessionIsRight ==
    ASSUME IInv, NEW r \in Requests, StartSession(r)
    PROVE  IInv'
<1> DEFINE q == req[r]
<1>1. q \in Request /\ q.step = "start" /\ RequestIsRight(q)
  BY DEF IInv, TypeOK, StartSession
<1>2. /\ q.step \in StepsOf(q.op) /\ q.who \in Users /\ q.set <= password[q.who] /\ q.set \in Nat
      /\ \A i \in DOMAIN sessions : sessions[i].who = q.who => sessions[i].born >= q.set
  BY <1>1 DEF RequestIsRight, Request
<1>3. tokens' = tokens + 1 /\ Goes(r, q) /\ UNCHANGED <<clock, password, links>>
  BY DEF StartSession
<1> DEFINE fresh == [token |-> tokens + 1, who |-> q.who, seen |-> clock, expires |-> clock + SessionTTL,
                     born |-> password[q.who], used |-> clock]
<1>4. PICK n \in SessionIds : IsNextId(sessions, n) /\ sessions' = Insert(sessions, n, fresh)
  BY DEF StartSession
<1> HIDE DEF q
<1>5. clock \in Nat /\ tokens \in Nat /\ password \in [Users -> Nat] /\ settled \in [Users -> Nat]
  BY DEF IInv, TypeOK
<1>6. SessionTTL \in Nat /\ TouchInterval \in Nat
  BY AccountsConstants
<1>7. fresh \in Session
  BY <1>2, <1>5, <1>6 DEF Session
<1>8. /\ DOMAIN sessions' = DOMAIN sessions \cup {n}
      /\ sessions'[n] = fresh
      /\ \A i \in DOMAIN sessions' : i # n => i \in DOMAIN sessions /\ sessions'[i] = sessions[i]
  BY <1>4 DEF Insert
<1>9. /\ fresh.who = q.who /\ fresh.born = password[q.who] /\ fresh.used = clock
      /\ fresh.seen = clock /\ fresh.expires = clock + SessionTTL
  OBVIOUS
<1> HIDE DEF fresh
<1>10. After(q.op, q.step) = "idle"
  BY <1>1 DEF After
<1>11. /\ req' = [req EXCEPT ![r] = Ready]
       /\ settled' \in [Users -> Nat]
       /\ \A u \in Users : settled'[u] = settled[u] \/ (u = q.who /\ settled'[u] = q.set)
  BY <1>1, <1>2, <1>3, <1>10, GoesOn DEF IInv
<1>12. TypeOK'
  BY <1>3, <1>5, <1>7, <1>8, <1>11, ReadyIsIdle DEF IInv, TypeOK
<1>13. req'[r] = Ready /\ (\A s \in Requests \ {r} : req'[s] = req[s])
  BY <1>11 DEF IInv, TypeOK
<1>14. RequestIsRight(req[r])' /\ ~Redeems(req[r])'
  BY <1>13, ReadyIsIdle DEF RequestIsRight, Redeems
<1>15. \A u \in Users : password[u] <= password'[u] /\ settled'[u] <= password'[u]
  BY <1>2, <1>3, <1>5, <1>11 DEF IInv
<1>16. \A i \in DOMAIN sessions' :
          \/ /\ i \in DOMAIN sessions
             /\ sessions'[i].who = sessions[i].who
             /\ sessions'[i].born = sessions[i].born
          \/ sessions'[i].born >= password[sessions'[i].who]
  BY <1>2, <1>5, <1>8, <1>9
<1>17. ASSUME NEW i \in DOMAIN sessions'
       PROVE  SessionIsRight(sessions[i])'
  <2>1. CASE i = n
    <3>1. settled'[q.who] <= password[q.who]
      BY <1>2, <1>5, <1>11 DEF IInv
    <3> QED BY <1>2, <1>3, <1>5, <1>6, <1>8, <1>9, <1>11, <2>1, <3>1 DEF SessionIsRight
  <2>2. CASE i # n
    <3>1. sessions[i] \in Session /\ SessionIsRight(sessions[i]) /\ sessions'[i] = sessions[i] /\ i \in DOMAIN sessions
      BY <1>8, <2>2 DEF IInv, TypeOK
    <3>2. sessions[i].born >= settled'[sessions[i].who]
      BY <1>2, <1>11, <3>1 DEF SessionIsRight, Session
    <3> QED BY <1>3, <3>1, <3>2 DEF SessionIsRight
  <2> QED BY <2>1, <2>2
<1> QED BY <1>3, <1>12, <1>13, <1>14, <1>15, <1>16, <1>17, OthersStand DEF IInv, OneLinkOneChange

LEMMA LogoutIsRight ==
    ASSUME IInv, NEW token, Logout(token)
    PROVE  IInv'
<1>1. /\ DOMAIN sessions' \subseteq DOMAIN sessions
      /\ \A i \in DOMAIN sessions' : sessions'[i] = sessions[i]
      /\ UNCHANGED <<clock, password, links, req, tokens, settled>>
  BY DEF Logout, Without
<1>2. TypeOK'
  BY <1>1 DEF IInv, TypeOK
<1>3. ASSUME NEW r \in Requests PROVE RequestIsRight(req[r])'
  BY <1>1 DEF IInv, RequestIsRight, Redeems
<1>4. \A i \in DOMAIN sessions' : SessionIsRight(sessions[i])'
  BY <1>1 DEF IInv, SessionIsRight
<1> QED BY <1>1, <1>2, <1>3, <1>4 DEF IInv, OneLinkOneChange, OneAtATime, Redeems

LEMMA ResetRequestIsRight ==
    ASSUME IInv, NEW u \in Users, NEW t \in Links, ResetRequest(u, t)
    PROVE  IInv'
<1> DEFINE mailed == [who |-> u, expires |-> clock + PasswordResetTTL, used |-> FALSE, sets |-> 0]
<1>1. mailed \in Link
  <2>1. clock + PasswordResetTTL \in Nat
    BY AccountsConstants DEF IInv, TypeOK
  <2> QED BY <2>1 DEF Link
<1>2. /\ DOMAIN links' = DOMAIN links \cup {t}
      /\ links'[t] = mailed
      /\ \A s \in DOMAIN links : s # t /\ links'[s] = links[s]
      /\ UNCHANGED <<clock, password, sessions, req, tokens, settled>>
  BY DEF ResetRequest
<1>3. ~mailed.used /\ mailed.sets = 0
  OBVIOUS
<1> HIDE DEF mailed
<1>4. TypeOK'
  BY <1>1, <1>2 DEF IInv, TypeOK
<1>5. ASSUME NEW r \in Requests PROVE RequestIsRight(req[r])'
  BY <1>2 DEF IInv, RequestIsRight, Redeems
<1>6. \A i \in DOMAIN sessions' : SessionIsRight(sessions[i])'
  BY <1>2 DEF IInv, SessionIsRight
<1> QED BY <1>2, <1>3, <1>4, <1>5, <1>6 DEF IInv, OneLinkOneChange, OneAtATime, Redeems

(* A link is redeemable as long as nobody redeems it.                      *)
LEMMA ConsumeIsRight ==
    ASSUME IInv, NEW r \in Requests, NEW t \in DOMAIN links, ConsumePasswordReset(r, t)
    PROVE  IInv'
<1> DEFINE come == [Ready EXCEPT !.op = "reset", !.step = After("reset", "spend"), !.who = links[t].who,
                                 !.link = t, !.wrote = TRUE]
<1>1. links[t] \in Link /\ t \in Links /\ ~links[t].used /\ links[t].sets = 0
  <2>1. links[t] \in Link /\ t \in Links
    BY DEF IInv, TypeOK
  <2>2. ~links[t].used
    BY DEF ConsumePasswordReset, Redeemable
  <2> QED BY <2>1, <2>2 DEF IInv, OneLinkOneChange, Link
<1>2. After("reset", "spend") = "set"
  BY DEF After
<1>3. come \in Request
  BY <1>1, <1>2, ReadyIsIdle DEF Request, Ready, Link
<1>4. come.op = "reset" /\ come.step = "set" /\ come.who \in Users /\ come.link = t /\ come.set = 0
  BY <1>1, <1>2 DEF Ready, Link
<1>5. /\ links' = [links EXCEPT ![t].used = TRUE]
      /\ req' = [req EXCEPT ![r] = come]
      /\ UNCHANGED <<clock, password, sessions, tokens, settled>>
  BY DEF ConsumePasswordReset
<1> HIDE DEF come
<1>6. /\ DOMAIN links' = DOMAIN links
      /\ links'[t] \in Link /\ links'[t].used /\ links'[t].sets = 0
      /\ \A s \in DOMAIN links : s # t => links'[s] = links[s]
  BY <1>1, <1>5 DEF Link
<1>7. TypeOK'
  BY <1>3, <1>5, <1>6 DEF IInv, TypeOK
<1>8. req'[r] = come /\ (\A s \in Requests \ {r} : req'[s] = req[s])
  BY <1>5 DEF IInv, TypeOK
<1>9. \A s \in Requests : ~(Redeems(req[s]) /\ req[s].link = t)
  <2> SUFFICES ASSUME NEW s \in Requests, Redeems(req[s]), req[s].link = t PROVE FALSE
    OBVIOUS
  <2>1. links[t].used
    BY DEF IInv, RequestIsRight, Redeems
  <2> QED BY <1>1, <2>1
<1>10. RequestIsRight(req[r])'
  <2>1. password \in [Users -> Nat] /\ \A i \in DOMAIN sessions : sessions[i].born \in Nat
    BY DEF IInv, TypeOK, Session
  <2>2. come.step \in StepsOf(come.op)
    BY <1>4 DEF StepsOf
  <2>3. come.set <= password'[come.who] /\ \A i \in DOMAIN sessions' : sessions'[i].born >= come.set
    BY <1>4, <1>5, <2>1
  <2>4. come.link \in DOMAIN links' /\ links'[come.link].used /\ links'[come.link].sets = 0
    BY <1>4, <1>6
  <2> QED BY <1>4, <1>8, <2>2, <2>3, <2>4 DEF RequestIsRight
<1>11. \A u \in Users : password[u] <= password'[u] /\ settled'[u] <= password'[u]
  BY <1>5 DEF IInv, TypeOK
<1>12. OneLinkOneChange'
  BY <1>6 DEF IInv, OneLinkOneChange
<1>13. \A i \in DOMAIN sessions' : SessionIsRight(sessions[i])'
  BY <1>5 DEF IInv, SessionIsRight
<1> QED BY <1>4, <1>5, <1>6, <1>7, <1>8, <1>9, <1>10, <1>11, <1>12, <1>13, OthersStand

LEMMA AdvanceIsRight ==
    ASSUME IInv, Advance
    PROVE  IInv'
<1>1. clock' = clock + 1 /\ clock \in Nat /\ UNCHANGED <<password, sessions, links, req, tokens, settled>>
  BY DEF Advance, IInv, TypeOK
<1>2. TypeOK'
  BY <1>1 DEF IInv, TypeOK
<1>3. ASSUME NEW r \in Requests PROVE RequestIsRight(req[r])'
  <2>1. req[r] \in Request /\ RequestIsRight(req[r])
    BY DEF IInv, TypeOK
  <2>2. ASSUME req[r].step = "touch"
        PROVE  req[r].now <= clock' /\ clock' - req[r].now <= MaxStall
    <3>1. req[r].now \in Nat /\ req[r].now <= clock /\ clock - req[r].now < MaxStall /\ MaxStall \in Nat
      BY <2>1, <2>2, AccountsConstants DEF RequestIsRight, Request, Advance
    <3> QED BY <1>1, <3>1
  <2> QED BY <1>1, <2>1, <2>2 DEF RequestIsRight, Redeems
<1>4. ASSUME NEW i \in DOMAIN sessions PROVE SessionIsRight(sessions[i])'
  <2>1. sessions[i] \in Session /\ SessionIsRight(sessions[i])
    BY DEF IInv, TypeOK
  <2> QED BY <1>1, <2>1 DEF SessionIsRight, Session
<1> QED BY <1>1, <1>2, <1>3, <1>4 DEF IInv, OneLinkOneChange, OneAtATime, Redeems

-----------------------------------------------------------------------------
LEMMA NextIsRight == IInv /\ [Next]_vars => IInv'
<1> SUFFICES ASSUME IInv, [Next]_vars PROVE IInv'
  OBVIOUS
<1>1. ASSUME NEW r \in Requests, Handle(r)
      PROVE  IInv'
  <2>1. ASSUME NEW u \in Users, Login(r, u) PROVE IInv'
    BY <2>1, LoginIsRight
  <2>2. ASSUME NEW i \in DOMAIN sessions, NEW op \in {"view", "profile", "change"}, Arrive(r, i, op) PROVE IInv'
    BY <2>2, ArriveIsRight
  <2>3. ASSUME NEW t \in DOMAIN links, ConsumePasswordReset(r, t) PROVE IInv'
    BY <2>3, ConsumeIsRight
  <2>4. CASE TouchSession(r)
    BY <2>4, TouchSessionIsRight
  <2>5. CASE Check(r)
    BY <2>5, CheckIsRight
  <2>6. CASE UpdateUser(r)
    BY <2>6, UpdateUserIsRight
  <2>7. CASE SetPassword(r)
    BY <2>7, SetPasswordIsRight
  <2>8. CASE DeleteUserSessions(r)
    BY <2>8, DeleteUserSessionsIsRight
  <2>9. CASE StartSession(r)
    BY <2>9, StartSessionIsRight
  <2>10. CASE Refuse(r) \/ Fail(r)
    BY <2>10, AbandonIsRight DEF Refuse, Fail
  <2>11. CASE SlideFails(r)
    BY <2>11, SlideFailsIsRight
  <2> QED BY <1>1, <2>1, <2>2, <2>3, <2>4, <2>5, <2>6, <2>7, <2>8, <2>9, <2>10, <2>11 DEF Handle
<1>2. ASSUME NEW token \in 1 .. tokens, Logout(token) PROVE IInv'
  BY <1>2, LogoutIsRight
<1>3. ASSUME NEW u \in Users, NEW t \in Links, ResetRequest(u, t) PROVE IInv'
  BY <1>3, ResetRequestIsRight
<1>4. CASE Advance
  BY <1>4, AdvanceIsRight
<1>5. CASE UNCHANGED vars
  BY <1>5 DEF vars, IInv, TypeOK, RequestIsRight, SessionIsRight, OneLinkOneChange, OneAtATime, Redeems
<1> QED BY <1>1, <1>2, <1>3, <1>4, <1>5 DEF Next

LEMMA AlwaysRight == Spec => []IInv
BY InitIsRight, NextIsRight, PTL DEF Spec

(* The tables and the requests keep their types.                           *)
THEOREM TypeCorrect == Spec => []TypeOK
<1>1. IInv => TypeOK
  BY DEF IInv
<1> QED BY <1>1, AlwaysRight, PTL

(* SetPassword, DeleteUserSessions: a change of the password that has      *)
(* answered leaves no session made under an earlier one.                   *)
THEOREM ChangeEndsSessions == Spec => []OldSessionsEnd
<1>1. IInv => OldSessionsEnd
  BY DEF IInv, SessionIsRight, OldSessionsEnd
<1> QED BY <1>1, AlwaysRight, PTL

(* ConsumePasswordReset: a mailed link sets at most one password.          *)
THEOREM LinkIsGoodOnce == Spec => []OneLinkOneChange
<1>1. IInv => OneLinkOneChange
  BY DEF IInv
<1> QED BY <1>1, AlwaysRight, PTL

(* handlePatchMe: what can still be turned down has not written.           *)
THEOREM CheckedBeforeWritten == Spec => []RefusedChangesNothing
<1>1. IInv => RefusedChangesNothing
  BY DEF IInv, RequestIsRight, RefusedChangesNothing
<1> QED BY <1>1, AlwaysRight, PTL

(* requireSession, TouchSession: a session lasts its TTL from its last     *)
(* use, short of one touch interval.                                       *)
THEOREM UseKeepsSession == Spec => []UsedStaysSignedIn
<1>1. IInv => UsedStaysSignedIn
  BY DEF IInv, SessionIsRight, UsedStaysSignedIn
<1> QED BY <1>1, AlwaysRight, PTL
=============================================================================
