------------------------------ MODULE Notifier ------------------------------
(***************************************************************************)
(* The notification engine of internal/notify for one family member: the   *)
(* planner that materializes the outbox, reconciles it and records how far *)
(* it got; the drain that delivers what has come due over push and email;  *)
(* the boot catch-up; and, around them, the edits, preference changes and  *)
(* test notifications that the HTTP handlers commit while a pass runs, the *)
(* providers' answers, database errors and crashes.                        *)
(*                                                                         *)
(* A pass is one goroutine inside Notifier.Tick or Notifier.CatchUp. The   *)
(* scheduler runs one pass after another; in development POST /dev/tick    *)
(* runs more of them at the same time. Every database statement, every     *)
(* provider call and every read of the clock is a step of its own.         *)
(***************************************************************************)
EXTENDS Outbox

CONSTANTS
    Passes,           \* the goroutines that may run a pass
    Scheduler,        \* the one of them Notifier.Run drives
    Devices,          \* the member's push subscriptions
    Slots,            \* the instants a family may set a reminder for
    DigestSlot,       \* the instant of each digest
    Horizon,          \* ALMANACK_PLAN_HORIZON
    MaxBackfill,      \* maxBackfill
    DrainBatch,       \* drainBatch
    MaxDrainPasses,   \* maxDrainPasses
    EmailChoices,     \* the values the email preference may take
    Never,            \* no instant: an absent planned_through
    Nobody,           \* no pass: planMu is free
    MaxTime,          \* bound: the clock stops here
    MaxEdits,         \* bound: how many times the family changes something
    MaxFaults         \* bound: how many errors and crashes happen

ASSUME NotifierConstants ==
    /\ Scheduler \in Passes
    /\ Slots \subseteq Nat
    /\ DigestSlot \in [Digests -> Nat]
    /\ Horizon \in Nat
    /\ MaxBackfill \in Nat
    /\ DrainBatch \in Nat \ {0}
    /\ MaxDrainPasses \in Nat \ {0}
    /\ EmailChoices \subseteq BOOLEAN
    /\ EmailChoices # {}
    /\ Never \notin Nat
    /\ Nobody \notin Passes
    /\ MaxTime \in Nat
    /\ MaxEdits \in Nat
    /\ MaxFaults \in Nat

VARIABLES
    now,             \* clock.Clock, to the resolution of the outbox
    appt,            \* per reminder: the appointment it is set on
    prefs,           \* notification_prefs of the member
    devices,         \* push_subscriptions of the member
    queue,           \* notification_queue
    plannedThrough,  \* meta notify.planned_through
    up,              \* the server process is running
    planMu,          \* who holds Notifier.planMu
    planned,         \* Notifier.planned: what the running pass calls for
    pass,            \* the local state of each pass
    settled,         \* history: <<key, channel>> that has its answer
    edits, faults    \* how much of the two bounds is used

stored == <<appt, prefs, devices, queue, plannedThrough>>
vars == <<now, stored, up, planMu, planned, pass, settled, edits, faults>>

(* "push", "mail": a provider took the message, or there was nobody to send *)
(* it to on that channel; "inbox": the mail server took it.                 *)
Channel == {"push", "mail", "inbox"}

Appointment == [life  : {"unborn", "live", "deleted"},
                due   : Nat,        \* the reminder's slot; the event is Lead later
                heard : BOOLEAN]    \* not muted, and the reminder still set

Planning == {"enqueue", "reconcile"}
Delivering == {"judge", "recipient", "push", "mail", "record", "finish"}

Pass == [pc      : {"idle", "boot", "lock", "drain"} \cup Planning \cup Delivering,
         from    : Nat,             \* the window a pass plans
         to      : Nat,
         todo    : SUBSET Key,      \* what it has still to enqueue
         clean   : BOOLEAN,         \* no part of the plan has failed
         drop    : SUBSET Nat,      \* row ids reconcile is deleting
         fresh   : BOOLEAN,         \* history: no edit since it read the calendar
         batch   : SUBSET Copy,     \* the rows the drain read and has yet to answer
         full    : BOOLEAN,         \* the batch was drainBatch rows long
         retired : BOOLEAN,         \* some row of the batch was retired
         rounds  : Nat,             \* batches read by this drain
         tried   : BOOLEAN,         \* pushAttempted > 0
         took    : BOOLEAN,         \* pushAccepted > 0
         owed    : BOOLEAN,         \* emailOwed
         mailed  : BOOLEAN]         \* emailSent

Idle == [pc |-> "idle", from |-> 0, to |-> 0, todo |-> {}, clean |-> TRUE,
         drop |-> {}, fresh |-> FALSE, batch |-> {},
         full |-> FALSE, retired |-> FALSE, rounds |-> 0, tried |-> FALSE,
         took |-> FALSE, owed |-> FALSE, mailed |-> FALSE]

At(p, pc) == up /\ pass[p].pc = pc

Become(p, state) == pass' = [pass EXCEPT ![p] = state]

Fault == faults < MaxFaults /\ faults' = faults + 1

-----------------------------------------------------------------------------
(* A server that was last shut down before it ever planned: the family may *)
(* already have appointments, the outbox is empty.                         *)
Init ==
    /\ now = 0
    /\ appt \in [Reminders ->
            {[life |-> "unborn", due |-> 0, heard |-> TRUE]} \cup
            {[life |-> "live", due |-> s, heard |-> TRUE] : s \in Slots}]
    /\ prefs \in [digest : {TRUE}, email : EmailChoices]
    /\ devices \in SUBSET Devices
    /\ queue = [i \in {} |-> 0]
    /\ plannedThrough = Never
    /\ up = FALSE
    /\ planMu = Nobody
    /\ planned = {}
    /\ pass = [p \in Passes |-> Idle]
    /\ settled = {}
    /\ edits = 0
    /\ faults = 0

-----------------------------------------------------------------------------
(* The world: time, the process, the family. *)

Advance ==
    /\ now < MaxTime
    /\ now' = now + 1
    /\ UNCHANGED <<stored, up, planMu, planned, pass, settled, edits, faults>>

(* Notifier.Run starts with the catch-up. *)
Boot ==
    /\ ~up
    /\ up' = TRUE
    /\ Become(Scheduler, [Idle EXCEPT !.pc = "boot"])
    /\ UNCHANGED <<now, stored, planMu, planned, settled, edits, faults>>

(* Everything in memory goes; what the store committed stays. *)
Crash ==
    /\ up
    /\ Fault
    /\ up' = FALSE
    /\ planMu' = Nobody
    /\ planned' = {}
    /\ pass' = [p \in Passes |-> Idle]
    /\ UNCHANGED <<now, stored, settled, edits>>

(* Committing a change of the family's makes a planning pass that has      *)
(* already read the calendar out of date.                                  *)
Edit ==
    /\ up
    /\ edits < MaxEdits
    /\ edits' = edits + 1
    /\ pass' = [p \in Passes |->
                   IF pass[p].pc \in Planning
                   THEN [pass[p] EXCEPT !.fresh = FALSE] ELSE pass[p]]
    /\ UNCHANGED <<now, plannedThrough, up, planMu, planned, settled, faults>>

CreateEvent(r, s) ==
    /\ Edit
    /\ appt[r].life = "unborn"
    /\ appt' = [appt EXCEPT ![r] = [life |-> "live", due |-> s, heard |-> TRUE]]
    /\ UNCHANGED <<prefs, devices, queue>>

(* Service.updatePlain: the new time and the prune commit together. *)
MoveEvent(r, s) ==
    /\ Edit
    /\ appt[r].life = "live"
    /\ appt' = [appt EXCEPT ![r].due = s]
    /\ queue' = DeleteUnsentBySource(queue, r)
    /\ UNCHANGED <<prefs, devices>>

(* Service.Delete of a plain event. *)
DeleteEvent(r) ==
    /\ Edit
    /\ appt[r].life = "live"
    /\ appt' = [appt EXCEPT ![r].life = "deleted"]
    /\ queue' = DeleteUnsentBySource(queue, r)
    /\ UNCHANGED <<prefs, devices>>

(* Muting a calendar, leaving a participating-only event or removing the   *)
(* reminder, and the reverse: nothing is pruned, reconcile is relied on.   *)
SetHeard(r, b) ==
    /\ Edit
    /\ appt[r].life = "live"
    /\ appt' = [appt EXCEPT ![r].heard = b]
    /\ UNCHANGED <<prefs, devices, queue>>

PatchPrefs(digest, email) ==
    /\ Edit
    /\ prefs' = [digest |-> digest, email |-> email]
    /\ UNCHANGED <<appt, devices, queue>>

Subscribe(d) ==
    /\ Edit
    /\ devices' = devices \cup {d}
    /\ UNCHANGED <<appt, prefs, queue>>

(* handlePushTest: each press files a row of its own, due at once. *)
PressTest(t) ==
    /\ Edit
    /\ \A i \in DOMAIN queue : queue[i].src # t
    /\ <<[src |-> t, due |-> now], "push">> \notin settled
    /\ EnqueueNotification(queue, [src |-> t, due |-> now], queue')
    /\ UNCHANGED <<appt, prefs, devices>>

-----------------------------------------------------------------------------
(* Planning. *)

(* Mutation: a slot already behind the window is not planned. *)
PlannedInWindow(from, to) ==
    {k \in {[src |-> r, due |-> appt[r].due] : r \in Reminders} :
        /\ appt[k.src].life = "live" /\ appt[k.src].heard
        /\ k.due \in from .. to}

(* The keys a pass over [from, to] produces from the calendar as it stands:*)
(* planUserReminders, planDigests and planSummaries.                       *)
PlannedReminders(from, to) ==
    {k \in {[src |-> r, due |-> appt[r].due] : r \in Reminders} :
        /\ appt[k.src].life = "live" /\ appt[k.src].heard
        /\ k.due <= to
        /\ k.due < from => EventStillAhead(k, from)}

PlannedDigests(from, to) ==
    {k \in {[src |-> d, due |-> DigestSlot[d]] : d \in Digests} :
        prefs.digest /\ k.due >= from /\ k.due <= to}

Start(p, from) ==
    /\ Become(p, [Idle EXCEPT !.pc = "lock", !.from = from, !.to = now + Horizon])
    /\ UNCHANGED <<now, stored, up, planMu, planned, settled, edits, faults>>

(* The start of Notifier.CatchUp: planning resumes where the last complete *)
(* pass left off, unless that is still ahead or too far back.              *)
CatchUpFrom ==
    IF plannedThrough = Never THEN now
    ELSE IF plannedThrough > now THEN now
    ELSE IF now - plannedThrough > MaxBackfill THEN now - MaxBackfill
    ELSE plannedThrough

CatchUp(p) == At(p, "boot") /\ Start(p, CatchUpFrom)

(* Notifier.Tick: Plan reads the clock, then Dispatch runs whatever became *)
(* of the plan.                                                            *)
Tick(p) == At(p, "idle") /\ Start(p, now)

(* Mutation: plan without planMu. *)
PlanUnlocked(p) ==
    /\ At(p, "lock")
    /\ planMu' = p
    /\ planned' = {}
    /\ Become(p, [pass[p] EXCEPT !.pc = "enqueue", !.fresh = TRUE,
                     !.todo = PlannedReminders(pass[p].from, pass[p].to)
                                \cup PlannedDigests(pass[p].from, pass[p].to)])
    /\ UNCHANGED <<now, stored, up, settled, edits, faults>>

(* plan takes planMu and reads the reminders, the occurrences and the      *)
(* preferences, in one step: what it reads of one reminder, of the next    *)
(* and of the digest is independent.                                       *)
Plan(p) ==
    /\ At(p, "lock")
    /\ planMu = Nobody
    /\ planMu' = p
    /\ planned' = {}
    /\ Become(p, [pass[p] EXCEPT !.pc = "enqueue", !.fresh = TRUE,
                     !.todo = PlannedReminders(pass[p].from, pass[p].to)
                                \cup PlannedDigests(pass[p].from, pass[p].to)])
    /\ UNCHANGED <<now, stored, up, settled, edits, faults>>

Enqueue(p, k) ==
    /\ At(p, "enqueue")
    /\ k \in pass[p].todo
    /\ EnqueueNotification(queue, k, queue')
    /\ planned' = planned \cup {k}
    /\ Become(p, [pass[p] EXCEPT !.todo = @ \ {k}])
    /\ UNCHANGED <<now, appt, prefs, devices, plannedThrough, up, planMu,
                   settled, edits, faults>>

(* Mutation: the error of one part is logged and not returned. *)
PlanFailsQuietly(p) ==
    /\ At(p, "enqueue")
    /\ Fault
    /\ \E left \in SUBSET pass[p].todo : Become(p, [pass[p] EXCEPT !.todo = left])
    /\ UNCHANGED <<now, stored, up, planMu, planned, settled, edits>>

(* A read or an insert that fails loses its part of the plan; the rest of  *)
(* it goes on, but the pass is no longer clean.                            *)
PlanFails(p) ==
    /\ At(p, "enqueue")
    /\ Fault
    /\ \E left \in SUBSET pass[p].todo :
          Become(p, [pass[p] EXCEPT !.todo = left, !.clean = FALSE])
    /\ UNCHANGED <<now, stored, up, planMu, planned, settled, edits>>

(* The deferred end of plan, whatever became of it. *)
EndPlan(p) ==
    /\ planMu' = Nobody
    /\ planned' = {}
    /\ Become(p, [Idle EXCEPT !.pc = "drain"])

(* A partial pass deletes nothing and does not record its horizon. *)
PlanPartial(p) ==
    /\ At(p, "enqueue")
    /\ pass[p].todo = {}
    /\ ~pass[p].clean
    /\ EndPlan(p)
    /\ UNCHANGED <<now, stored, up, settled, edits, faults>>

(* reconcile's listing and its verdict on each row of it. *)
Unplanned(from, to) ==
    {i \in ListUnsent(queue, from - Horizon, to) :
        /\ queue[i].due < from => ~Stale(queue[i], now)
        /\ PlannerOwns(queue[i].src)
        /\ KeyOf(queue[i]) \notin planned}

Reconcile(p) ==
    /\ At(p, "enqueue")
    /\ pass[p].todo = {}
    /\ pass[p].clean
    /\ Become(p, [pass[p] EXCEPT !.pc = "reconcile",
                     !.drop = Unplanned(pass[p].from, pass[p].to)])
    /\ UNCHANGED <<now, stored, up, planMu, planned, settled, edits, faults>>

Drop(p, i) ==
    /\ At(p, "reconcile")
    /\ i \in pass[p].drop
    /\ queue' = DeleteQueued(queue, i)
    /\ Become(p, [pass[p] EXCEPT !.drop = @ \ {i}])
    /\ UNCHANGED <<now, appt, prefs, devices, plannedThrough, up, planMu,
                   planned, settled, edits, faults>>

RecordHorizon(p) ==
    /\ At(p, "reconcile")
    /\ pass[p].drop = {}
    /\ plannedThrough' = pass[p].to
    /\ EndPlan(p)
    /\ UNCHANGED <<now, appt, prefs, devices, queue, up, settled, edits, faults>>

(* A failed deletion ends reconcile, and a failed marker write follows it. *)
ReconcileFails(p) ==
    /\ At(p, "reconcile")
    /\ Fault
    /\ EndPlan(p)
    /\ UNCHANGED <<now, stored, up, settled, edits>>

-----------------------------------------------------------------------------
(* Delivery. *)

(* One iteration of drain's loop. *)
Drain(p) ==
    /\ At(p, "drain")
    /\ LET due == DueNotifications(queue, now, DrainBatch)
       IN  Become(p, IF due = {} THEN Idle
                     ELSE [Idle EXCEPT !.pc = "judge", !.batch = due,
                              !.rounds = pass[p].rounds,
                              !.full = Cardinality(due) = DrainBatch])
    /\ UNCHANGED <<now, stored, up, planMu, planned, settled, edits, faults>>

(* The row deliver is working on, as the batch read it. *)
Current(p) == First(pass[p].batch)
CurrentKey(p) == KeyOf(Current(p).row)

(* deliver has answered for the current row: the next row of the batch, the*)
(* next batch, or the end of the drain. An outcome is retired or deferred. *)
NextRow(p, outcome) ==
    LET rest    == pass[p].batch \ {Current(p)}
        retired == pass[p].retired \/ outcome = "retired"
        again   == pass[p].full /\ retired /\ pass[p].rounds + 1 < MaxDrainPasses
    IN  IF rest # {}
        THEN [Idle EXCEPT !.pc = "judge", !.batch = rest, !.full = pass[p].full,
                          !.retired = retired, !.rounds = pass[p].rounds]
        ELSE IF again THEN [Idle EXCEPT !.pc = "drain", !.rounds = pass[p].rounds + 1]
        ELSE Idle

Answer(p, outcome) == Become(p, NextRow(p, outcome))

SkipStale(p) ==
    /\ At(p, "judge")
    /\ Stale(Current(p).row, now)
    /\ queue' = MarkSkipped(queue, Current(p).id, "stale", now)
    /\ Answer(p, "retired")
    /\ UNCHANGED <<now, appt, prefs, devices, plannedThrough, up, planMu,
                   planned, settled, edits, faults>>

DeferBackingOff(p) ==
    /\ At(p, "judge")
    /\ ~Stale(Current(p).row, now)
    /\ BackingOff(Current(p).row, now)
    /\ Answer(p, "deferred")
    /\ UNCHANGED <<now, stored, up, planMu, planned, settled, edits, faults>>

(* MarkSending; a row that is no longer there is left to the next tick. *)
Attempt(p) ==
    /\ At(p, "judge")
    /\ ~Stale(Current(p).row, now)
    /\ ~BackingOff(Current(p).row, now)
    /\ queue' = MarkSending(queue, Current(p).id, now)
    /\ IF Current(p).id \in DOMAIN queue
       THEN Become(p, [pass[p] EXCEPT !.pc = "recipient"])
       ELSE Answer(p, "deferred")
    /\ UNCHANGED <<now, appt, prefs, devices, plannedThrough, up, planMu,
                   planned, settled, edits, faults>>

(* The recipient and the preferences are read; a digest or a summary with  *)
(* nothing to say is retired here.                                         *)
ReadRecipient(p) ==
    /\ At(p, "recipient")
    /\ Become(p, [pass[p] EXCEPT !.pc = "push", !.owed = prefs.email])
    /\ UNCHANGED <<now, stored, up, planMu, planned, settled, edits, faults>>

SkipEmpty(p) ==
    /\ At(p, "recipient")
    /\ Current(p).row.src \in Digests
    /\ queue' = MarkSkipped(queue, Current(p).id, "empty", now)
    /\ Answer(p, "retired")
    /\ UNCHANGED <<now, appt, prefs, devices, plannedThrough, up, planMu,
                   planned, settled, edits, faults>>

(* send's loop over the subscriptions: each takes the message, is gone for *)
(* good, or fails.                                                         *)
Push(p, took, gone) ==
    /\ At(p, "push")
    /\ took \subseteq devices /\ gone \subseteq devices \ took
    /\ devices' = devices \ gone
    /\ LET tried == devices # gone
       IN  /\ Become(p, [pass[p] EXCEPT !.pc = "mail", !.tried = tried,
                                        !.took = took # {}])
           /\ settled' = IF tried /\ took = {} THEN settled
                         ELSE settled \cup {<<CurrentKey(p), "push">>}
    /\ UNCHANGED <<now, appt, prefs, queue, plannedThrough, up, planMu, planned, edits, faults>>

(* send's email leg, when there is none or it went out on an earlier try. *)
MailNotNeeded(p) ==
    /\ At(p, "mail")
    /\ pass[p].owed => Current(p).row.mailed
    /\ settled' = IF pass[p].owed THEN settled
                  ELSE settled \cup {<<CurrentKey(p), "mail">>}
    /\ Become(p, [pass[p] EXCEPT !.pc = "finish", !.mailed = Current(p).row.mailed])
    /\ UNCHANGED <<now, stored, up, planMu, planned, edits, faults>>

MailAccepted(p) ==
    /\ At(p, "mail")
    /\ pass[p].owed /\ ~Current(p).row.mailed
    /\ settled' = settled \cup {<<CurrentKey(p), c>> : c \in {"mail", "inbox"}}
    /\ Become(p, [pass[p] EXCEPT !.pc = "record", !.mailed = TRUE])
    /\ UNCHANGED <<now, stored, up, planMu, planned, edits, faults>>

MailRefused(p) ==
    /\ At(p, "mail")
    /\ pass[p].owed /\ ~Current(p).row.mailed
    /\ Become(p, [pass[p] EXCEPT !.pc = "finish"])
    /\ UNCHANGED <<now, stored, up, planMu, planned, settled, edits, faults>>

RecordMail(p) ==
    /\ At(p, "record")
    /\ queue' = MarkEmailSent(queue, Current(p).id)
    /\ Become(p, [pass[p] EXCEPT !.pc = "finish"])
    /\ UNCHANGED <<now, appt, prefs, devices, plannedThrough, up, planMu,
                   planned, settled, edits, faults>>

(* Mutation: one acceptance on either channel finishes the row. *)
CompleteOnAny(res) == (res.tried => res.took) \/ (res.owed /\ res.mailed)

(* sendResult.complete *)
Complete(res) == (res.tried => res.took) /\ (res.owed => res.mailed)

DeferIncomplete(p) ==
    /\ At(p, "finish")
    /\ ~Complete(pass[p])
    /\ Answer(p, "deferred")
    /\ UNCHANGED <<now, stored, up, planMu, planned, settled, edits, faults>>

Deliver(p) ==
    /\ At(p, "finish")
    /\ Complete(pass[p])
    /\ queue' = MarkSent(queue, Current(p).id)
    /\ Answer(p, IF Current(p).id \in DOMAIN queue THEN "retired" ELSE "deferred")
    /\ UNCHANGED <<now, appt, prefs, devices, plannedThrough, up, planMu,
                   planned, settled, edits, faults>>

(* A database error while delivering. Before or after the send it defers   *)
(* the row; a skip that could not be written still counts as one; a mail   *)
(* that could not be recorded is still sent; a batch that could not be     *)
(* read, like a catch-up that could not read its marker, ends the pass.    *)
DeliverFails(p) ==
    /\ up
    /\ \/ pass[p].pc \in {"recipient", "push"} /\ Answer(p, "deferred")
       \/ /\ pass[p].pc = "recipient"
          /\ Current(p).row.src \in Digests
          /\ Answer(p, "retired")
       \/ pass[p].pc = "judge" /\ Stale(Current(p).row, now) /\ Answer(p, "retired")
       \/ /\ pass[p].pc = "judge"
          /\ ~Stale(Current(p).row, now) /\ ~BackingOff(Current(p).row, now)
          /\ Answer(p, "deferred")
       \/ pass[p].pc = "finish" /\ Complete(pass[p]) /\ Answer(p, "deferred")
       \/ pass[p].pc = "record" /\ Become(p, [pass[p] EXCEPT !.pc = "finish"])
       \/ pass[p].pc \in {"boot", "drain"} /\ Become(p, Idle)
    /\ Fault
    /\ UNCHANGED <<now, stored, up, planMu, planned, settled, edits>>

-----------------------------------------------------------------------------
Family ==
    \/ \E r \in Reminders, s \in Slots : CreateEvent(r, s) \/ MoveEvent(r, s)
    \/ \E r \in Reminders : DeleteEvent(r)
    \/ \E r \in Reminders, b \in BOOLEAN : SetHeard(r, b)
    \/ \E digest \in BOOLEAN, email \in EmailChoices : PatchPrefs(digest, email)
    \/ \E d \in Devices : Subscribe(d)
    \/ \E t \in Tests : PressTest(t)

PlanStep(p) ==
    \/ CatchUp(p)
    \/ Tick(p)
    \/ Plan(p)
    \/ \E k \in pass[p].todo : Enqueue(p, k)
    \/ PlanPartial(p)
    \/ Reconcile(p)
    \/ \E i \in pass[p].drop : Drop(p, i)
    \/ RecordHorizon(p)

DeliverStep(p) ==
    \/ Drain(p)
    \/ SkipStale(p) \/ DeferBackingOff(p) \/ Attempt(p)
    \/ ReadRecipient(p) \/ SkipEmpty(p)
    \/ \E took \in SUBSET devices, gone \in SUBSET devices : Push(p, took, gone)
    \/ MailNotNeeded(p) \/ MailAccepted(p) \/ MailRefused(p) \/ RecordMail(p)
    \/ DeferIncomplete(p) \/ Deliver(p)

PassStep(p) == PlanStep(p) \/ DeliverStep(p)

Next ==
    \/ Advance
    \/ Boot
    \/ Crash
    \/ Family
    \/ \E p \in Passes : \/ PassStep(p)
                           \/ PlanFails(p) \/ ReconcileFails(p) \/ DeliverFails(p)

Spec == Init /\ [][Next]_vars

(* The ticker, the clock and systemd's restart never stop; families,       *)
(* providers and faults owe nothing.                                       *)
FairSpec ==
    /\ Spec
    /\ WF_vars(Advance)
    /\ WF_vars(Boot)
    /\ \A p \in Passes : WF_vars(PassStep(p))

-----------------------------------------------------------------------------
TypeOK ==
    /\ now \in Nat
    /\ appt \in [Reminders -> Appointment]
    /\ prefs \in [digest : BOOLEAN, email : BOOLEAN]
    /\ devices \subseteq Devices
    /\ IsTable(queue)
    /\ plannedThrough \in Nat \cup {Never}
    /\ up \in BOOLEAN
    /\ planMu \in Passes \cup {Nobody}
    /\ planned \subseteq Key
    /\ pass \in [Passes -> Pass]
    /\ settled \subseteq Key \X Channel
    /\ edits \in Nat
    /\ faults \in Nat

(* A notification the family still wants, seen from the instant t: its     *)
(* slot is not behind t, or the event it warns about is still ahead of t.  *)
Wanted(key, t) ==
    IF key.src \in Reminders
    THEN /\ appt[key.src].life = "live"
         /\ appt[key.src].heard
         /\ appt[key.src].due = key.due
         /\ key.due < t => EventStillAhead(key, t)
    ELSE /\ prefs.digest
         /\ DigestSlot[key.src] = key.due
         /\ key.due >= t

Wishes == [src : Reminders \cup Digests, due : Slots \cup {DigestSlot[d] : d \in Digests}]

(* With one pass at a time and no test button: a row is recorded as sent   *)
(* only when every channel of its member had settled it - a push service   *)
(* that accepts vouches for nothing but the push leg, and a crash, a       *)
(* refusal or a database error at any point retires nothing. The order     *)
(* "send, then MarkSent" of Notifier.deliver and sendResult.complete.      *)
SentMeansSettled ==
    \A i \in DOMAIN queue : queue[i].sent =>
        \A c \in {"push", "mail"} : <<KeyOf(queue[i]), c>> \in settled

(* A delivered row is the record of what the family was told: whatever     *)
(* overlaps, it stays, under its number, about the same thing. It is what  *)
(* absorbs the re-plan of something already announced.                     *)
SentIsHistory ==
    [][KeepsSent(queue, queue')]_vars

(* The retries of a row never mail it twice: an accepted mail is recorded  *)
(* the moment it is accepted, even when the row stays queued for its push. *)
(* Only a crash or an error between the two, or an edit that files the     *)
(* same thing anew, may repeat it (Notifier.send, MarkEmailSent).          *)
MailedOnce ==
    [][\A p \in Passes :
          MailAccepted(p) /\ <<CurrentKey(p), "inbox">> \in settled
              => edits > 0 \/ faults > 0]_vars

(* Reconcile never deletes what the family still wants: when nobody has    *)
(* changed anything since the pass read the calendar, the row it deletes   *)
(* is not wanted - even one behind the window whose event is ahead - and   *)
(* is no test notification, which no pass can vouch for.                   *)
AheadSurvives ==
    [][\A p \in Passes : \A i \in pass[p].drop :
          Drop(p, i) /\ pass[p].fresh /\ i \in DOMAIN queue
              => /\ queue[i].src \notin Tests
                 /\ ~Wanted(KeyOf(queue[i]), pass[p].from)]_vars

(* What has just fallen due still goes out: scheduler.go:60 promises a     *)
(* digest for hours after its slot, dispatch.go:410 every row that is      *)
(* barely late. So reconcile would never delete a row that the family      *)
(* called for at its own due time, has not cancelled since, and that the   *)
(* drain would still deliver. Refuted: the planner plans a digest only     *)
(* from now on, and the next reconcile deletes the row it has left out.    *)
LateIsDelivered ==
    [][\A p \in Passes : \A i \in pass[p].drop :
          /\ Drop(p, i)
          /\ pass[p].fresh
          /\ i \in DOMAIN queue
          /\ i \notin DOMAIN queue'
              => \/ ~Wanted(KeyOf(queue[i]), queue[i].due)
                 \/ Stale(queue[i], now)]_vars

(* A pass that records its horizon leaves the outbox exact: everything the *)
(* family wants up to the horizon is filed, and every queued row from one  *)
(* horizon back that would still be delivered is wanted - also the one     *)
(* whose slot has passed, issue #71. So a marker never covers a hole, and  *)
(* the five kinds of edit need no pruning of their own.                    *)
PassIsExact ==
    [][\A p \in Passes :
          RecordHorizon(p) /\ pass[p].fresh =>
              LET from == pass[p].from
                  to   == pass[p].to
              IN  /\ \A k \in Wishes : Wanted(k, from) /\ k.due <= to => k \in Keys(queue)
                  /\ \A i \in LiveIds(queue) :
                        /\ queue[i].due \in from - Horizon .. to
                        /\ ~Stale(queue[i], now)
                        /\ queue[i].src \notin Tests
                        => Wanted(KeyOf(queue[i]), from)]_vars

(* No row is immortal: there is no attempt cap, so whatever a provider     *)
(* refuses and however long it backs off, a row leaves the queue - sent,   *)
(* skipped or withdrawn - once the thing it announces is past.             *)
QueuedIsAnswered ==
    \A k \in Wishes :
        (\E i \in LiveIds(queue) : KeyOf(queue[i]) = k)
            ~> (\A i \in LiveIds(queue) : KeyOf(queue[i]) # k)

(* The detailed outbox implements what it promises. *)
Promise == INSTANCE Delivery WITH
    Notification <- Wishes,
    Channel      <- {"push", "mail"},
    filed        <- {KeyOf(queue[i]) : i \in LiveIds(queue)},
    skipped      <- {KeyOf(queue[i]) : i \in {i \in DOMAIN queue : queue[i].skipped # "no"}},
    sent         <- {KeyOf(queue[i]) : i \in {i \in DOMAIN queue : queue[i].sent}},
    settled      <- {a \in settled : a[2] # "inbox"}

KeepsPromise == Promise!DSpec
=============================================================================
