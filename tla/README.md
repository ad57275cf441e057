# almanack: models, checks and proofs

almanack is a self-hosted family calendar: one Go process (`cmd/almanack`,
`internal/`), one SQLite file, a browser client (`web/`). It exists to tell a
family about its appointments, over Web Push and mail, exactly as its members
asked. What is hard about it is what surrounds the calendar: a durable outbox
that several goroutines, edits, crashes and unreliable providers touch at once;
series that are split, moved and cut for years; requests made of several
statements; a database that is migrated and backed up while it is in use.

This directory holds TLA+ modules of these parts, TLC configurations that check
them on small instances, and TLAPS proofs of what matters most for every size.
`PROJECT.json` maps each definition to the lines it stands for, lists the runs,
the mutations that show a property can fail, the hazards and the theorems.

    tlc -workers 2 -config Delivering.cfg MCNotifier.tla     (DevTick, Answered, Grace too)
    tlc -workers 2 -config Cursor.cfg MCActivityCursor.tla
    tlc -workers 2 -config Household.cfg MCHousehold.tla
    tlc -workers 2 -config Series.cfg MCSeries.tla           (Swallowed too)
    tlc -workers 2 -config Diary.cfg MCDiary.tla
    tlc -workers 2 -config Accounts.cfg MCAccounts.tla
    tlc -workers 2 -config Limiter.cfg MCLimiter.tla
    tlc -workers 2 -config Storage.cfg MCStorage.tla
    tlapm NotifierProofs.tla                                 (each *Proofs module)

## 1. The system and its parts

All paths are under `src/`. Everything stateful lives in one SQLite database in
WAL mode, opened with `_txlock=immediate`: a transaction takes the write lock at
BEGIN, so two transactions never interleave, but the statements of a handler
that is not one transaction do. Every table has an `INTEGER PRIMARY KEY` without
AUTOINCREMENT: the id of a deleted last row is handed out again. Most of the
subtle comments of the source are about one of these two facts.

| Component | State | Operations | Talks to | What is hard | What makes it right |
|---|---|---|---|---|---|
| Outbox (`internal/store/notify.go`) | `notification_queue`, UNIQUE (user, kind, source_ref, due_at) | enqueue, mark sending / sent / mailed / skipped, delete by source, list due | planner, drain, edits | edits prune rows a drain holds; ids are reused | a sent row is history; no duplicate key |
| Notification engine (`internal/notify`) | `planned_through`, `planMu`, `planned`, the locals of a pass | Plan, reconcile, CatchUp, Tick, drain, deliver, send | outbox, calendar, providers, clock | every statement is a step; partial failure; outages; retries | wanted rows are filed and survive; sent means settled; nothing stays queued forever |
| Announcements of changes (`planActivity`) | the cursor: four meta keys, not written in one transaction | read, repair, list after, file, move | activity log, outbox | ids of changes and of calendars reused within one second; interruption between the four writes | nothing owed is left behind a cursor that vouches for itself |
| Heartbeat (`heartbeat.go`) | one meta key | send when a period is over | mailer | crash between mail and marker | at most one mail a period, no period skipped by an error |
| Edits of events and series (`internal/events/edit.go`) | `events`, `recurrences`, overrides, participants | create, update, delete with scope this / upcoming / all; split; re-anchor | outbox (prune), activity log | long sequences of legal edits of one series | overrides, reminders and queued rows follow the right half |
| Reminders (`store/notify.go`) | `reminders`, `reminder_detachments` | replace keeping ids, inherit, detach | planner (ids are part of `source_ref`) | an override inherits until it is detached | no appointment announced twice or not at all |
| Occurrences, recurrence, dates (`events.go`, `recur`, `domain/date.go`) | none | expand, first, last, wall-clock conversion | planner, API | ends of months, clock changes | agree with a day-by-day definition |
| Calendars, membership, invites (`store/calendars.go`, `httpapi/calendars.go`) | `calendars`, `calendar_members`, `invites` | create, delete, leave, remove, invite, revoke | events, outbox, accounts | checks before the transaction that acts on them | no orphaned calendar, no ex-member left behind |
| Accounts, sessions, resets (`httpapi/auth.go`, `me.go`, `store/users.go`) | `users`, `sessions`, `password_resets` | signup, login, change, reset | mail, invites | a reset consumed in one statement and used in another | a reset is used once; a changed password ends sessions |
| Push subscriptions, mail (`webpush`, `mailer`) | `push_subscriptions` | subscribe, send, test | outbox | refusals, endpoints that are gone | modelled by their outcomes |
| Store (`store.go`, migrations) | schema version | open, migrate, snapshot, InTx | everything | crash between migrations, binaries of two releases | what a migration replaced can be restored |
| Backup (`cmd/almanack/backup.go`) | files | write, verify, sync, rename, tidy, prune, record | the database, other runs | interruption anywhere; two runs in one directory | what has a final name is whole; every generation is kept |
| Rate limiter (`ratelimit.go`) | a bucket per key, the last sweep | allow, forget, sweep | handlers | readings of the clock out of order; sweeps | the sweep is invisible, never more than the allowance |
| Process (`serve.go`, `bootstrap.go`) | up or down | boot, shutdown, watchdog | systemd | restart at any step | catch-up before the ticker |
| HTTP layer, configuration, i18n, holidays, images, client, migration tools | none that the properties relate | | | | not modelled |

How they meet: a handler commits an edit, which prunes or files rows of the
outbox in the same transaction; the scheduler's goroutine alternates planning
(fill the outbox from the calendar, withdraw what nobody wants, record how far)
and draining (send what is due); the drain calls providers between its
statements; a crash may come between any two steps and systemd restarts the
process, whose first act is the catch-up.

## 2. The modules

    Rowid ─┬─ Outbox ── Notifier ── MCNotifier        Delivery  (abstract)
           │               └ NotifierProofs
           ├─ ActivityCursor ── MCActivityCursor, ActivityCursorProofs
           ├─ Household ── MCHousehold, HouseholdProofs
           ├─ Series ── MCSeries, SeriesProofs
           └─ Accounts ── MCAccounts, AccountsProofs

    CivilDates ─┬─ Recurrence ─┬─ Diary ── MCDiary, DiaryProofs
                └─ WallClock ──┘
    Limiter ── MCLimiter, LimiterProofs
    Storage ── MCStorage, StorageProofs

**Rowid.** The ids of SQLite: insertion takes the number after the largest one.

**Outbox.** The table as a function from ids to rows, and one operator per SQL
statement that changes a row (`EnqueueNotification` and its ON CONFLICT DO
NOTHING, `MarkSending`, `MarkSent`, `MarkEmailSent`, `MarkSkipped`,
`DeleteQueued`, `DeleteUnsentBySource`), the two listings, and the pure judgements about
a row: `Stale`, `EventStillAhead`, `BackingOff`, `PlannerOwns`. A payload is what
decisions read of it: the source, the due instant and the event's lead.

**Notifier.** The engine for one member. A pass has a program counter that names
the place in `plan`, `reconcile` and `deliver`; every database statement, provider
call and read of the clock that matters is a step. Around the passes: edits of
plain events (create, move, delete, mute), preferences, subscriptions and the
test button, each one transaction; `Boot`, `Crash`, `Advance`; and an error at
every statement (`PlanFails`, `ReconcileFails`, `DeliverFails`). `settled` is history:
which channel has had its answer about what. What `deliver` calls `sendResult` is
the record of the flags `tried`, `took`, `owed`, `mailed`.

**Delivery.** What the outbox promises, without tables, passes or retries: filed,
then withdrawn, skipped or sent, and sent only when every channel settled.
`Notifier!Promise` instantiates it with the refinement mapping and TLC checks
`KeepsPromise`.

**ActivityCursor.** `planActivity` for one reader: the list of the calendars, the
reading of the cursor, its repair, the listing of the log, the announcements one
by one, and the four writes of the cursor, with calendars made, deleted, joined,
left and muted in between. A calendar's serial number is history: it tells a
calendar from the next one under the same id, which the code cannot.

**Household.** Who belongs to which calendar. A request is two steps: the look
(requireMember, the creator, the participants, the invitation) and the
transaction that acts on it. `late` marks a request whose calendar changed its
members since it looked; `raced` the calendars such a request wrote to. Both are
history and no guard reads them.

**Series.** Repeating events: the tables an edit writes (`events`, `recurrences`,
`event_overrides`, `reminders`, `reminder_detachments`, the unsent rows of the
outbox), the edits with their three scopes (`Create`, `Update`, `Delete`,
`PutReminders`), each one transaction with every statement it makes (the split, the
re-anchoring, `Repointed`, the overrides a second half cannot reach, the reminders
carried along, the prune), and the reads that turn rows back into a calendar: the
range read with the SQL that chooses its rows, the page of an occurrence, the date
a search links to, the reminders an editor shows and those the planner acts on.
`Calendar` is the reference the reads are measured against. The last request is kept
in `did`, which the action properties read and the VIEW leaves out.

**CivilDates, WallClock, Recurrence.** The pure code of `domain/date.go`,
`domain/recurrence.go` and `recur`: dates and their arithmetic; `Date.In`, `At` and
`AtTimeOf` over a zone that changes its clocks once; expansion with its jump to the
window, `Next`, `Last` with its probes, validation and re-anchoring, as sets of dates per
period, put in order and strung together. **Diary** puts the three together as `events.go` does (`shift`,
`spanDays`, `expandSeries`, `ReminderDue`) and walks over the days. `Due` states the
policy table at the head of `recur.go` for one day, from the calendar alone.

**Accounts.** Passwords, sessions and reset links. A request goes through the
statements of its handler (`After` is their order): the touch of `requireSession`,
the check, `UpdateUser`, `SetPassword`, `DeleteUserSessions`, `startSession`; any of
them may be the last (`Fail`). Logout and the making of a link are one statement.

**Limiter.** `allow`, `gc` and `forget`. The clock is read before the lock, so
readings enter out of order. `ideal` is history: the bucket each key would have if
none were ever swept; `tally` what the answers add up to.

**Storage.** The database file, the binaries that open it and the snapshots beside
it: `OpenWith` and its migrations, the server's pre-migration snapshot, and
`almanack backup` from the timer and from a shell: VACUUM INTO, verification, fsync,
rename, fsync of the directory, tidying, pruning, recording. Each process advances by
one system call or transaction. Faults: a failing call, a kill, a power loss that
takes what was not synced, a damaged page.

**Proof modules**: section 5.

### What is abstracted, and why that is sound here

- *Notifier*: one member, because every key of the outbox begins with the member
  and no statement relates two. A weekly summary has the control flow of a
  digest. The fan-out over devices is one step with any outcome per device. The reads
  of one plan are one snapshot; what an edit commits after it is the
  interleaving that matters, and passes that were overtaken say so (`fresh`).
  Recipients that no longer exist, unreadable payloads, disallowed endpoints and
  an error of `pruneQueued` are left out. `lead` is how long an event stays ahead
  after its reminder.
- *ActivityCursor*: the preferences that keep a member from being told are all
  `muted`. The four reads of the cursor are one step: only the planner writes it,
  under `planMu`. A crash is `Abandon`. Delivery is any subset of the queue.
- *Household*: a calendar has one event. Which member inherits the creator's role
  is left open. Revocation and expiry of an invitation are one action. An edit
  invites everybody or the caller alone (`Invited`). Names, colours, labels,
  images, `used_count` and the activity rows are left out. There is no handler
  with which an existing account joins a calendar (`AddMember` is called by signup
  only), so the model has none.
- *Series*: days are numbers and rules weekly, because no edit asks more of a rule than
  on which dates it falls, and what `recur` answers is Diary's. Titles, places, labels and colours
  are not told apart. A request is one step: the reads before its transaction are
  section 4's first entry. A planning pass is one step (`Plan`).
- *WallClock, Diary*: an instant is a clock step, half an hour in the runs, enough for every
  offset used. Dates a zone deleted have no right answer (`date.go` says so) and are set
  apart. A zone is one change of the clocks of a kind the assumption `ZoneOK` describes: put
  forward by at most half a day without passing a midnight (in front of one, up to one and from one
  on are all within it), or by a whole day at a midnight, a date deleted; put back by
  anything up to a day. Every change since 1970 in the database is of one of these kinds: the longest
  ordinary gap is Antarctica's of seven hours, and the three deleted dates are those
  `date.go` lists. `Reached` keeps the end of a rule within 32 * 4^10 days of its
  start, some ninety thousand years, which is where the model stops `Last`'s
  widening; the code has no such limit, and no date it can store is that far off.
- *Accounts*: a password is the number of times it was set, a hash verifies or not.
  Which columns a patch changes is left out. `MaxStall` bounds how long the statement
  of a touch is under way, and nothing else: other steps may take for ever.
- *Limiter*: tokens are counted in the time that earns them. The assumption
  `Cap + MaxStall <= IdleTTL` holds with a wide margin: buckets fill in 160 s (login) or
  10 minutes (signup, reset), and are kept for an hour.
- *Storage*: the names of snapshots have a resolution of one second, as the code's; an
  unfinished file's age is counted from its stamp. `RestartSec` keeps two pre-migration
  names apart. Contents are a schema version and a number of edits.
- The clock does not step back.

## 3. The runs

| Run | Instance | What it shows |
|---|---|---|
| Delivering | one reminder whose event is 3 instants ahead, phone and mail, 1 edit, 1 fault, 5 instants | `SentMeansSettled`, `SentIsHistory`, `MailedOnce`, `PassIsExact` and the refinement `KeepsPromise`, with refusals, an error or crash, and an edit anywhere |
| DevTick | two overlapping passes, test button, 1 edit | `planMu` protects the shared planned set (`PassIsExact`), and reconcile deletes no test and nothing that is wanted, behind the window or ahead (`AheadSurvives`) |
| Answered | a reminder and a digest, 1 edit, `FairSpec` | over two kinds of rows and outages of any length: `QueuedIsAnswered` |
| Grace | a digest, no edit, no fault | refutes `LateIsDelivered` |
| Cursor | 2 calendar ids, 2 log ids, 3 edits, 1 fault, two seconds and a lateness limit that can pass, an empty log or one change and every form of stored cursor to begin with, `FairSpec` | `CursorIsSound` although ids of both tables are freed and taken again, and `EveryChangeIsTold` |
| Household | 3 people, 2 requests, 2 invitations, a calendar and its successor under the same id | `Inhabited`, `NothingLeftBehind`, `JoinsTheNamed`, `SparesOthers` |
| Series | a series of a two-day week, 3 edits on 3 days, one member | rows stay linked (`Linked`), reads agree (`DaysAgree`, `LinksOpen`, `EditorIsRight`), queued rows are current (`QueuedIsCurrent`), edits do what their scope says and no more (`EditsAreScoped`, `StruckStaysStruck`), reminders are the member's (`RemindersAreKept`, `RemindersAsSaved`) |
| Diary | ten rules in Paris, two rules in nine zones, around 29 February 2024; each day is looked at and every search from it followed | `ExpandIsRight`, `SearchIsRight`, `DayStarts`, `ClockIsKept`, `DayViewIsRight`, `DragLands` |
| Accounts | 1 account, 2 requests, 2 session ids, 1 link, 3 instants | `OldSessionsEnd`, `OneLinkOneChange`, `RefusedChangesNothing`, `UsedStaysSignedIn` |
| Limiter | 2 keys, 2 requests, burst of 2, 8 instants | `SweepIsInvisible`, `WithinRate`, `WaitingHelps` |
| Storage | a server and 2 runs, a release 2 migrations ahead, 1 edit, 1 fault, 3 seconds | `FinalIsWhole`, `LiveTempStays`, `RollbackThere`, `PruneKeepsPeriods` |
| Swallowed | as Series | refutes `MovedIsShown` |

**Swallowed** refutes a sentence of the source: `edit.go` says that a series must contain
its own start, "otherwise the edit silently swallows the occurrence it was meant to
move". An occurrence edited as a copy leaves an override on its date; the first date
and all following dragged onto that date give a series whose rule contains the start
and whose override hides it. The moved occurrence is shown nowhere on its new day.

**Grace** refutes two others. `scheduler.go:60` says of a start that "today's goes out if its
slot passed less than four hours ago", and `dispatch.go:410` of any row that "rows that are barely
late are always delivered: in normal operation a tick lands a few seconds after the slot".
Every tick plans first, from the clock it reads, and plans only digests whose slot is not before
it (`planner.go:515`; summaries alike, `planner.go:552`); reconcile then deletes the unsent
row, because this plan has not listed it, and the drain finds nothing. So a tick that lands a
few seconds after the slot deletes the digest. It is sent by a pass that plans no later than
the slot and drains no earlier, which with ticks half a minute apart is chance, or by one whose
plan failed, since that skips reconcile. The tests put the clock on the slot, or dispatch without planning.

### Bounds, and why they are enough

`MaxTime` lets a slot, its lateness threshold, its event and the catch-up of an
outage all fall inside the run. `RowIds` is larger than the number of rows that
may exist at once, so no insertion is lost to it. One fault reaches every
single failure at every place; two would add only pairs of them, and the proofs
of section 5 have no bound. `MaxEdits` is one where each edit may fall at any step of
two passes, and three in Cursor, where a household may begin with a
change and a cursor already: a calendar is deleted, made again and changed, and its log with it;
`CursorStaysSound` has no such bound. `MaxDrainPasses` is `maxDrainPasses`, made small. Attempts are bounded by
time, through the backoff. Household needs a second calendar only to take over
an id, and the third person for a creator's role that passes on; with two requests every
pair of handlers overlaps. In Series three edits make a split of a split with an
edited occurrence on either side; two weekdays are enough for a rule that has another day
beside its start, and the week beyond `LastDay` shows what a rule does from then on.
The days of Diary hold the end of a short and of a leap month, a change of the clocks
before, on and after a date; the nine zones are those whose change skips, repeats or
straddles a midnight, and one that deletes a date. In Accounts two passwords and two sessions are a change and its
successor, and a session id that is taken again. In Limiter time is long enough for a
bucket to be swept while an older reading is on its way. In Storage one retention rule keeps a
single period and the other two, so that a snapshot may be kept for either.

Symmetry (people other than the founder, requests, tokens, accounts, keys, backup runs) is
sound where it is used: those modules compare the names for equality only, and no run
with symmetry checks liveness. Series' VIEW leaves out `did`, which no guard reads and
which action properties read of the step being taken only.

Deadlock is checked in Notifier's runs. It is not in the others, which stop when a
bound (edits, runs, looks, time) is used up or when the last calendar is deleted.

### Fairness

`Notifier!FairSpec` is weak fairness of the clock, of `Boot` (systemd restarts the
unit) and of each pass's own steps (the ticker of `Notifier.Run`). Providers,
families and faults owe nothing: `QueuedIsAnswered` holds though no send ever
succeeds, because staleness is judged before the backoff. `ActivityCursor!FairSpec`
is weak fairness of the planner alone. That a wanted reminder is eventually
*delivered* is not claimed: it needs a bound on the distance of two ticks in real
time, which the code has no guarantee for. Requests of users owe nothing either, so
Household, Series, Accounts, Limiter and Storage claim safety only.

## 4. Met while modelling

Reachable in the models, and set apart where a property would have to speak of them.

Edits and series:
- `Update` and `Delete` read the series and its rule before their transaction
  (`edit.go:144`); of two edits at once the second writes a row computed from what
  the first has replaced. Two "delete this and following" can push the end of a series
  back (`edit.go:656`). Series runs one edit at a time.
- A series split and dragged to before a date that was cancelled shows the cancelled date again
  if its override cannot be reached by the new rule.

Notifications:
- A digest or a summary whose slot has just passed is deleted by the reconcile of the next
  completed pass (`planner.go:515`, 552) instead of being sent; so is a reminder set for the
  start of its event (`planner.go:373`). Grace shows the first. `PassIsExact` and
  `AheadSurvives` follow the planner in what is still wanted, so they hold.
- `MarkSent` updates by id alone (`store/notify.go:643`). A row deleted during its send,
  whose id a test notification takes, is recorded as sent; reconcile's `DeleteQueued` can
  delete such a test.
- A lead longer than the horizon, as in Delivering, puts a live row behind reconcile's listing
  (`planner.go:149`), where no pass withdraws it; `PassIsExact` speaks of the rows listed.
- The calendars are listed before the log (`planner.go:570`), so the first change of a
  calendar made in between is passed by the cursor; so is a change stranded when its
  calendar is deleted between the check of the cursor and the listing.
- A calendar deleted between the reading of its members and the filing leaves the
  announcement `DeleteCalendar` prunes to avoid (`planner.go:952`, `store/calendars.go:151`).

Households and accounts:
- `handleDeleteCalendar` counts and deletes in two statements (`calendars.go:122`); a
  signup in between loses the calendar. `handleLeaveCalendar`, next to it, explains
  why the two must be one transaction.
- A leave overtaken by the same member's other leave finds a count of one and deletes the
  calendar of whoever stayed; a removal overtaken by the remover's own departure can
  remove the creator; an edit or `PUT reminders` overtaken by a departure puts the ex-member
  back. The invariants set aside exactly the calendars such a request wrote to (`raced`).
- `handlePatchMembership` and `UpdateUser` write back whole rows: of two patches at once one
  is lost.
- A login that verified the old password and makes its session after a change has ended
  the others keeps it. `OldSessionsEnd` says of a session which password was current when
  it was *made*.
- A failure after a link is spent leaves it spent and the password unchanged.
- `DeleteExpiredSessions` is commented "The scheduler calls it" (`users.go:279`); nothing does.
- A session in use may end up to one touch interval (an hour) short of its 90 days.

Storage:
- A newly installed `almanack backup` opens the store to record its outcome
  (`backup.go:81`) and so migrates the database under the old server, without the pre-migration
  snapshot. `RollbackThere` is stated until that has happened (`unhooked`).
- Of two runs that prune at once, the one that finds a file already removed fails
  (`backup.go:342`), and so does one whose own snapshot the other prunes (`backup.go:176`).
- A migration that keeps failing leaves one pre-migration snapshot per restart.

Dates:
- A gap that straddles a midnight (Toronto, 30 March 1919, 23:30 to 00:30) would make `Date.In`
  miss the first half hour of its day. It is the only one in the database, and before the years
  `date.go` speaks of; `ZoneOK` rules it out.
- Where the clocks go back past a midnight (Newfoundland until 2010, at 00:01, as far as
  23:01), an occurrence that ends in the stretch read twice has touched the new day and ends, for
  `lastDay` (`events.go:260`), on the old one. The new day's view does not show it, and of an
  occurrence that begins after midnight and ends in the second reading of the evening no day's
  does. The proof of `DayViewIsRight` found this: the property now says what holds,
  that nothing wrong is shown and that only such an occurrence (`EndsBack`) may be missing.
- On the view of a date that was deleted, or of its neighbours, `date.go` says itself what is
  wrong.

### Mutations

Each module holds, next to the definition they change, operators that stand for a
plausible mistake ("mutant", "Mutation"): an acceptance on either channel completes a row,
`DeleteQueued` without its guard, a plan outside the lock, a cursor compared by three
fields, overrides repointed off by one, reminders that copies leave behind, sessions ended before
the password is set, a sweep of whatever is not in use, a rename before the sync.
Substituted for the definition, each makes its run report the property violated.

## 5. What is proved

`NotifierProofs`, for any number of passes, rows, devices and reminders. It begins with what
each statement of Outbox preserves of the table, and that a nonempty batch has a first row
(well-foundedness of the naturals). Then:

- `TypeCorrect` (`TypeOK`), with the strengthening `Busy`: a pass that is delivering
  holds the row it delivers.
- `SentStays` (`SentIsHistory`): from the type invariant, action by action; each
  statement keeps sent rows (`KeepsSent`).
- `SentIsSettled` (`SentMeansSettled`), under the assumption `SingleWriter`: one pass
  and no test button, without which a test notification under a reused id is a
  counterexample (section 4). The
  property is not inductive: at `finish` the flags of a pass must be known to be
  about the row under that id. The invariant `Vouched` says that a live row under
  an id of the batch is the row that was read (ids only disappear while a single
  pass drains), and what each flag says of `settled`.
- `PromiseIsKept` (`KeepsPromise`, the refinement of `Delivery`), under `SingleWriter`:
  each step is one step of the abstract specification or a stutter. The mapping reads
  the state a notification is in off the whole table, so the invariant needs `Filed`
  beside `Vouched`: no key has two rows, every row and every key a pass is about to file
  is one its member may wish for, and a row being delivered is unsent as long as it exists.
- `HorizonIsExact` (`PassIsExact`) and `DropSparesTheWanted` (`AheadSurvives`), for any
  number of overlapping passes. Both speak of one statement, and rest on what the
  statements before it have achieved. `Held` says that at every point: a pass that plans holds
  `planMu`; as long as no edit has overtaken it, what it has planned and what it has still
  to plan are together what the calendar calls for; what it has planned is in the
  table; and while it reconciles, the rows it is about to delete are exactly those
  nothing calls for. Deliveries of other passes, freed ids and ids taken again leave
  that as it is (`OthersHold`, `DeliveryHolds`).
- `MailGoesOutOnce` (`MailedOnce`), under `SingleWriter`: a mail goes out before it is
  recorded, so the invariant `Calm` says where the knowledge of it is at each moment, while
  nothing has been edited and nothing has failed: on the row, in the flags of the
  pass that will write it there in its next step, or nowhere because the row is gone, and
  then its slot is `Past` and no plan will call for it again. It builds on `Vouched`, `Filed`
  and `Held`: the last is why reconcile has not dropped a row that is still wanted.

`ActivityCursorProofs`, for any calendars, changes, edits, faults, lateness and limit:
`TypeCorrect` and `CursorStaysSound` (`CursorIsSound`). That no owed change lies behind a
trusted cursor does not survive a step by itself: the four keys are written one by one, and
the ids in them are handed out again. The invariant says the same of every cursor there is, the
one in the table, the one a pass has read and the one it will write (`CursorsOK`): every
pending change up to its serial number was overlooked. It adds what the list of calendars
a pass has in hand may be missing (`ScopeOK`), and that the announcements in hand are copies of
changes each of which may become the cursor once those before it are filed (`ActsOK`). Serial
numbers, which the code does not have, are what tells a change from its successor under the
same id.

`SeriesProofs`, for any length of week, event and tail, any rules, members and reminders
and any number of edits: `TypeCorrect`, `LinksHold` (`Linked`), `DaysShowTheCalendar`
(`DaysAgree`), `LinksOpenWhatTheyShow` (`LinksOpen`), `EditorShowsWhatFires`
(`EditorIsRight`), `QueuedStaysCurrent` (`QueuedIsCurrent`), `EditsStayInScope`
(`EditsAreScoped`), `StruckOutStaysOut` (`StruckStaysStruck`), `SavedListsAreKept`
(`RemindersAsSaved`), `RemindersAreNotLost` (`RemindersAreKept`). The argument has four
parts:

- The invariant `Shape` is `Linked` in a form an edit can be seen to keep, and more: a
  rule has a first date, a template has no reminder list of its own, markers name
  events. Each edit gets a lemma that says what it makes of each table (`UpdateSeriesIs`,
  `SplitSeriesIs`, ...), the split one on what becomes of the overrides on either side of
  the cut (`OverridesSplitIs`), and one that it keeps the shape. From `Shape`
  alone follows what the reads promise.
- `StandsIs` says when an occurrence is in the calendar from the row it comes from. With
  it each edit gets one lemma on what it leaves where it is (`SplitSeriesKeeps`, ...), and
  the scopes follow. That queued rows are current rests on the same lemmas: an occurrence
  that moved is one the edit is about, and its rows are pruned.
- A struck-out date comes back only if its override goes or is carried to the wrong
  date: `NothingComesBack` for the edits that make no series, `SplitBringsNothingBack`
  for the one that does.
- The reminders of an occurrence are those of its row, or those of its series while
  nothing says otherwise (`KindIs`). `EffectiveKept` gives what has to stay for them
  to stay, and each edit is measured against it: the lists copied to the second half, the
  list an occurrence inherits when it becomes an event, those a copy keeps when its
  series goes.

`HouseholdProofs`, for any number of people, calendars, invitations and requests:
`TypeCorrect`, `CreatorStays` (`Inhabited`), `DepartureIsComplete` (`NothingLeftBehind`),
`InvitedThere` (`JoinsTheNamed`), `DeletionSparesOthers` (`SparesOthers`). One
inductive invariant carries all five: `AsLooked`, a request that was not overtaken
still finds what it looked at, and `InvitesCurrent`, no invitation outlives its
calendar. It is needed because an invariant about calendars alone says nothing of the
transaction a request is about to run.

`AccountsProofs`, for any number of accounts, requests, links and sessions, with every
statement possibly the last: `TypeCorrect`, `ChangeEndsSessions` (`OldSessionsEnd`),
`LinkIsGoodOnce` (`OneLinkOneChange`), `CheckedBeforeWritten`
(`RefusedChangesNothing`), `UseKeepsSession` (`UsedStaysSignedIn`). The invariant adds
to the four what each request has and has not done at each statement
(`RequestIsRight`: past the end of the sessions none older than the password it set is left, a spent
link has not been of use yet, a touch is not late), what a row's window is
(`SessionIsRight`) and that no link is being redeemed twice (`OneAtATime`). A frame lemma (`OthersStand`)
carries the requests that do not move, so that each action shows only what it disturbs. It uses
`MaxStall <= TouchInterval`: a touch is under way for less than an hour.

`LimiterProofs`, for any keys, requests, burst, refill and stall: `TypeCorrect`,
`SweepChangesNothing` (`SweepIsInvisible`), `RateIsKept` (`WithinRate`),
`WaitingIsEnough` (`WaitingHelps`). The invariant relates how old a reading can be
(`ReadingsAreFresh`), how full a swept bucket would be for the oldest of them, and
what a bucket's credit says of the requests let through (`BucketIsRight`). It uses
`Cap + MaxStall <= IdleTTL`.

`StorageProofs`, for any number of runs, releases, faults and rules of retention:
`TypeCorrect`, `FinalsAreWhole` (`FinalIsWhole`), `LiveTempsStay` (`LiveTempStays`),
`RollbackIsThere` (`RollbackThere`), `PruningKeepsPeriods` (`PruneKeepsPeriods`). The
invariant follows a file from its first byte to its name (`FilesAreRight`: what is published is synced,
so a power loss cannot shorten it). For the rollback it follows the server's snapshot
(`HookIsRight`: nobody writes to the database while it is taken, and nothing has its name) and keeps a named copy
behind every migration that is done and in front of the next (`CopiesAreThere`). For pruning it
says that every marked snapshot is dispensable *now*, not only when it was listed
(`DoomedIsRight`): that survives snapshots that are added (`MoreStays`) and, less
obviously, the removal of one that is dispensable itself (`OneLessStays`).

`DiaryProofs`, for every date, every valid rule, every zone of `ZoneOK`'s kind, events of any
length, and any number of looks: `TypeCorrect`, `ExpansionRight` (`ExpandIsRight`), `SearchRight`
(`SearchIsRight`), `DayStartsRight` (`DayStarts`), `ClockStays` (`ClockIsKept`),
`DayViewRight` (`DayViewIsRight`), `DragStays` (`DragLands`). The state is little here:
the invariant `Inv` says that the day and the start are dates, the rule valid, the zone of
its kind and the event what `Enter` makes it. The work is in the operators, and the lemmas hold of any
rule and date, not of the reachable ones only:

- *Dates.* `DayNumber` and `Civil` are inverse (`DateOfNumber`, `NumberOfDate`), from the arithmetic
  of a cycle of 400 years that begins in March: each day of it is a day of one of its
  years, and the division by 365.2425 finds that year. `Before` is the order of the
  numbers, so days can be reasoned about as integers.
- *Rules.* Each date belongs to one period, counted in days, weeks, months or years since the start
  (`Unit`), and a rule picks some dates of each period (`Picks`). `PeriodIs` says that `InPeriod`
  yields just those, clamped leap days, short months and fifth weekdays included; `SkipIs`
  that the jump steps over no period that reaches the window, `FallsWithin` that the
  loop does not stop short of its end. So what `each` yields is the due dates of the window in
  ascending order (`EachIs`, `ExpandIs`). It is the concatenation of the periods' dates, which
  the library defines by recursion on a sequence: that it holds exactly its parts, in order, is shown by the least
  length at which it would not, since the induction theorems cannot be used. `Next`
  is then the least due date of its window, and among a hundred years of periods there is one
  in the year ahead if any; `Last` the last of the first probe that finds one, and the
  longest probe reaches the start.
- *Dragging.* `MovedPicks` follows every branch of `reanchor`: the moved rule is valid and
  picks the day it is moved to, which is in its period 0.
- *Clocks.* A wall time has at most two readings, one on each side of the change. `At` tries
  both, and if the day is read at all one of them is on it (`AtInDay`), at the clock asked for if the day
  shows it (`AtOnClock`); of midnight's two `In` takes the first (`InIsFirst`).
- *Views.* What lies between two instants reads as a day between theirs, or one further where
  the clocks went back (`ReadBetween`). An occurrence ends at most a day
  later than its template's span says (`AtNear`, `WindowReaches`): therefore the one day by which
  `expandSeries` widens its window is enough, and nothing less would be.

TLC checked each inductive invariant before its proof. The assumptions are the named
ASSUMEs on the constants, which TLC evaluates in every run, and `SingleWriter` where a theorem names
it.

Only model-checked:

- `QueuedIsAnswered` and `EveryChangeIsTold`: liveness under fairness, and ENABLED, are out
  of the prover's reach.

`MovedIsShown` has no proof because it is false: `Swallowed` is its counterexample.

## 6. Not modelled, and what is next

Next, in this order: the edits of Series split into read and transaction, as
Household's are; `SentIsSettled` with tests allowed outside the drain; the heartbeat (one
meta key).

Left out for good: encryption, VAPID, SMTP and header encoding (formats and
cryptography), rendering, images, translations, holidays (tables), routing and
configuration parsing (no state that a property relates), the service worker (a cache in the
browser), the seed of the development endpoints, the migration tools.
