------------------------------- MODULE Storage -------------------------------
(***************************************************************************)
(* The database file, the binaries that open it and the snapshots beside   *)
(* it: store.OpenWith and its migrations, runServe with its pre-migration  *)
(* snapshot, and `almanack backup` from the hourly timer or from a shell.  *)
(* Every process advances by one system call or one transaction; it may    *)
(* fail there, be killed, or go down with the machine.                     *)
(*                                                                         *)
(* The database is its schema version, how often the family has written to *)
(* it, and whether its pages are sound. Time is counted in the seconds of  *)
(* a snapshot's name; a period of retention is a number of them.           *)
(***************************************************************************)
EXTENDS Naturals, FiniteSets

CONSTANTS
    Server,     \* the process that serves
    Runs,       \* bound: backup runs at once
    Releases,   \* the schema versions that releases are built for
    Retention,  \* pairs of a period's length and how many of them are kept
    StaleAfter, \* staleTempAfter
    MaxTime,    \* bound: the end of time
    MaxEdits,   \* bound: what the family writes
    MaxRuns,    \* bound: snapshots begun
    MaxFaults,  \* bound: failures, kills, power losses, damage
    None

ASSUME StorageConstants ==
    /\ Server \notin Runs
    /\ Releases \subseteq Nat \ {0}
    /\ Retention \subseteq (Nat \ {0}) \X (Nat \ {0}) /\ Retention # {}
    /\ StaleAfter \in Nat \ {0}
    /\ {MaxTime, MaxEdits, MaxRuns, MaxFaults} \subseteq Nat

VARIABLES
    clock,
    db,         \* the database file
    installed,  \* the release the symlink points at
    finals,     \* snapshots under their final names
    temps,      \* partial files, by directory, stamp and process
    proc,       \* the local state of each process
    runs, faults,
    served,     \* history: what a server last saw of each schema version it served
    unhooked    \* history: a backup run has migrated the database

vars == <<clock, db, installed, finals, temps, proc, runs, faults, served, unhooked>>

Procs == Runs \cup {Server}
Dirs == {"hourly", "pre-migration"}

Database == [version : Nat, edits : Nat, sound : BOOLEAN]

File == [version : Nat, edits : Nat, sound : BOOLEAN,
         whole   : BOOLEAN,  \* VACUUM INTO has come to its end
         synced  : BOOLEAN,  \* its contents are on the disk
         named   : BOOLEAN]  \* its name is on the disk

Steps == {"idle", "vacuum", "verify", "publish", "syncdir", "list", "remove", "record", "migrate", "serving"}

Process == [step  : Steps,
            knows : Nat,             \* the newest migration of its binary
            at    : Nat,             \* the version it has found, or brought about
            stamp : Nat,
            doomed : SUBSET Nat]     \* the snapshots it is about to remove

Resting == [step |-> "idle", knows |-> 0, at |-> 0, stamp |-> 0, doomed |-> {}]

DirOf(p) == IF p = Server THEN "pre-migration" ELSE "hourly"
Temp(p) == <<DirOf(p), proc[p].stamp, p>>
Final(p) == <<DirOf(p), proc[p].stamp>>

\* Functions from names to files.
Only(table, names) == [n \in names |-> table[n]]
Drop(table, names) == Only(table, DOMAIN table \ names)
Put(table, name, file) == [n \in DOMAIN table \cup {name} |-> IF n = name THEN file ELSE table[n]]

\* A family has been served by the oldest release, and backed up once.
Init ==
    /\ clock = 1
    /\ installed \in Releases /\ \A v \in Releases : installed <= v
    /\ db = [version |-> installed, edits |-> 0, sound |-> TRUE]
    /\ finals = [f \in {<<"hourly", 0>>} |->
                    [version |-> installed, edits |-> 0, sound |-> TRUE, whole |-> TRUE, synced |-> TRUE,
                     named |-> TRUE]]
    /\ temps = [t \in {} |-> None]
    /\ proc = [p \in Procs |-> Resting]
    /\ runs = 0 /\ faults = 0
    /\ served = [v \in {installed} |-> 0]
    /\ unhooked = FALSE

-----------------------------------------------------------------------------
(* takeBackup.                                                             *)

Goes(p, step) == proc' = [proc EXCEPT ![p].step = step]

\* Mutant: a snapshot that fails does not keep the server from migrating.
OverRegardless(p) == proc' = [proc EXCEPT ![p].step = IF p = Server THEN "migrate" ELSE "idle"]

\* The process is done with its snapshot: serve exits, a backup run goes on to record what came
\* of it, unless the schema is newer than its binary (runBackup, migrate).
Over(p) ==
    proc' = [proc EXCEPT ![p] =
                IF p = Server \/ db.version > @.knows THEN Resting
                ELSE [Resting EXCEPT !.step = "record", !.knows = proc[p].knows, !.at = db.version]]

\* An error before the rename removes the partial file.
GivesUp(p) == temps' = Drop(temps, {Temp(p)}) /\ Over(p)

\* Mutant: whatever ends in .tmp is left over from an earlier run.
StaleOfAnyAge(dir) == {t \in DOMAIN temps : t[1] = dir}

\* removeStaleTemps: a partial file nothing has written to for an hour, counted from its start.
Stale(dir) == {t \in DOMAIN temps : t[1] = dir /\ clock - t[2] >= StaleAfter}

\* The temporary files are tidied up and VACUUM INTO starts on its own; what it will hold is
\* the database as it is now.
BeginBackup(p) ==
    LET own == <<DirOf(p), clock, p>> IN
    /\ runs < MaxRuns /\ runs' = runs + 1
    /\ temps' = Put(Drop(temps, Stale(DirOf(p))), own,
                    [version |-> db.version, edits |-> db.edits, sound |-> db.sound, whole |-> FALSE,
                     synced |-> FALSE, named |-> FALSE])
    /\ proc' = [proc EXCEPT ![p] = [Resting EXCEPT !.step = "vacuum", !.knows = installed, !.at = db.version,
                                           !.stamp = clock]]

\* The timer or an operator starts a run, of the binary that is installed.
StartRun(p) ==
    /\ p \in Runs /\ proc[p].step = "idle"
    /\ BeginBackup(p)
    /\ UNCHANGED <<clock, db, installed, finals, faults, served, unhooked>>

Vacuum(p) ==
    /\ proc[p].step = "vacuum"
    /\ temps' = IF Temp(p) \in DOMAIN temps
                THEN [temps EXCEPT ![Temp(p)].whole = TRUE] ELSE temps
    /\ Goes(p, "verify")
    /\ UNCHANGED <<clock, db, installed, finals, runs, faults, served, unhooked>>

\* verify: the copy is a sound database with a schema. A file that has gone is opened as a new,
\* empty one.
Verifies(p) == Temp(p) \in DOMAIN temps /\ temps[Temp(p)].sound

\* Mutant: the rename comes before the contents are on the disk.
Unsynced(file) == file

\* fsyncFile.
Synced(file) == [file EXCEPT !.synced = TRUE]

Verify(p) ==
    /\ proc[p].step = "verify"
    /\ IF Verifies(p) THEN temps' = [temps EXCEPT ![Temp(p)] = Synced(@)] /\ Goes(p, "publish")
       ELSE GivesUp(p)
    /\ UNCHANGED <<clock, db, installed, finals, runs, faults, served, unhooked>>

\* The rename; a run of the same second may have taken the name.
Publish(p) ==
    /\ proc[p].step = "publish"
    /\ IF Temp(p) \in DOMAIN temps
       THEN /\ finals' = Put(finals, Final(p), temps[Temp(p)])
            /\ temps' = Drop(temps, {Temp(p)})
            /\ Goes(p, "syncdir")
       ELSE GivesUp(p) /\ UNCHANGED finals
    /\ UNCHANGED <<clock, db, installed, runs, faults, served, unhooked>>

\* fsyncDir: every name of the directory is on the disk. Then come the migrations of a server,
\* the pruning of a run that is asked to, unless another run has pruned the snapshot already.
SyncDir(p) ==
    /\ proc[p].step = "syncdir"
    /\ finals' = [f \in DOMAIN finals |->
                     IF f[1] = DirOf(p) THEN [finals[f] EXCEPT !.named = TRUE] ELSE finals[f]]
    /\ \/ /\ Final(p) \notin DOMAIN finals \/ p # Server
          /\ Over(p)
       \/ /\ Final(p) \in DOMAIN finals
          /\ proc' = [proc EXCEPT ![p] = IF p = Server THEN [@ EXCEPT !.step = "migrate", !.stamp = 0]
                                        ELSE [@ EXCEPT !.step = "list"]]
    /\ UNCHANGED <<clock, db, installed, temps, runs, faults, served, unhooked>>

-----------------------------------------------------------------------------
(* pruneBackups.                                                           *)

Stamps == {f[2] : f \in {g \in DOMAIN finals : g[1] = "hourly"}}

Period(stamp, length) == stamp \div length

\* The newest periods that have a snapshot, at most so many.
NewestPeriods(stamps, length, limit) ==
    LET periods == {Period(s, length) : s \in stamps}
    IN {d \in periods : Cardinality({e \in periods : e > d}) < limit}

\* Mutant: a snapshot has to be due under every rule of retention.
KeptByAll(stamps) ==
    {s \in stamps : \A k \in Retention :
        /\ Period(s, k[1]) \in NewestPeriods(stamps, k[1], k[2])
        /\ \A t \in stamps : Period(t, k[1]) = Period(s, k[1]) => t <= s}

\* The newest snapshot of each period that is kept.
Kept(stamps) ==
    {s \in stamps : \E k \in Retention :
        /\ Period(s, k[1]) \in NewestPeriods(stamps, k[1], k[2])
        /\ \A t \in stamps : Period(t, k[1]) = Period(s, k[1]) => t <= s}

\* ReadDir; the snapshot this run has just written is not a candidate.
ListSnapshots(p) ==
    /\ proc[p].step = "list"
    /\ proc' = [proc EXCEPT ![p].step = "remove", ![p].doomed = Stamps \ (Kept(Stamps) \cup {proc[p].stamp})]
    /\ UNCHANGED <<clock, db, installed, finals, temps, runs, faults, served, unhooked>>

\* The doomed go one by one, newest first; one that another run has removed is an error.
RemoveSnapshot(p) ==
    /\ proc[p].step = "remove"
    /\ IF proc[p].doomed = {} THEN Over(p) /\ UNCHANGED finals
       ELSE \E s \in proc[p].doomed :
              /\ \A t \in proc[p].doomed : t <= s
              /\ IF s \in Stamps
                 THEN /\ finals' = Drop(finals, {<<"hourly", s>>})
                      /\ proc' = [proc EXCEPT ![p].doomed = @ \ {s}]
                 ELSE Over(p) /\ UNCHANGED finals
    /\ UNCHANGED <<clock, db, installed, temps, runs, faults, served, unhooked>>

-----------------------------------------------------------------------------
(* OpenWith and runServe.                                                  *)

\* migrate: one migration is one transaction; one that another process has applied since fails.
Migrates(p) ==
    /\ proc[p].at < proc[p].knows /\ proc[p].at = db.version
    /\ db' = [db EXCEPT !.version = @ + 1]
    /\ proc' = [proc EXCEPT ![p].at = @ + 1]

Overtaken(p) == proc[p].at < proc[p].knows /\ proc[p].at # db.version

\* recordBackupOutcome: store.Open migrates, without a snapshot; then the result is written.
Record(p) ==
    /\ proc[p].step = "record"
    /\ \/ Migrates(p) /\ unhooked' = TRUE
       \/ /\ Overtaken(p) \/ proc[p].at = proc[p].knows
          /\ proc' = [proc EXCEPT ![p] = Resting]
          /\ UNCHANGED <<db, unhooked>>
    /\ UNCHANGED <<clock, installed, finals, temps, runs, faults, served>>

\* systemd starts the server, which refuses a newer schema. An older one is snapshotted first;
\* RestartSec keeps two snapshots of one name apart.
StartServer ==
    /\ proc[Server].step = "idle"
    /\ db.version <= installed
    /\ IF db.version < installed
       THEN /\ <<"pre-migration", clock>> \notin DOMAIN finals
            /\ BeginBackup(Server)
       ELSE /\ proc' = [proc EXCEPT ![Server] = [Resting EXCEPT !.step = "migrate", !.knows = installed,
                                                                !.at = db.version]]
            /\ UNCHANGED <<temps, runs>>
    /\ UNCHANGED <<clock, db, installed, finals, faults, served, unhooked>>

\* The pending migrations of the server, and then it serves; overtaken, it exits.
Migrate ==
    /\ proc[Server].step = "migrate"
    /\ \/ Migrates(Server) /\ UNCHANGED served
       \/ /\ proc[Server].at = proc[Server].knows
          /\ proc' = [proc EXCEPT ![Server] = [Resting EXCEPT !.step = "serving", !.knows = proc[Server].knows]]
          /\ served' = Put(served, db.version, db.edits)
          /\ UNCHANGED db
       \/ /\ Overtaken(Server)
          /\ Over(Server)
          /\ UNCHANGED <<db, served>>
    /\ UNCHANGED <<clock, installed, finals, temps, runs, faults, unhooked>>

\* The family writes to the calendar.
Edit ==
    /\ proc[Server].step = "serving"
    /\ db.edits < MaxEdits
    /\ db' = [db EXCEPT !.edits = @ + 1]
    /\ served' = Put(served, db.version, db.edits + 1)
    /\ UNCHANGED <<clock, installed, finals, temps, proc, runs, faults, unhooked>>

StopServer ==
    /\ proc[Server].step = "serving"
    /\ proc' = [proc EXCEPT ![Server] = Resting]
    /\ UNCHANGED <<clock, db, installed, finals, temps, runs, faults, served, unhooked>>

\* An operator puts another release in place, or an old one back.
Install(release) ==
    /\ installed # release
    /\ installed' = release
    /\ UNCHANGED <<clock, db, finals, temps, proc, runs, faults, served, unhooked>>

-----------------------------------------------------------------------------
(* What goes wrong.                                                        *)

Fault == faults < MaxFaults /\ faults' = faults + 1

\* The step after an error of the snapshot is to give up.
Fail(p) ==
    /\ Fault
    /\ proc[p].step \in {"vacuum", "verify", "publish", "syncdir", "list", "remove", "migrate"}
    /\ GivesUp(p)
    /\ UNCHANGED <<clock, db, installed, finals, runs, served, unhooked>>

Kill(p) ==
    /\ Fault
    /\ proc[p].step # "idle"
    /\ proc' = [proc EXCEPT ![p] = Resting]
    /\ UNCHANGED <<clock, db, installed, finals, temps, runs, served, unhooked>>

\* What is not on the disk is cut short, and a name that is not may be missing.
AfterLoss(table) == [n \in DOMAIN table |-> [table[n] EXCEPT !.whole = @ /\ table[n].synced]]

PowerLoss ==
    /\ Fault
    /\ proc' = [p \in Procs |-> Resting]
    /\ temps' = AfterLoss(temps)
    /\ \E lost \in SUBSET {f \in DOMAIN finals : ~finals[f].named} :
          finals' = AfterLoss(Drop(finals, lost))
    /\ UNCHANGED <<clock, db, installed, runs, served, unhooked>>

\* A page of the database file goes bad.
Damage ==
    /\ Fault
    /\ db.sound
    /\ db' = [db EXCEPT !.sound = FALSE]
    /\ UNCHANGED <<clock, installed, finals, temps, proc, runs, served, unhooked>>

Advance ==
    /\ clock < MaxTime
    /\ clock' = clock + 1
    /\ UNCHANGED <<db, installed, finals, temps, proc, runs, faults, served, unhooked>>

Next ==
    \/ \E p \in Runs : StartRun(p)
    \/ \E p \in Procs :
          \/ Vacuum(p) \/ Verify(p) \/ Publish(p) \/ SyncDir(p)
          \/ Fail(p) \/ Kill(p)
    \/ \E p \in Runs : ListSnapshots(p) \/ RemoveSnapshot(p) \/ Record(p)
    \/ StartServer \/ Migrate \/ Edit \/ StopServer
    \/ \E release \in Releases : Install(release)
    \/ PowerLoss \/ Damage
    \/ Advance

Spec == Init /\ [][Next]_vars

-----------------------------------------------------------------------------
(* Properties.                                                             *)

TypeOK ==
    /\ clock \in Nat /\ runs \in Nat /\ faults \in Nat
    /\ db \in Database /\ installed \in Releases /\ unhooked \in BOOLEAN
    /\ \A f \in DOMAIN finals : f \in Dirs \X Nat /\ finals[f] \in File
    /\ \A t \in DOMAIN temps : t \in Dirs \X Nat \X Procs /\ temps[t] \in File
    /\ proc \in [Procs -> Process]
    /\ \A v \in DOMAIN served : v \in Nat /\ served[v] \in Nat

\* backup.go: "it never leaves a half-written file where a restore could find it": what has
\* the name of a snapshot is complete, sound and on the disk, whenever a run was killed, the
\* power went or another run was at work in the same directory.
FinalIsWhole ==
    \A f \in DOMAIN finals : finals[f].whole /\ finals[f].sound

\* removeStaleTemps: "a partial belonging to a run that is still going is not stale".
LiveTempStays ==
    \A p \in Procs :
        /\ proc[p].step \in {"vacuum", "verify", "publish"}
        /\ clock - proc[p].stamp < StaleAfter
        => Temp(p) \in DOMAIN temps

\* pruneBackups keeps generations: no removal takes the last snapshot of a period that is to
\* be kept, although the list it goes by may be older than another run's snapshots and removals.
PruneKeepsPeriods ==
    [][\A p \in Runs : RemoveSnapshot(p) =>
          \A k \in Retention : NewestPeriods(Stamps, k[1], k[2]) \subseteq {Period(s, k[1]) : s \in Stamps'}]_vars

\* preMigrationSnapshot: a schema version that a server has served and that its successor has
\* migrated away is there to be restored, as the family left it, after any crash on the way.
\* A backup run that migrates first takes no such copy (unhooked).
RollbackThere ==
    ~unhooked =>
        \A v \in DOMAIN served : v < db.version =>
            \E f \in DOMAIN finals :
                /\ f[1] = "pre-migration"
                /\ finals[f].version = v /\ finals[f].edits = served[v]
                /\ finals[f].whole /\ finals[f].sound
=============================================================================
