---------------------------- MODULE StorageProofs ----------------------------
(***************************************************************************)
(* For any runs, releases, rules of retention and faults: what has the     *)
(* name of a snapshot is whole, a file that is being written is not tidied *)
(* away, the state before a server's migration can be restored, and        *)
(* pruning keeps every generation. The invariant follows a snapshot from   *)
(* its first byte to its name, and says why the snapshots a run has marked *)
(* for removal stay dispensable while others add and remove.               *)
(***************************************************************************)
EXTENDS Storage, FiniteSetTheorems, TLAPS

Writing == {"vacuum", "verify", "publish"}

(* What has a final name came through the verification and the sync.       *)
FinalIsSafe(f) == finals[f].whole /\ finals[f].sound /\ finals[f].synced

(* How far the file of a process has come.                                 *)
TempIsRight(p) ==
    /\ proc[p].step \in Writing /\ clock - proc[p].stamp < StaleAfter => Temp(p) \in DOMAIN temps
    /\ proc[p].step \in {"verify", "publish"} /\ Temp(p) \in DOMAIN temps => temps[Temp(p)].whole
    /\ proc[p].step = "publish" /\ Temp(p) \in DOMAIN temps => temps[Temp(p)].sound /\ temps[Temp(p)].synced

FilesAreRight ==
    /\ \A f \in DOMAIN finals : FinalIsSafe(f)
    /\ \A p \in Procs : TempIsRight(p)

(* The state that was last served under version v, with a name that a      *)
(* power loss does not take.                                               *)
IsCopyOf(f, v) ==
    /\ f[1] = "pre-migration" /\ finals[f].named
    /\ finals[f].version = v /\ finals[f].edits = served[v]
Copied(v) == \E f \in DOMAIN finals : IsCopyOf(f, v)

(* What is served is not newer than the database, which nobody but a       *)
(* server writes to.                                                       *)
ServedIsCurrent ==
    \A v \in DOMAIN served : v <= db.version /\ (v = db.version => served[v] = db.edits)

(* The snapshot a server is taking: of the database as it stays meanwhile, *)
(* under a name that nothing has.                                          *)
IsTaken(file) == file.version = proc[Server].at /\ file.edits = db.edits
HookIsRight ==
    /\ proc[Server].step \in Writing =>
          /\ Final(Server) \notin DOMAIN finals
          /\ Temp(Server) \in DOMAIN temps => IsTaken(temps[Temp(Server)])
    /\ proc[Server].step = "syncdir" /\ Final(Server) \in DOMAIN finals => IsTaken(finals[Final(Server)])
    /\ ~unhooked /\ proc[Server].step \in Writing \cup {"syncdir"} => proc[Server].at = db.version

(* Behind every migration of a server is a copy, and in front of the next. *)
CopiesAreThere ==
    ~unhooked =>
        /\ \A v \in DOMAIN served : v < db.version => Copied(v)
        /\ proc[Server].step = "migrate" /\ proc[Server].at < proc[Server].knows
              /\ db.version \in DOMAIN served => Copied(db.version)

(* A snapshot is dispensable under a rule when a newer one is in its       *)
(* period, or enough newer periods have one.                               *)
Periods(stamps, length) == {Period(s, length) : s \in stamps}
Newer(stamps, length, d) == {e \in Periods(stamps, length) : e > d}
Dispensable(s, k, stamps) ==
    \/ \E t \in stamps : t > s /\ Period(t, k[1]) = Period(s, k[1])
    \/ Cardinality(Newer(stamps, k[1], Period(s, k[1]))) >= k[2]
DoomedIsRight ==
    /\ IsFiniteSet(Stamps)
    /\ \A p \in Procs : \A s \in proc[p].doomed, k \in Retention : Dispensable(s, k, Stamps)

IInv ==
    /\ TypeOK
    /\ FilesAreRight
    /\ ServedIsCurrent
    /\ HookIsRight
    /\ CopiesAreThere
    /\ DoomedIsRight

-----------------------------------------------------------------------------
(* Names, and what the common endings of a step make of a process.         *)
LEMMA Constants ==
    /\ Server \notin Runs /\ Server \in Procs /\ Runs \subseteq Procs
    /\ Releases \subseteq Nat /\ StaleAfter \in Nat \ {0}
    /\ \A k \in Retention : k[1] \in Nat \ {0} /\ k[2] \in Nat \ {0}
BY StorageConstants DEF Procs

LEMMA Names ==
    ASSUME TypeOK, NEW p \in Procs
    PROVE  /\ DirOf(p) \in Dirs
           /\ DirOf(p) = "pre-migration" <=> p = Server
           /\ proc[p] \in Process
           /\ Temp(p) \in Dirs \X Nat \X Procs
           /\ Temp(p) = <<DirOf(p), proc[p].stamp, p>>
           /\ Final(p) \in Dirs \X Nat
           /\ Final(p) = <<DirOf(p), proc[p].stamp>>
BY DEF TypeOK, Process, DirOf, Dirs, Temp, Final

LEMMA RestingType == Resting \in Process /\ Resting.step = "idle" /\ Resting.doomed = {}
BY DEF Resting, Process, Steps

LEMMA GoesFacts ==
    ASSUME TypeOK, NEW p \in Procs, NEW step \in Steps, Goes(p, step)
    PROVE  /\ proc' \in [Procs -> Process]
           /\ \A q \in Procs \ {p} : proc'[q] = proc[q]
           /\ proc'[p].step = step
           /\ proc'[p].knows = proc[p].knows /\ proc'[p].at = proc[p].at
           /\ proc'[p].stamp = proc[p].stamp /\ proc'[p].doomed = proc[p].doomed
BY DEF Goes, TypeOK, Process

LEMMA OverFacts ==
    ASSUME TypeOK, NEW p \in Procs, Over(p)
    PROVE  /\ proc' \in [Procs -> Process]
           /\ \A q \in Procs \ {p} : proc'[q] = proc[q]
           /\ proc'[p].step \in {"idle", "record"}
           /\ p = Server => proc'[p].step = "idle"
           /\ proc'[p].doomed = {}
<1> DEFINE onto == IF p = Server \/ db.version > proc[p].knows THEN Resting
                   ELSE [Resting EXCEPT !.step = "record", !.knows = proc[p].knows, !.at = db.version]
<1>1. proc' = [proc EXCEPT ![p] = onto]
  BY DEF Over
<1>2. onto \in Process /\ onto.step \in {"idle", "record"} /\ onto.doomed = {}
  BY DEF TypeOK, Process, Database, Resting, Steps
<1>3. p = Server => onto.step = "idle"
  BY DEF Resting
<1> HIDE DEF onto
<1> QED BY <1>1, <1>2, <1>3 DEF TypeOK

(* The file that a process begins to write: what it will hold, and its name. *)
Begun == [version |-> db.version, edits |-> db.edits, sound |-> db.sound, whole |-> FALSE,
          synced |-> FALSE, named |-> FALSE]
Own(p) == <<DirOf(p), clock, p>>

LEMMA BeginFacts ==
    ASSUME TypeOK, NEW p \in Procs, BeginBackup(p), installed \in Nat
    PROVE  /\ runs' \in Nat
           /\ Begun \in File /\ Own(p) \in Dirs \X Nat \X Procs
           /\ DOMAIN temps' = (DOMAIN temps \ Stale(DirOf(p))) \cup {Own(p)}
           /\ temps'[Own(p)] = Begun
           /\ \A t \in DOMAIN temps' \ {Own(p)} : t \in DOMAIN temps /\ temps'[t] = temps[t]
           /\ proc' \in [Procs -> Process]
           /\ \A q \in Procs \ {p} : proc'[q] = proc[q]
           /\ proc'[p].step = "vacuum" /\ proc'[p].at = db.version /\ proc'[p].stamp = clock
           /\ proc'[p].doomed = {}
<1> DEFINE onto == [Resting EXCEPT !.step = "vacuum", !.knows = installed, !.at = db.version, !.stamp = clock]
<1>1. Begun \in File /\ Own(p) \in Dirs \X Nat \X Procs
  BY Names DEF TypeOK, Database, File, Begun, Own
<1>2. /\ temps' = Put(Drop(temps, Stale(DirOf(p))), Own(p), Begun)
      /\ proc' = [proc EXCEPT ![p] = onto]
      /\ runs' = runs + 1
  BY DEF BeginBackup, Begun, Own
<1>3. /\ onto \in Process /\ onto.step = "vacuum" /\ onto.at = db.version /\ onto.stamp = clock
      /\ onto.doomed = {}
  BY DEF Resting, Process, Steps, TypeOK, Database
<1> HIDE DEF onto
<1>4. /\ DOMAIN temps' = (DOMAIN temps \ Stale(DirOf(p))) \cup {Own(p)}
      /\ temps'[Own(p)] = Begun
      /\ \A t \in DOMAIN temps' \ {Own(p)} : t \in DOMAIN temps /\ temps'[t] = temps[t]
  BY <1>2 DEF Put, Drop, Only
<1>5. /\ proc' \in [Procs -> Process]
      /\ \A q \in Procs \ {p} : proc'[q] = proc[q]
      /\ proc'[p] = onto
  BY <1>2, <1>3 DEF TypeOK
<1>6. runs' \in Nat
  BY <1>2 DEF TypeOK
<1> QED BY <1>1, <1>3, <1>4, <1>5, <1>6

LEMMA InitIsRight == Init => IInv
<1> SUFFICES ASSUME Init PROVE IInv
  OBVIOUS
<1>1. installed \in Nat
  BY Constants DEF Init
<1> DEFINE first == [version |-> installed, edits |-> 0, sound |-> TRUE, whole |-> TRUE, synced |-> TRUE,
                     named |-> TRUE]
<1>2. finals = [f \in {<<"hourly", 0>>} |-> first]
  BY DEF Init
<1>3. first \in File /\ first.whole /\ first.sound /\ first.synced
  BY <1>1 DEF File
<1> HIDE DEF first
<1>4. \A p \in Procs : proc[p] = Resting
  BY DEF Init
<1>5. TypeOK
  <2>1. db \in Database /\ clock \in Nat /\ runs \in Nat /\ faults \in Nat
    BY <1>1 DEF Init, Database
  <2>2. DOMAIN finals = {<<"hourly", 0>>} /\ finals[<<"hourly", 0>>] \in File
    BY <1>2, <1>3
  <2>3. proc \in [Procs -> Process]
    BY RestingType DEF Init
  <2>4. DOMAIN temps = {} /\ DOMAIN served = {installed} /\ served[installed] = 0
    BY DEF Init
  <2>5. installed \in Releases /\ unhooked \in BOOLEAN
    BY DEF Init
  <2> QED BY <1>1, <2>1, <2>2, <2>3, <2>4, <2>5 DEF TypeOK, Dirs
<1>6. FilesAreRight
  BY <1>2, <1>3, <1>4, RestingType DEF FilesAreRight, FinalIsSafe, TempIsRight, Writing
<1>7. ServedIsCurrent
  BY <1>1 DEF Init, ServedIsCurrent
<1>8. HookIsRight
  BY <1>4, Constants, RestingType DEF HookIsRight, Writing
<1>9. CopiesAreThere
  BY <1>1, <1>4, Constants, RestingType DEF Init, CopiesAreThere
<1>10. DoomedIsRight
  <2>1. Stamps = {0}
    BY <1>2 DEF Stamps
  <2> QED BY <1>4, <2>1, RestingType, FS_Singleton DEF DoomedIsRight
<1> QED BY <1>5, <1>6, <1>7, <1>8, <1>9, <1>10 DEF IInv

-----------------------------------------------------------------------------
(* The files. A step of one process touches no file of another that is not *)
(* stale, and a final name is new or keeps what it has.                    *)
LEMMA OthersFiles ==
    ASSUME IInv, TypeOK', NEW p \in Procs, clock' = clock,
           \A q \in Procs \ {p} : proc'[q] = proc[q],
           \A t \in DOMAIN temps : t[3] # p /\ clock - t[2] < StaleAfter => t \in DOMAIN temps',
           \A t \in DOMAIN temps' : t[3] # p => t \in DOMAIN temps /\ temps'[t] = temps[t],
           TempIsRight(p)',
           \A f \in DOMAIN finals' :
              \/ /\ f \in DOMAIN finals /\ finals'[f].whole = finals[f].whole
                 /\ finals'[f].sound = finals[f].sound /\ finals'[f].synced = finals[f].synced
              \/ FinalIsSafe(f)'
    PROVE  FilesAreRight'
<1>1. ASSUME NEW q \in Procs \ {p}
      PROVE  TempIsRight(q)'
  <2>1. proc'[q] = proc[q] /\ TempIsRight(q) /\ Temp(q)' = Temp(q)
    BY DEF IInv, FilesAreRight, Temp
  <2>2. Temp(q)[3] = q /\ Temp(q)[2] = proc[q].stamp
    BY DEF Temp
  <2> HIDE DEF Temp
  <2> QED BY <2>1, <2>2 DEF TempIsRight
<1>2. \A f \in DOMAIN finals' : FinalIsSafe(f)'
  BY DEF IInv, FilesAreRight, FinalIsSafe
<1> QED BY <1>1, <1>2 DEF FilesAreRight

(* A process that begins to write.                                         *)
LEMMA BeginFiles ==
    ASSUME IInv, NEW p \in Procs, BeginBackup(p),
           UNCHANGED <<clock, db, installed, finals, faults, served, unhooked>>
    PROVE  TypeOK' /\ FilesAreRight'
<1>1. installed \in Nat /\ StaleAfter \in Nat \ {0} /\ TypeOK
  BY Constants DEF IInv, TypeOK
<1>2. /\ runs' \in Nat
      /\ Begun \in File /\ Own(p) \in Dirs \X Nat \X Procs
      /\ DOMAIN temps' = (DOMAIN temps \ Stale(DirOf(p))) \cup {Own(p)}
      /\ temps'[Own(p)] = Begun
      /\ \A t \in DOMAIN temps' \ {Own(p)} : t \in DOMAIN temps /\ temps'[t] = temps[t]
      /\ proc' \in [Procs -> Process]
      /\ \A q \in Procs \ {p} : proc'[q] = proc[q]
      /\ proc'[p].step = "vacuum" /\ proc'[p].stamp = clock
  BY <1>1, BeginFacts
<1>3. TypeOK'
  BY <1>1, <1>2 DEF TypeOK
<1>4. Temp(p)' = Own(p) /\ Own(p)[3] = p
  BY <1>2 DEF Temp, Own
<1>5. TempIsRight(p)'
  BY <1>2, <1>4 DEF TempIsRight, Writing
<1>6. \A t \in DOMAIN temps : clock - t[2] < StaleAfter => t \in DOMAIN temps'
  <2> SUFFICES ASSUME NEW t \in DOMAIN temps, clock - t[2] < StaleAfter PROVE t \notin Stale(DirOf(p))
    BY <1>2
  <2>1. t[2] \in Nat /\ clock \in Nat
    BY <1>1 DEF TypeOK
  <2> QED BY <1>1, <2>1 DEF Stale
<1> QED BY <1>1, <1>2, <1>3, <1>4, <1>5, <1>6, OthersFiles DEF IInv, TypeOK

LEMMA GivesUpFacts ==
    ASSUME TypeOK, NEW p \in Procs, GivesUp(p)
    PROVE  /\ \A t \in DOMAIN temps : t[3] # p => t \in DOMAIN temps'
           /\ \A t \in DOMAIN temps' : t \in DOMAIN temps /\ temps'[t] = temps[t]
           /\ proc' \in [Procs -> Process]
           /\ \A q \in Procs \ {p} : proc'[q] = proc[q]
           /\ proc'[p].step \in {"idle", "record"}
           /\ p = Server => proc'[p].step = "idle"
           /\ proc'[p].doomed = {}
<1>1. temps' = Drop(temps, {Temp(p)}) /\ Over(p)
  BY DEF GivesUp
<1>2. Temp(p)[3] = p
  BY DEF Temp
<1>3. /\ DOMAIN temps' = DOMAIN temps \ {Temp(p)}
      /\ \A t \in DOMAIN temps' : temps'[t] = temps[t]
  BY <1>1 DEF Drop, Only
<1> QED BY <1>1, <1>2, <1>3, OverFacts

(* A process that is done with its file, or never had one.                 *)
LEMMA EndFiles ==
    ASSUME IInv, NEW p \in Procs, clock' = clock,
           proc' \in [Procs -> Process],
           \A q \in Procs \ {p} : proc'[q] = proc[q],
           proc'[p].step \notin Writing,
           \A t \in DOMAIN temps : t[3] # p => t \in DOMAIN temps',
           \A t \in DOMAIN temps' : t \in DOMAIN temps /\ temps'[t] = temps[t],
           \A f \in DOMAIN finals' :
              /\ f \in DOMAIN finals /\ finals'[f] \in File
              /\ finals'[f].whole = finals[f].whole
              /\ finals'[f].sound = finals[f].sound /\ finals'[f].synced = finals[f].synced,
           db' \in Database, installed' = installed, runs' = runs, faults' \in Nat, unhooked' \in BOOLEAN,
           \A v \in DOMAIN served' : v \in Nat /\ served'[v] \in Nat
    PROVE  TypeOK' /\ FilesAreRight'
<1>1. TypeOK'
  BY DEF IInv, TypeOK
<1>2. TempIsRight(p)'
  BY DEF TempIsRight, Writing
<1> QED BY <1>1, <1>2, OthersFiles

LEMMA VacuumFiles ==
    ASSUME IInv, NEW p \in Procs, Vacuum(p)
    PROVE  TypeOK' /\ FilesAreRight'
<1>1. TypeOK /\ TempIsRight(p) /\ proc[p].step = "vacuum" /\ "verify" \in Steps
  BY DEF IInv, FilesAreRight, Vacuum, Steps
<1>2. /\ proc' \in [Procs -> Process]
      /\ \A q \in Procs \ {p} : proc'[q] = proc[q]
      /\ proc'[p].step = "verify" /\ proc'[p].stamp = proc[p].stamp
  BY <1>1, GoesFacts DEF Vacuum
<1>3. UNCHANGED <<clock, db, installed, finals, runs, faults, served, unhooked>>
  BY DEF Vacuum
<1>4. Temp(p)' = Temp(p) /\ Temp(p)[3] = p
  BY <1>2 DEF Temp
<1>5. temps' = IF Temp(p) \in DOMAIN temps THEN [temps EXCEPT ![Temp(p)].whole = TRUE] ELSE temps
  BY DEF Vacuum
<1>6. /\ DOMAIN temps' = DOMAIN temps
      /\ \A t \in DOMAIN temps : temps'[t] \in File
      /\ \A t \in DOMAIN temps : t # Temp(p) => temps'[t] = temps[t]
      /\ Temp(p) \in DOMAIN temps => temps'[Temp(p)].whole
  BY <1>1, <1>5 DEF TypeOK, File
<1>7. TypeOK'
  BY <1>1, <1>2, <1>3, <1>6 DEF TypeOK
<1>8. TempIsRight(p)'
  BY <1>1, <1>2, <1>3, <1>4, <1>6 DEF TempIsRight, Writing
<1>9. \A t \in DOMAIN temps : t[3] # p => temps'[t] = temps[t]
  BY <1>4, <1>6
<1> QED BY <1>2, <1>3, <1>6, <1>7, <1>8, <1>9, OthersFiles

LEMMA VerifyFiles ==
    ASSUME IInv, NEW p \in Procs, Verify(p)
    PROVE  TypeOK' /\ FilesAreRight'
<1>1. TypeOK /\ TempIsRight(p) /\ proc[p].step = "verify" /\ "publish" \in Steps
  BY DEF IInv, FilesAreRight, Verify, Steps
<1>2. UNCHANGED <<clock, db, installed, finals, runs, faults, served, unhooked>>
  BY DEF Verify
<1>3. CASE Verifies(p)
  <2>1. temps' = [temps EXCEPT ![Temp(p)] = Synced(temps[Temp(p)])] /\ Goes(p, "publish")
    BY <1>3 DEF Verify
  <2>2. /\ proc' \in [Procs -> Process]
        /\ \A q \in Procs \ {p} : proc'[q] = proc[q]
        /\ proc'[p].step = "publish" /\ proc'[p].stamp = proc[p].stamp
    BY <1>1, <2>1, GoesFacts
  <2>3. Temp(p)' = Temp(p) /\ Temp(p)[3] = p
    BY <2>2 DEF Temp
  <2>4. Temp(p) \in DOMAIN temps /\ temps[Temp(p)] \in File /\ temps[Temp(p)].sound /\ temps[Temp(p)].whole
    BY <1>1, <1>3 DEF Verifies, TypeOK, TempIsRight
  <2>5. /\ Synced(temps[Temp(p)]) \in File /\ Synced(temps[Temp(p)]).sound
        /\ Synced(temps[Temp(p)]).whole /\ Synced(temps[Temp(p)]).synced
    BY <2>4 DEF Synced, File
  <2>6. /\ DOMAIN temps' = DOMAIN temps
        /\ \A t \in DOMAIN temps : t # Temp(p) => temps'[t] = temps[t]
        /\ temps'[Temp(p)] = Synced(temps[Temp(p)])
    BY <2>1, <2>4
  <2>7. TypeOK'
    BY <1>1, <1>2, <2>2, <2>5, <2>6 DEF TypeOK
  <2>8. TempIsRight(p)'
    BY <1>1, <1>2, <2>2, <2>3, <2>5, <2>6 DEF TempIsRight, Writing
  <2>9. \A t \in DOMAIN temps : t[3] # p => temps'[t] = temps[t]
    BY <2>3, <2>6
  <2> QED BY <1>2, <2>2, <2>6, <2>7, <2>8, <2>9, OthersFiles
<1>4. CASE ~Verifies(p)
  <2>1. GivesUp(p)
    BY <1>4 DEF Verify
  <2> QED BY <1>1, <1>2, <2>1, GivesUpFacts, EndFiles DEF TypeOK, Writing
<1> QED BY <1>3, <1>4

LEMMA PublishFiles ==
    ASSUME IInv, NEW p \in Procs, Publish(p)
    PROVE  TypeOK' /\ FilesAreRight'
<1>1. TypeOK /\ TempIsRight(p) /\ proc[p].step = "publish" /\ "syncdir" \in Steps
  BY DEF IInv, FilesAreRight, Publish, Steps
<1>2. UNCHANGED <<clock, db, installed, runs, faults, served, unhooked>>
  BY DEF Publish
<1>3. CASE Temp(p) \in DOMAIN temps
  <2>1. /\ finals' = Put(finals, Final(p), temps[Temp(p)])
        /\ temps' = Drop(temps, {Temp(p)})
        /\ Goes(p, "syncdir")
    BY <1>3 DEF Publish
  <2>2. /\ proc' \in [Procs -> Process]
        /\ \A q \in Procs \ {p} : proc'[q] = proc[q]
        /\ proc'[p].step = "syncdir"
    BY <1>1, <2>1, GoesFacts
  <2>3. /\ DOMAIN finals' = DOMAIN finals \cup {Final(p)}
        /\ finals'[Final(p)] = temps[Temp(p)]
        /\ \A f \in DOMAIN finals' : f # Final(p) => f \in DOMAIN finals /\ finals'[f] = finals[f]
    BY <2>1 DEF Put
  <2>4. /\ temps[Temp(p)] \in File
        /\ temps[Temp(p)].whole /\ temps[Temp(p)].sound /\ temps[Temp(p)].synced
    BY <1>1, <1>3 DEF TypeOK, TempIsRight
  <2>5. /\ DOMAIN temps' = DOMAIN temps \ {Temp(p)}
        /\ \A t \in DOMAIN temps' : temps'[t] = temps[t]
        /\ Temp(p)[3] = p
    BY <2>1 DEF Drop, Only, Temp
  <2>6. Final(p) \in Dirs \X Nat
    BY <1>1, Names
  <2>7. TypeOK'
    BY <1>1, <1>2, <2>2, <2>3, <2>4, <2>5, <2>6 DEF TypeOK
  <2>8. TempIsRight(p)'
    BY <2>2 DEF TempIsRight, Writing
  <2>9. \A f \in DOMAIN finals' :
            \/ /\ f \in DOMAIN finals /\ finals'[f].whole = finals[f].whole
               /\ finals'[f].sound = finals[f].sound /\ finals'[f].synced = finals[f].synced
            \/ FinalIsSafe(f)'
    BY <2>3, <2>4 DEF FinalIsSafe
  <2> QED BY <1>2, <2>2, <2>5, <2>7, <2>8, <2>9, OthersFiles
<1>4. CASE Temp(p) \notin DOMAIN temps
  <2>1. GivesUp(p) /\ UNCHANGED finals
    BY <1>4 DEF Publish
  <2> QED BY <1>1, <1>2, <2>1, GivesUpFacts, EndFiles DEF TypeOK, Writing
<1> QED BY <1>3, <1>4

LEMMA SyncDirFiles ==
    ASSUME IInv, NEW p \in Procs, SyncDir(p)
    PROVE  TypeOK' /\ FilesAreRight'
<1>1. TypeOK
  BY DEF IInv
<1>2. UNCHANGED <<clock, db, installed, temps, runs, faults, served, unhooked>>
  BY DEF SyncDir
<1>3. \A f \in DOMAIN finals' :
         /\ f \in DOMAIN finals /\ finals'[f] \in File
         /\ finals'[f].whole = finals[f].whole
         /\ finals'[f].sound = finals[f].sound /\ finals'[f].synced = finals[f].synced
  <2> SUFFICES ASSUME NEW f \in DOMAIN finals'
               PROVE  /\ f \in DOMAIN finals /\ finals'[f] \in File
                      /\ finals'[f].whole = finals[f].whole
                      /\ finals'[f].sound = finals[f].sound /\ finals'[f].synced = finals[f].synced
    OBVIOUS
  <2>1. f \in DOMAIN finals /\ (finals'[f] = finals[f] \/ finals'[f] = [finals[f] EXCEPT !.named = TRUE])
    BY DEF SyncDir
  <2>2. finals[f] \in File
    BY <1>1, <2>1 DEF TypeOK
  <2> QED BY <2>1, <2>2 DEF File
<1>4. /\ proc' \in [Procs -> Process]
      /\ \A q \in Procs \ {p} : proc'[q] = proc[q]
      /\ proc'[p].step \notin Writing
  <2>1. CASE Over(p)
    BY <1>1, <2>1, OverFacts DEF Writing
  <2>2. CASE proc' = [proc EXCEPT ![p] = IF p = Server THEN [@ EXCEPT !.step = "migrate", !.stamp = 0]
                                         ELSE [@ EXCEPT !.step = "list"]]
    BY <1>1, <2>2 DEF TypeOK, Process, Steps, Writing
  <2> QED BY <2>1, <2>2 DEF SyncDir
<1> QED BY <1>1, <1>2, <1>3, <1>4, EndFiles DEF TypeOK

LEMMA ListFiles ==
    ASSUME IInv, NEW p \in Procs, ListSnapshots(p)
    PROVE  TypeOK' /\ FilesAreRight'
<1>1. TypeOK /\ proc[p] \in Process
  BY DEF IInv, TypeOK
<1>2. Stamps \subseteq Nat
  BY <1>1 DEF Stamps, TypeOK, Dirs
<1> DEFINE doomed == Stamps \ (Kept(Stamps) \cup {proc[p].stamp})
           onto == [proc[p] EXCEPT !.step = "remove", !.doomed = doomed]
<1>3. doomed \subseteq Nat
  BY <1>2
<1>4. proc' = [proc EXCEPT ![p] = onto]
  BY DEF ListSnapshots
<1> HIDE DEF doomed
<1>5. onto \in Process /\ onto.step = "remove"
  BY <1>1, <1>3 DEF Process, Steps
<1> HIDE DEF onto
<1>6. /\ proc' \in [Procs -> Process]
      /\ \A q \in Procs \ {p} : proc'[q] = proc[q]
      /\ proc'[p].step \notin Writing
  BY <1>1, <1>4, <1>5 DEF TypeOK, Writing
<1>7. UNCHANGED <<clock, db, installed, finals, temps, runs, faults, served, unhooked>>
  BY DEF ListSnapshots
<1> QED BY <1>1, <1>6, <1>7, EndFiles DEF TypeOK

(* A removal, whatever came of it.                                         *)
LEMMA RemoveFacts ==
    ASSUME TypeOK, NEW p \in Procs, RemoveSnapshot(p)
    PROVE  /\ proc' \in [Procs -> Process]
           /\ \A q \in Procs \ {p} : proc'[q] = proc[q]
           /\ proc'[p].step \in {"idle", "record", "remove"}
           /\ p = Server => proc'[p].step \in {"idle", "remove"}
           /\ proc'[p].doomed \subseteq proc[p].doomed
           /\ \/ UNCHANGED finals
              \/ \E s \in proc[p].doomed : s \in Stamps /\ finals' = Drop(finals, {<<"hourly", s>>})
           /\ UNCHANGED <<clock, db, installed, temps, runs, faults, served, unhooked>>
<1>1. UNCHANGED <<clock, db, installed, temps, runs, faults, served, unhooked>> /\ proc[p].step = "remove"
  BY DEF RemoveSnapshot
<1>2. CASE Over(p) /\ UNCHANGED finals
  BY <1>1, <1>2, OverFacts
<1>3. ASSUME NEW s \in proc[p].doomed, s \in Stamps,
             finals' = Drop(finals, {<<"hourly", s>>}),
             proc' = [proc EXCEPT ![p].doomed = @ \ {s}]
      PROVE  /\ proc' \in [Procs -> Process]
             /\ \A q \in Procs \ {p} : proc'[q] = proc[q]
             /\ proc'[p].step = "remove"
             /\ proc'[p].doomed \subseteq proc[p].doomed
  <2>1. proc' = [proc EXCEPT ![p] = [proc[p] EXCEPT !.doomed = proc[p].doomed \ {s}]]
    BY <1>3
  <2>2. proc[p] \in Process
    BY DEF TypeOK
  <2>3. [proc[p] EXCEPT !.doomed = proc[p].doomed \ {s}] \in Process
    BY <2>2 DEF Process
  <2> QED BY <1>1, <2>1, <2>2, <2>3 DEF TypeOK, Process
<1> QED BY <1>1, <1>2, <1>3 DEF RemoveSnapshot

LEMMA RemoveFiles ==
    ASSUME IInv, NEW p \in Procs, RemoveSnapshot(p)
    PROVE  TypeOK' /\ FilesAreRight'
<1>1. TypeOK
  BY DEF IInv
<1>2. \A f \in DOMAIN finals' : f \in DOMAIN finals /\ finals'[f] = finals[f]
  BY <1>1, RemoveFacts DEF Drop, Only
<1>3. /\ proc' \in [Procs -> Process]
      /\ \A q \in Procs \ {p} : proc'[q] = proc[q]
      /\ proc'[p].step \notin Writing
      /\ UNCHANGED <<clock, db, installed, temps, runs, faults, served, unhooked>>
  BY <1>1, RemoveFacts DEF Writing
<1> QED BY <1>1, <1>2, <1>3, EndFiles DEF TypeOK

LEMMA MigratesFacts ==
    ASSUME TypeOK, NEW p \in Procs, Migrates(p)
    PROVE  /\ db' \in Database /\ db'.version = db.version + 1 /\ db'.edits = db.edits
           /\ proc' \in [Procs -> Process]
           /\ \A q \in Procs \ {p} : proc'[q] = proc[q]
           /\ proc'[p].step = proc[p].step /\ proc'[p].doomed = proc[p].doomed
           /\ proc'[p].at = db'.version /\ proc[p].at = db.version
           /\ proc'[p].knows = proc[p].knows /\ proc[p].at < proc[p].knows
<1>1. proc[p] \in Process /\ db \in Database
  BY DEF TypeOK
<1>2. /\ db' = [db EXCEPT !.version = db.version + 1]
      /\ proc' = [proc EXCEPT ![p] = [proc[p] EXCEPT !.at = proc[p].at + 1]]
      /\ proc[p].at = db.version /\ proc[p].at < proc[p].knows
  BY DEF Migrates
<1>3. [proc[p] EXCEPT !.at = proc[p].at + 1] \in Process
  BY <1>1 DEF Process
<1> QED BY <1>1, <1>2, <1>3 DEF TypeOK, Database, Process

(* The steps of a process that have nothing to do with files.              *)
LEMMA RecordFiles ==
    ASSUME IInv, NEW p \in Procs, Record(p)
    PROVE  TypeOK' /\ FilesAreRight'
<1>1. TypeOK /\ proc[p].step = "record"
  BY DEF IInv, Record
<1>2. UNCHANGED <<clock, installed, finals, temps, runs, faults, served>>
  BY DEF Record
<1>3. /\ db' \in Database /\ unhooked' \in BOOLEAN
      /\ proc' \in [Procs -> Process]
      /\ \A q \in Procs \ {p} : proc'[q] = proc[q]
      /\ proc'[p].step \notin Writing
  <2>1. CASE Migrates(p) /\ unhooked' = TRUE
    BY <1>1, <2>1, MigratesFacts DEF Writing
  <2>2. CASE proc' = [proc EXCEPT ![p] = Resting] /\ UNCHANGED <<db, unhooked>>
    BY <1>1, <2>2, RestingType DEF TypeOK, Writing
  <2> QED BY <2>1, <2>2 DEF Record
<1> QED BY <1>1, <1>2, <1>3, EndFiles DEF TypeOK

LEMMA ServerFiles ==
    ASSUME IInv, Migrate \/ Edit \/ StopServer
    PROVE  TypeOK' /\ FilesAreRight'
<1>1. TypeOK /\ Server \in Procs
  BY Constants DEF IInv
<1>2. UNCHANGED <<clock, installed, finals, temps, runs, faults, unhooked>>
  BY DEF Migrate, Edit, StopServer
<1>3. proc[Server] \in Process /\ db \in Database
  BY <1>1 DEF TypeOK
<1>4. proc[Server].step \in {"migrate", "serving"}
  BY DEF Migrate, Edit, StopServer
<1>5. /\ db' \in Database
      /\ proc' \in [Procs -> Process]
      /\ \A q \in Procs \ {Server} : proc'[q] = proc[q]
      /\ proc'[Server].step \notin Writing
      /\ \A v \in DOMAIN served' : v \in Nat /\ served'[v] \in Nat
  <2>1. CASE Migrates(Server) /\ UNCHANGED served
    BY <1>1, <1>4, <2>1, MigratesFacts DEF TypeOK, Writing
  <2>2. CASE /\ proc' = [proc EXCEPT ![Server] = [Resting EXCEPT !.step = "serving", !.knows = proc[Server].knows]]
             /\ served' = Put(served, db.version, db.edits)
             /\ UNCHANGED db
    <3>1. [Resting EXCEPT !.step = "serving", !.knows = proc[Server].knows] \in Process
      BY <1>3 DEF Resting, Process, Steps
    <3>2. [Resting EXCEPT !.step = "serving", !.knows = proc[Server].knows].step = "serving"
      BY DEF Resting
    <3>3. \A v \in DOMAIN served' : v \in Nat /\ served'[v] \in Nat
      BY <1>1, <1>3, <2>2 DEF Put, TypeOK, Database
    <3> QED BY <1>1, <2>2, <3>1, <3>2, <3>3 DEF TypeOK, Writing
  <2>3. CASE Over(Server) /\ UNCHANGED <<db, served>>
    BY <1>1, <2>3, OverFacts DEF TypeOK, Writing
  <2>4. CASE Edit
    <3>1. /\ db' = [db EXCEPT !.edits = db.edits + 1] /\ UNCHANGED proc
          /\ served' = Put(served, db.version, db.edits + 1)
      BY <2>4 DEF Edit
    <3>2. db' \in Database
      BY <1>3, <3>1 DEF Database
    <3>3. \A v \in DOMAIN served' : v \in Nat /\ served'[v] \in Nat
      BY <1>1, <1>3, <3>1 DEF Put, TypeOK, Database
    <3> QED BY <1>1, <1>4, <3>1, <3>2, <3>3 DEF TypeOK, Writing
  <2>5. CASE StopServer
    BY <1>1, <2>5, RestingType DEF StopServer, TypeOK, Writing
  <2> QED BY <2>1, <2>2, <2>3, <2>4, <2>5 DEF Migrate
<1> QED BY <1>1, <1>2, <1>5, EndFiles DEF TypeOK

LEMMA StartServerFiles ==
    ASSUME IInv, StartServer
    PROVE  TypeOK' /\ FilesAreRight'
<1>1. TypeOK /\ Server \in Procs /\ installed \in Nat /\ db \in Database
  BY Constants DEF IInv, TypeOK
<1>2. UNCHANGED <<clock, db, installed, finals, faults, served, unhooked>>
  BY DEF StartServer
<1>3. CASE BeginBackup(Server)
  BY <1>1, <1>2, <1>3, BeginFiles
<1>4. CASE /\ proc' = [proc EXCEPT ![Server] = [Resting EXCEPT !.step = "migrate", !.knows = installed,
                                                               !.at = db.version]]
           /\ UNCHANGED <<temps, runs>>
  <2> DEFINE onto == [Resting EXCEPT !.step = "migrate", !.knows = installed, !.at = db.version]
  <2>1. onto \in Process /\ onto.step = "migrate"
    BY <1>1 DEF Resting, Process, Steps, Database
  <2>2. proc' = [proc EXCEPT ![Server] = onto]
    BY <1>4
  <2> HIDE DEF onto
  <2>3. /\ proc' \in [Procs -> Process]
        /\ \A q \in Procs \ {Server} : proc'[q] = proc[q]
        /\ proc'[Server].step \notin Writing
    BY <1>1, <2>1, <2>2 DEF TypeOK, Writing
  <2> QED BY <1>1, <1>2, <1>4, <2>3, EndFiles DEF TypeOK
<1> QED BY <1>3, <1>4 DEF StartServer

(* An error and a kill end a process where it stands; the partial file of  *)
(* a killed one stays.                                                     *)
LEMMA FailFiles ==
    ASSUME IInv, NEW p \in Procs, Fail(p) \/ Kill(p)
    PROVE  TypeOK' /\ FilesAreRight'
<1>1. TypeOK
  BY DEF IInv
<1>2. UNCHANGED <<clock, db, installed, finals, runs, served, unhooked>> /\ faults' \in Nat
  BY <1>1 DEF Fail, Kill, Fault, TypeOK
<1>3. CASE GivesUp(p)
  BY <1>1, <1>2, <1>3, GivesUpFacts, EndFiles DEF TypeOK, Writing
<1>4. CASE Kill(p)
  <2>1. proc' = [proc EXCEPT ![p] = Resting] /\ UNCHANGED temps
    BY <1>4 DEF Kill
  <2>2. /\ proc' \in [Procs -> Process]
        /\ \A q \in Procs \ {p} : proc'[q] = proc[q]
        /\ proc'[p].step \notin Writing
    BY <1>1, <2>1, RestingType DEF TypeOK, Writing
  <2> QED BY <1>1, <1>2, <2>1, <2>2, EndFiles DEF TypeOK
<1> QED BY <1>3, <1>4 DEF Fail

LEMMA LossFacts ==
    ASSUME NEW table, \A n \in DOMAIN table : table[n] \in File
    PROVE  /\ DOMAIN AfterLoss(table) = DOMAIN table
           /\ \A n \in DOMAIN table :
                 /\ AfterLoss(table)[n] \in File
                 /\ AfterLoss(table)[n].whole = (table[n].whole /\ table[n].synced)
                 /\ AfterLoss(table)[n].version = table[n].version
                 /\ AfterLoss(table)[n].edits = table[n].edits
                 /\ AfterLoss(table)[n].sound = table[n].sound
                 /\ AfterLoss(table)[n].synced = table[n].synced
                 /\ AfterLoss(table)[n].named = table[n].named
<1>1. DOMAIN AfterLoss(table) = DOMAIN table
  BY DEF AfterLoss
<1>2. ASSUME NEW n \in DOMAIN table
      PROVE  AfterLoss(table)[n] = [table[n] EXCEPT !.whole = table[n].whole /\ table[n].synced]
  BY DEF AfterLoss
<1> QED BY <1>1, <1>2 DEF File

LEMMA PowerLossFacts ==
    ASSUME TypeOK, PowerLoss
    PROVE  /\ \A p \in Procs : proc'[p] = Resting
           /\ DOMAIN temps' = DOMAIN temps
           /\ DOMAIN finals' \subseteq DOMAIN finals
           /\ \A f \in DOMAIN finals : finals[f].named => f \in DOMAIN finals'
           /\ \A f \in DOMAIN finals' :
                 /\ finals'[f] \in File
                 /\ finals'[f].whole = (finals[f].whole /\ finals[f].synced)
                 /\ finals'[f].version = finals[f].version /\ finals'[f].edits = finals[f].edits
                 /\ finals'[f].sound = finals[f].sound /\ finals'[f].synced = finals[f].synced
                 /\ finals'[f].named = finals[f].named
           /\ TypeOK'
           /\ UNCHANGED <<clock, db, installed, runs, served, unhooked>>
<1>1. /\ proc' = [p \in Procs |-> Resting]
      /\ temps' = AfterLoss(temps)
      /\ UNCHANGED <<clock, db, installed, runs, served, unhooked>>
      /\ faults' \in Nat
  BY DEF PowerLoss, Fault, TypeOK
<1>2. PICK lost \in SUBSET {f \in DOMAIN finals : ~finals[f].named} : finals' = AfterLoss(Drop(finals, lost))
  BY DEF PowerLoss
<1> DEFINE left == Drop(finals, lost)
<1>3. DOMAIN left = DOMAIN finals \ lost /\ \A f \in DOMAIN left : left[f] = finals[f]
  BY DEF Drop, Only
<1>4. finals' = AfterLoss(left)
  BY <1>2
<1> HIDE DEF left
<1>5. \A f \in DOMAIN left : left[f] \in File
  BY <1>3 DEF TypeOK
<1>6. /\ DOMAIN finals' = DOMAIN left
      /\ \A f \in DOMAIN left :
            /\ finals'[f] \in File
            /\ finals'[f].whole = (left[f].whole /\ left[f].synced)
            /\ finals'[f].version = left[f].version /\ finals'[f].edits = left[f].edits
            /\ finals'[f].sound = left[f].sound /\ finals'[f].synced = left[f].synced
            /\ finals'[f].named = left[f].named
  BY <1>4, <1>5, LossFacts
<1>7. DOMAIN temps' = DOMAIN temps /\ \A t \in DOMAIN temps : temps'[t] \in File
  BY <1>1, LossFacts DEF TypeOK
<1>8. TypeOK'
  BY <1>1, <1>3, <1>6, <1>7, RestingType DEF TypeOK
<1> QED BY <1>1, <1>2, <1>3, <1>6, <1>7, <1>8

LEMMA PowerLossFiles ==
    ASSUME IInv, PowerLoss
    PROVE  TypeOK' /\ FilesAreRight'
<1>1. TypeOK /\ (\A f \in DOMAIN finals : FinalIsSafe(f))
  BY DEF IInv, FilesAreRight
<1>2. \A p \in Procs : TempIsRight(p)'
  BY <1>1, PowerLossFacts, RestingType DEF TempIsRight, Writing
<1>3. \A f \in DOMAIN finals' : FinalIsSafe(f)'
  BY <1>1, PowerLossFacts DEF FinalIsSafe
<1> QED BY <1>1, <1>2, <1>3, PowerLossFacts DEF FilesAreRight

(* What goes on around the processes.                                      *)
LEMMA AroundFiles ==
    ASSUME IInv, (\E release \in Releases : Install(release)) \/ Damage \/ Advance
    PROVE  TypeOK' /\ FilesAreRight'
<1>1. TypeOK /\ FilesAreRight
  BY DEF IInv
<1>2. UNCHANGED <<finals, temps, proc>> /\ (clock' = clock \/ clock' = clock + 1)
  BY DEF Install, Damage, Advance
<1>3. TypeOK'
  <2>1. CASE \E release \in Releases : Install(release)
    BY <1>1, <2>1 DEF Install, TypeOK
  <2>2. CASE Damage
    <3>1. db' \in Database /\ faults' \in Nat
      <4>1. db' = [db EXCEPT !.sound = FALSE] /\ db \in Database /\ faults' = faults + 1 /\ faults \in Nat
        BY <1>1, <2>2 DEF Damage, Fault, TypeOK
      <4>2. [db EXCEPT !.sound = FALSE] \in Database
        BY <4>1 DEF Database
      <4> QED BY <4>1, <4>2
    <3> QED BY <1>1, <2>2, <3>1 DEF Damage, TypeOK
  <2>3. CASE Advance
    BY <1>1, <2>3 DEF Advance, TypeOK
  <2> QED BY <2>1, <2>2, <2>3
<1>4. ASSUME NEW p \in Procs PROVE TempIsRight(p)'
  <2>1. proc[p].stamp \in Nat /\ clock \in Nat /\ StaleAfter \in Nat /\ TempIsRight(p)
    BY <1>1, Names, Constants DEF TypeOK, Process, FilesAreRight
  <2>2. Temp(p)' = Temp(p)
    BY <1>2 DEF Temp
  <2> QED BY <1>2, <2>1, <2>2 DEF TempIsRight
<1> QED BY <1>1, <1>2, <1>3, <1>4 DEF FilesAreRight, FinalIsSafe

LEMMA NextFiles ==
    ASSUME IInv, [Next]_vars
    PROVE  TypeOK' /\ FilesAreRight'
<1>1. ASSUME NEW p \in Runs, StartRun(p) PROVE TypeOK' /\ FilesAreRight'
  BY <1>1, BeginFiles, Constants DEF StartRun
<1>2. ASSUME NEW p \in Procs, Vacuum(p) \/ Verify(p) \/ Publish(p) \/ SyncDir(p) \/ Fail(p) \/ Kill(p)
      PROVE  TypeOK' /\ FilesAreRight'
  BY <1>2, VacuumFiles, VerifyFiles, PublishFiles, SyncDirFiles, FailFiles
<1>3. ASSUME NEW p \in Runs, ListSnapshots(p) \/ RemoveSnapshot(p) \/ Record(p)
      PROVE  TypeOK' /\ FilesAreRight'
  <2>1. p \in Procs
    BY Constants
  <2> QED BY <1>3, <2>1, ListFiles, RemoveFiles, RecordFiles
<1>4. CASE StartServer \/ Migrate \/ Edit \/ StopServer
  BY <1>4, StartServerFiles, ServerFiles
<1>5. CASE (\E release \in Releases : Install(release)) \/ Damage \/ Advance
  BY <1>5, AroundFiles
<1>6. CASE PowerLoss
  BY <1>6, PowerLossFiles
<1>7. CASE UNCHANGED vars
  BY <1>7 DEF vars, IInv, TypeOK, FilesAreRight, FinalIsSafe, TempIsRight, Temp
<1> QED BY <1>1, <1>2, <1>3, <1>4, <1>5, <1>6, <1>7 DEF Next

-----------------------------------------------------------------------------
(* The copies behind a migration. No step takes the name of one, or        *)
(* changes what it holds.                                                  *)
CopiesStay ==
    \A f \in DOMAIN finals : f[1] = "pre-migration" /\ finals[f].named =>
        /\ f \in DOMAIN finals' /\ finals'[f].named
        /\ finals'[f].version = finals[f].version /\ finals'[f].edits = finals[f].edits

RollbackIsRight == ServedIsCurrent /\ HookIsRight /\ CopiesAreThere

LEMMA CopyStays ==
    ASSUME CopiesStay, NEW v, served'[v] = served[v], Copied(v)
    PROVE  Copied(v)'
BY DEF CopiesStay, Copied, IsCopyOf

(* Steps that are not the server's, and do not migrate.                    *)
LEMMA OthersRollback ==
    ASSUME IInv, CopiesStay, UNCHANGED <<served, unhooked>>,
           db'.version = db.version, db'.edits = db.edits,
           proc'[Server] = proc[Server],
           \A f \in DOMAIN finals' :
              f[1] = "pre-migration" => f \in DOMAIN finals /\ finals'[f] = finals[f],
           \A t \in DOMAIN temps' : t[3] = Server => t \in DOMAIN temps /\ temps'[t] = temps[t]
    PROVE  RollbackIsRight'
<1>1. ServedIsCurrent'
  BY DEF IInv, ServedIsCurrent
<1>2. HookIsRight'
  <2>1. Final(Server)' = Final(Server) /\ Final(Server)[1] = "pre-migration"
    BY DEF Final, DirOf
  <2>2. Temp(Server)' = Temp(Server) /\ Temp(Server)[3] = Server
    BY DEF Temp
  <2>3. HookIsRight
    BY DEF IInv
  <2> QED BY <2>1, <2>2, <2>3 DEF HookIsRight, IsTaken
<1>3. CopiesAreThere'
  <2>1. \A v : Copied(v) => Copied(v)'
    BY CopyStays
  <2> QED BY <2>1 DEF IInv, CopiesAreThere
<1> QED BY <1>1, <1>2, <1>3 DEF RollbackIsRight

(* Steps that end what the server is at.                                   *)
LEMMA EndRollback ==
    ASSUME IInv, CopiesStay, UNCHANGED <<served, unhooked>>,
           db'.version = db.version, db'.edits = db.edits,
           proc'[Server].step \in {"idle", "serving"}
    PROVE  RollbackIsRight'
<1>1. ServedIsCurrent'
  BY DEF IInv, ServedIsCurrent
<1>2. HookIsRight'
  BY DEF HookIsRight, Writing
<1>3. CopiesAreThere'
  <2>1. \A v : Copied(v) => Copied(v)'
    BY CopyStays
  <2> QED BY <2>1 DEF IInv, CopiesAreThere
<1> QED BY <1>1, <1>2, <1>3 DEF RollbackIsRight

LEMMA SameFinals ==
    ASSUME UNCHANGED finals
    PROVE  CopiesStay /\ \A f \in DOMAIN finals' : f \in DOMAIN finals /\ finals'[f] = finals[f]
BY DEF CopiesStay

LEMMA RunRollback ==
    ASSUME IInv, NEW p \in Runs,
           StartRun(p) \/ Vacuum(p) \/ Verify(p) \/ Publish(p) \/ SyncDir(p) \/ Fail(p) \/ Kill(p)
               \/ ListSnapshots(p) \/ RemoveSnapshot(p)
    PROVE  RollbackIsRight'
<1>1. TypeOK /\ p \in Procs /\ p # Server /\ Server \in Procs
  BY Constants DEF IInv
<1>2. UNCHANGED <<db, served, unhooked>>
  BY <1>1, RemoveFacts DEF StartRun, Vacuum, Verify, Publish, SyncDir, Fail, Kill, ListSnapshots
<1>3. DirOf(p) = "hourly" /\ Temp(p)[3] = p /\ Final(p)[1] = "hourly" /\ Own(p)[3] = p
  BY <1>1 DEF DirOf, Temp, Final, Own
<1>4. proc'[Server] = proc[Server]
  <2>1. CASE StartRun(p)
    <3>1. installed \in Nat
      BY <1>1, Constants DEF TypeOK
    <3> QED BY <1>1, <2>1, <3>1, BeginFacts DEF StartRun
  <2>2. CASE Goes(p, "verify") \/ Goes(p, "publish") \/ Goes(p, "syncdir")
    BY <1>1, <2>2, GoesFacts DEF Steps
  <2>3. CASE Over(p)
    BY <1>1, <2>3, OverFacts
  <2>4. CASE Kill(p) \/ ListSnapshots(p)
    BY <1>1, <2>4 DEF Kill, ListSnapshots, TypeOK
  <2>5. CASE RemoveSnapshot(p)
    BY <1>1, <2>5, RemoveFacts
  <2>6. CASE SyncDir(p)
    BY <1>1, <2>3, <2>6 DEF SyncDir, TypeOK
  <2> QED BY <2>1, <2>2, <2>3, <2>4, <2>5, <2>6 DEF Vacuum, Verify, Publish, Fail, GivesUp
<1>5. \A t \in DOMAIN temps' : t[3] = Server => t \in DOMAIN temps /\ temps'[t] = temps[t]
  <2>1. CASE StartRun(p)
    <3>1. installed \in Nat
      BY <1>1, Constants DEF TypeOK
    <3> QED BY <1>1, <1>3, <2>1, <3>1, BeginFacts DEF StartRun
  <2>2. CASE GivesUp(p)
    BY <1>1, <2>2, GivesUpFacts
  <2>3. CASE UNCHANGED temps
    BY <2>3
  <2>4. CASE Vacuum(p) \/ Verify(p) \/ Publish(p)
    BY <1>1, <1>3, <2>2, <2>4 DEF Vacuum, Verify, Publish, Drop, Only
  <2> QED BY <1>1, <2>1, <2>2, <2>3, <2>4, RemoveFacts DEF SyncDir, Fail, Kill, ListSnapshots
<1>6. /\ CopiesStay
      /\ \A f \in DOMAIN finals' : f[1] = "pre-migration" => f \in DOMAIN finals /\ finals'[f] = finals[f]
  <2>1. CASE UNCHANGED finals
    BY <2>1, SameFinals
  <2>2. CASE finals' = Put(finals, Final(p), temps[Temp(p)])
    BY <1>3, <2>2 DEF Put, CopiesStay
  <2>3. CASE SyncDir(p)
    BY <1>3, <2>3 DEF SyncDir, CopiesStay
  <2>4. ASSUME NEW n, finals' = Drop(finals, {<<"hourly", n>>})
        PROVE  /\ CopiesStay
               /\ \A f \in DOMAIN finals' : f[1] = "pre-migration" => f \in DOMAIN finals /\ finals'[f] = finals[f]
    <3>1. \A f : f[1] = "pre-migration" => f # <<"hourly", n>>
      OBVIOUS
    <3> QED BY <2>4, <3>1 DEF Drop, Only, CopiesStay
  <2>5. CASE RemoveSnapshot(p)
    BY <1>1, <2>1, <2>4, <2>5, RemoveFacts
  <2> QED BY <2>1, <2>2, <2>3, <2>5 DEF StartRun, Vacuum, Verify, Publish, Fail, Kill, ListSnapshots
<1> QED BY <1>2, <1>4, <1>5, <1>6, OthersRollback

LEMMA RecordRollback ==
    ASSUME IInv, NEW p \in Runs, Record(p)
    PROVE  RollbackIsRight'
<1>1. TypeOK /\ p \in Procs /\ p # Server /\ Server \in Procs
  BY Constants DEF IInv
<1>2. UNCHANGED <<clock, installed, finals, temps, runs, faults, served>>
  BY DEF Record
<1>3. CASE Migrates(p) /\ unhooked' = TRUE
  <2>1. /\ db' \in Database /\ db'.version = db.version + 1 /\ db'.edits = db.edits /\ db \in Database
        /\ proc'[Server] = proc[Server]
    BY <1>1, <1>3, MigratesFacts DEF TypeOK
  <2>2. ServedIsCurrent'
    <3>1. \A v \in DOMAIN served : v \in Nat /\ v <= db.version /\ db.version \in Nat
      BY <1>1, <2>1 DEF IInv, ServedIsCurrent, TypeOK, Database
    <3> QED BY <1>2, <2>1, <3>1 DEF ServedIsCurrent
  <2>3. HookIsRight'
    <3>1. Final(Server)' = Final(Server) /\ Temp(Server)' = Temp(Server)
      BY <2>1 DEF Final, Temp
    <3> QED BY <1>2, <1>3, <2>1, <3>1 DEF IInv, HookIsRight, IsTaken
  <2> QED BY <1>3, <2>2, <2>3 DEF RollbackIsRight, CopiesAreThere
<1>4. CASE proc' = [proc EXCEPT ![p] = Resting] /\ UNCHANGED <<db, unhooked>>
  BY <1>1, <1>2, <1>4, OthersRollback, SameFinals DEF TypeOK
<1> QED BY <1>3, <1>4 DEF Record

(* The server's snapshot, from its first byte to the sync of its name.     *)
LEMMA WritingRollback ==
    ASSUME IInv, CopiesStay, UNCHANGED <<db, served, unhooked>>,
           proc[Server].step \in Writing, proc'[Server].step \in Writing \cup {"syncdir"},
           proc'[Server].at = proc[Server].at,
           HookIsRight'
    PROVE  RollbackIsRight'
<1>1. ServedIsCurrent'
  BY DEF IInv, ServedIsCurrent
<1>2. CopiesAreThere'
  <2>1. \A v : Copied(v) => Copied(v)'
    BY CopyStays
  <2> QED BY <2>1 DEF IInv, CopiesAreThere, Writing
<1> QED BY <1>1, <1>2 DEF RollbackIsRight

LEMMA VacuumRollback ==
    ASSUME IInv, Vacuum(Server)
    PROVE  RollbackIsRight'
<1>1. TypeOK /\ Server \in Procs /\ proc[Server].step = "vacuum" /\ "verify" \in Steps /\ HookIsRight
  BY Constants DEF IInv, Vacuum, Steps
<1>2. UNCHANGED <<clock, db, installed, finals, runs, faults, served, unhooked>>
  BY DEF Vacuum
<1>3. /\ proc'[Server].step = "verify" /\ proc'[Server].at = proc[Server].at
      /\ proc'[Server].stamp = proc[Server].stamp
  BY <1>1, GoesFacts DEF Vacuum
<1>4. Final(Server)' = Final(Server) /\ Temp(Server)' = Temp(Server)
  BY <1>3 DEF Final, Temp
<1>5. temps' = IF Temp(Server) \in DOMAIN temps THEN [temps EXCEPT ![Temp(Server)].whole = TRUE] ELSE temps
  BY DEF Vacuum
<1>6. /\ DOMAIN temps' = DOMAIN temps
      /\ Temp(Server) \in DOMAIN temps =>
            /\ temps'[Temp(Server)].version = temps[Temp(Server)].version
            /\ temps'[Temp(Server)].edits = temps[Temp(Server)].edits
  BY <1>1, <1>5 DEF TypeOK, File
<1>7. HookIsRight'
  BY <1>1, <1>2, <1>3, <1>4, <1>6 DEF HookIsRight, IsTaken, Writing
<1> QED BY <1>1, <1>2, <1>3, <1>7, SameFinals, WritingRollback DEF Writing

LEMMA VerifyRollback ==
    ASSUME IInv, Verify(Server)
    PROVE  RollbackIsRight'
<1>1. TypeOK /\ Server \in Procs /\ proc[Server].step = "verify" /\ "publish" \in Steps /\ HookIsRight
  BY Constants DEF IInv, Verify, Steps
<1>2. UNCHANGED <<clock, db, installed, finals, runs, faults, served, unhooked>>
  BY DEF Verify
<1>3. CASE Verifies(Server)
  <2>1. temps' = [temps EXCEPT ![Temp(Server)] = Synced(temps[Temp(Server)])] /\ Goes(Server, "publish")
    BY <1>3 DEF Verify
  <2>2. /\ proc'[Server].step = "publish" /\ proc'[Server].at = proc[Server].at
        /\ proc'[Server].stamp = proc[Server].stamp
    BY <1>1, <2>1, GoesFacts
  <2>3. Final(Server)' = Final(Server) /\ Temp(Server)' = Temp(Server)
    BY <2>2 DEF Final, Temp
  <2>4. Temp(Server) \in DOMAIN temps /\ temps[Temp(Server)] \in File
    BY <1>1, <1>3 DEF Verifies, TypeOK
  <2>5. /\ DOMAIN temps' = DOMAIN temps
        /\ temps'[Temp(Server)].version = temps[Temp(Server)].version
        /\ temps'[Temp(Server)].edits = temps[Temp(Server)].edits
    BY <2>1, <2>4 DEF File, Synced
  <2>6. HookIsRight'
    BY <1>1, <1>2, <2>2, <2>3, <2>4, <2>5 DEF HookIsRight, IsTaken, Writing
  <2> QED BY <1>1, <1>2, <2>2, <2>6, SameFinals, WritingRollback DEF Writing
<1>4. CASE GivesUp(Server)
  BY <1>1, <1>2, <1>4, GivesUpFacts, SameFinals, EndRollback
<1> QED BY <1>3, <1>4 DEF Verify

LEMMA PublishRollback ==
    ASSUME IInv, Publish(Server)
    PROVE  RollbackIsRight'
<1>1. TypeOK /\ Server \in Procs /\ proc[Server].step = "publish" /\ "syncdir" \in Steps /\ HookIsRight
  BY Constants DEF IInv, Publish, Steps
<1>2. UNCHANGED <<clock, db, installed, runs, faults, served, unhooked>>
  BY DEF Publish
<1>3. CASE Temp(Server) \in DOMAIN temps
  <2>1. finals' = Put(finals, Final(Server), temps[Temp(Server)]) /\ Goes(Server, "syncdir")
    BY <1>3 DEF Publish
  <2>2. /\ proc'[Server].step = "syncdir" /\ proc'[Server].at = proc[Server].at
        /\ proc'[Server].stamp = proc[Server].stamp
    BY <1>1, <2>1, GoesFacts
  <2>3. Final(Server)' = Final(Server)
    BY <2>2 DEF Final
  <2>4. Final(Server) \notin DOMAIN finals /\ IsTaken(temps[Temp(Server)])
    BY <1>1, <1>3 DEF HookIsRight, Writing
  <2>5. finals'[Final(Server)] = temps[Temp(Server)] /\ CopiesStay
    BY <2>1, <2>4 DEF Put, CopiesStay
  <2>6. HookIsRight'
    BY <1>1, <1>2, <2>2, <2>3, <2>4, <2>5 DEF HookIsRight, IsTaken, Writing
  <2> QED BY <1>1, <1>2, <2>2, <2>5, <2>6, WritingRollback DEF Writing
<1>4. CASE GivesUp(Server) /\ UNCHANGED finals
  BY <1>1, <1>2, <1>4, GivesUpFacts, SameFinals, EndRollback
<1> QED BY <1>3, <1>4 DEF Publish

LEMMA SyncDirRollback ==
    ASSUME IInv, SyncDir(Server)
    PROVE  RollbackIsRight'
<1>1. TypeOK /\ Server \in Procs /\ proc[Server].step = "syncdir" /\ HookIsRight /\ DirOf(Server) = "pre-migration"
  BY Constants DEF IInv, SyncDir, DirOf
<1>2. UNCHANGED <<clock, db, installed, temps, runs, faults, served, unhooked>>
  BY DEF SyncDir
<1>3. /\ DOMAIN finals' = DOMAIN finals
      /\ \A f \in DOMAIN finals : f[1] = "pre-migration" => finals'[f] = [finals[f] EXCEPT !.named = TRUE]
  BY <1>1 DEF SyncDir
<1>4. \A f \in DOMAIN finals : f[1] = "pre-migration" =>
         /\ finals'[f].named /\ finals'[f].version = finals[f].version
         /\ finals'[f].edits = finals[f].edits
  BY <1>1, <1>3 DEF TypeOK, File
<1>5. CopiesStay
  BY <1>3, <1>4 DEF CopiesStay
<1>6. CASE Over(Server)
  BY <1>1, <1>2, <1>5, <1>6, OverFacts, EndRollback
<1>7. CASE /\ Final(Server) \in DOMAIN finals
           /\ proc' = [proc EXCEPT ![Server] = IF Server = Server THEN [@ EXCEPT !.step = "migrate", !.stamp = 0]
                                               ELSE [@ EXCEPT !.step = "list"]]
  <2>1. proc'[Server].step = "migrate"
    BY <1>1, <1>7 DEF TypeOK, Process
  <2>2. ServedIsCurrent'
    BY <1>2 DEF IInv, ServedIsCurrent
  <2>3. HookIsRight'
    BY <2>1 DEF HookIsRight, Writing
  <2>4. \A v : Copied(v) => Copied(v)'
    BY <1>2, <1>5, CopyStays
  <2>5. ASSUME ~unhooked, db.version \in DOMAIN served
        PROVE  Copied(db.version)'
    <3>1. IsTaken(finals[Final(Server)]) /\ proc[Server].at = db.version /\ served[db.version] = db.edits
      BY <1>1, <1>7, <2>5 DEF HookIsRight, IInv, ServedIsCurrent
    <3>2. Final(Server)[1] = "pre-migration"
      BY <1>1 DEF Final
    <3> QED BY <1>2, <1>3, <1>4, <1>7, <3>1, <3>2 DEF Copied, IsCopyOf, IsTaken
  <2>6. CopiesAreThere'
    BY <1>2, <2>4, <2>5 DEF IInv, CopiesAreThere
  <2> QED BY <2>2, <2>3, <2>6 DEF RollbackIsRight
<1> QED BY <1>6, <1>7 DEF SyncDir

LEMMA StartServerRollback ==
    ASSUME IInv, StartServer
    PROVE  RollbackIsRight'
<1>1. TypeOK /\ Server \in Procs /\ installed \in Nat /\ db.version <= installed
  BY Constants DEF IInv, TypeOK, StartServer
<1>2. UNCHANGED <<clock, db, installed, finals, faults, served, unhooked>>
  BY DEF StartServer
<1>3. ServedIsCurrent'
  BY <1>2 DEF IInv, ServedIsCurrent
<1>4. \A v : Copied(v) => Copied(v)'
  BY <1>2, SameFinals, CopyStays
<1>5. CASE db.version < installed
  <2>1. <<"pre-migration", clock>> \notin DOMAIN finals /\ BeginBackup(Server)
    BY <1>5 DEF StartServer
  <2>2. /\ proc'[Server].step = "vacuum" /\ proc'[Server].at = db.version /\ proc'[Server].stamp = clock
        /\ temps'[Own(Server)] = Begun
    BY <1>1, <2>1, BeginFacts
  <2>3. Final(Server)' = <<"pre-migration", clock>> /\ Temp(Server)' = Own(Server)
    BY <2>2 DEF Final, Temp, Own, DirOf
  <2>4. IsTaken(Begun)'
    BY <1>2, <2>2 DEF IsTaken, Begun
  <2>5. HookIsRight'
    BY <1>2, <2>1, <2>2, <2>3, <2>4 DEF HookIsRight, IsTaken, Begun, Writing
  <2>6. CopiesAreThere'
    BY <1>2, <1>4, <2>2 DEF IInv, CopiesAreThere
  <2> QED BY <1>3, <2>5, <2>6 DEF RollbackIsRight
<1>6. CASE ~(db.version < installed)
  <2>1. proc' = [proc EXCEPT ![Server] = [Resting EXCEPT !.step = "migrate", !.knows = installed, !.at = db.version]]
    BY <1>6 DEF StartServer
  <2>2. proc'[Server].step = "migrate" /\ proc'[Server].knows = installed /\ proc'[Server].at = db.version
    BY <1>1, <2>1 DEF TypeOK, Resting
  <2>3. db.version \in Nat
    BY <1>1 DEF TypeOK, Database
  <2>4. ~(proc'[Server].at < proc'[Server].knows)
    BY <1>1, <1>6, <2>2, <2>3
  <2>5. HookIsRight'
    BY <2>2 DEF HookIsRight, Writing
  <2>6. CopiesAreThere'
    BY <1>2, <1>4, <2>4 DEF IInv, CopiesAreThere
  <2> QED BY <1>3, <2>5, <2>6 DEF RollbackIsRight
<1> QED BY <1>5, <1>6

LEMMA MigrateRollback ==
    ASSUME IInv, Migrate
    PROVE  RollbackIsRight'
<1>1. TypeOK /\ Server \in Procs /\ proc[Server].step = "migrate" /\ db \in Database
  BY Constants DEF IInv, Migrate, TypeOK
<1>2. UNCHANGED <<clock, installed, finals, temps, runs, faults, unhooked>> /\ CopiesStay
  BY SameFinals DEF Migrate
<1>3. \A v \in DOMAIN served : /\ v \in Nat /\ v <= db.version
                               /\ v = db.version => served[v] = db.edits
  BY <1>1 DEF IInv, ServedIsCurrent, TypeOK
<1>4. db.version \in Nat
  BY <1>1 DEF Database
<1>5. CASE Migrates(Server) /\ UNCHANGED served
  <2>1. /\ db'.version = db.version + 1 /\ db'.edits = db.edits
        /\ proc'[Server].step = "migrate" /\ proc'[Server].at = db'.version
        /\ proc[Server].at < proc[Server].knows
    BY <1>1, <1>5, MigratesFacts
  <2>2. \A v \in DOMAIN served : v <= db'.version /\ v # db'.version /\ (v < db'.version => v <= db.version)
    BY <1>3, <1>4, <2>1
  <2>3. ServedIsCurrent'
    BY <1>5, <2>2 DEF ServedIsCurrent
  <2>4. HookIsRight'
    BY <2>1 DEF HookIsRight, Writing
  <2>5. \A v : Copied(v) => Copied(v)'
    BY <1>2, <1>5, CopyStays
  <2>6. ASSUME ~unhooked, NEW v \in DOMAIN served
        PROVE  Copied(v)
    <3>1. v < db.version \/ v = db.version
      BY <1>3, <1>4
    <3> QED BY <1>1, <2>1, <2>6, <3>1 DEF IInv, CopiesAreThere
  <2>7. CopiesAreThere'
    BY <1>2, <1>5, <2>2, <2>5, <2>6 DEF CopiesAreThere
  <2> QED BY <2>3, <2>4, <2>7 DEF RollbackIsRight
<1>6. CASE /\ proc' = [proc EXCEPT ![Server] = [Resting EXCEPT !.step = "serving", !.knows = proc[Server].knows]]
           /\ served' = Put(served, db.version, db.edits)
           /\ UNCHANGED db
  <2>1. proc'[Server].step = "serving"
    BY <1>1, <1>6 DEF TypeOK, Resting
  <2>2. /\ DOMAIN served' = DOMAIN served \cup {db.version}
        /\ \A v \in DOMAIN served' : served'[v] = IF v = db.version THEN db.edits ELSE served[v]
    BY <1>6 DEF Put
  <2>3. ServedIsCurrent'
    BY <1>3, <1>4, <1>6, <2>2 DEF ServedIsCurrent
  <2>4. HookIsRight'
    BY <2>1 DEF HookIsRight, Writing
  <2>5. ASSUME ~unhooked, NEW v \in DOMAIN served', v < db.version
        PROVE  Copied(v)'
    <3>1. v \in DOMAIN served /\ served'[v] = served[v]
      BY <1>4, <2>2, <2>5
    <3> QED BY <1>2, <2>5, <3>1, CopyStays DEF IInv, CopiesAreThere
  <2>6. CopiesAreThere'
    BY <1>2, <1>6, <2>1, <2>5 DEF CopiesAreThere
  <2> QED BY <2>3, <2>4, <2>6 DEF RollbackIsRight
<1>7. CASE Over(Server) /\ UNCHANGED <<db, served>>
  BY <1>1, <1>2, <1>7, OverFacts, EndRollback
<1> QED BY <1>5, <1>6, <1>7 DEF Migrate

LEMMA EditRollback ==
    ASSUME IInv, Edit
    PROVE  RollbackIsRight'
<1>1. TypeOK /\ proc[Server].step = "serving" /\ db \in Database
  BY DEF IInv, Edit, TypeOK
<1>2. /\ UNCHANGED <<clock, installed, finals, temps, proc, runs, faults, unhooked>> /\ CopiesStay
      /\ db' = [db EXCEPT !.edits = db.edits + 1]
      /\ served' = Put(served, db.version, db.edits + 1)
  BY SameFinals DEF Edit
<1>3. db'.version = db.version /\ db'.edits = db.edits + 1 /\ db.version \in Nat
  BY <1>1, <1>2 DEF Database
<1>4. /\ DOMAIN served' = DOMAIN served \cup {db.version}
      /\ \A v \in DOMAIN served' : served'[v] = IF v = db.version THEN db.edits + 1 ELSE served[v]
  BY <1>2 DEF Put
<1>5. ServedIsCurrent'
  BY <1>3, <1>4 DEF IInv, ServedIsCurrent
<1>6. HookIsRight'
  BY <1>1, <1>2 DEF HookIsRight, Writing
<1>7. ASSUME ~unhooked, NEW v \in DOMAIN served', v < db.version
      PROVE  Copied(v)'
  <2>1. v \in DOMAIN served /\ served'[v] = served[v]
    BY <1>3, <1>4, <1>7
  <2> QED BY <1>2, <1>7, <2>1, CopyStays DEF IInv, CopiesAreThere
<1>8. CopiesAreThere'
  BY <1>1, <1>2, <1>3, <1>7 DEF CopiesAreThere
<1> QED BY <1>5, <1>6, <1>8 DEF RollbackIsRight

LEMMA NextRollback ==
    ASSUME IInv, [Next]_vars
    PROVE  RollbackIsRight'
<1>1. TypeOK /\ Server \in Procs
  BY Constants DEF IInv
<1>2. ASSUME NEW p \in Procs, Vacuum(p) \/ Verify(p) \/ Publish(p) \/ SyncDir(p) \/ Fail(p) \/ Kill(p)
      PROVE  RollbackIsRight'
  <2>1. CASE p \in Runs
    BY <1>2, <2>1, RunRollback
  <2>2. CASE p = Server /\ (Vacuum(Server) \/ Verify(Server) \/ Publish(Server) \/ SyncDir(Server))
    BY <2>2, VacuumRollback, VerifyRollback, PublishRollback, SyncDirRollback
  <2>3. CASE p = Server /\ (Fail(Server) \/ Kill(Server))
    <3>1. UNCHANGED <<db, finals, served, unhooked>>
      BY <2>3 DEF Fail, Kill
    <3>2. proc'[Server].step = "idle"
      BY <1>1, <2>3, GivesUpFacts, RestingType DEF Fail, Kill, TypeOK
    <3> QED BY <3>1, <3>2, SameFinals, EndRollback
  <2> QED BY <1>2, <2>1, <2>2, <2>3 DEF Procs
<1>3. CASE PowerLoss
  <2>1. CopiesStay
    BY <1>1, <1>3, PowerLossFacts DEF CopiesStay
  <2> QED BY <1>1, <1>3, <2>1, PowerLossFacts, RestingType, EndRollback
<1>4. CASE StopServer
  BY <1>1, <1>4, SameFinals, RestingType, EndRollback DEF StopServer, TypeOK
<1>5. CASE (\E release \in Releases : Install(release)) \/ Damage \/ Advance \/ UNCHANGED vars
  <2>1. UNCHANGED <<finals, temps, proc, served, unhooked>>
    BY <1>5 DEF Install, Damage, Advance, vars
  <2>2. db'.version = db.version /\ db'.edits = db.edits
    BY <1>1, <1>5 DEF Install, Damage, Advance, vars, TypeOK, Database
  <2> QED BY <2>1, <2>2, SameFinals, OthersRollback
<1> QED BY <1>2, <1>3, <1>4, <1>5, RunRollback, RecordRollback, StartServerRollback, MigrateRollback,
           EditRollback DEF Next

-----------------------------------------------------------------------------
(* Retention. What is dispensable stays so when snapshots are added, and   *)
(* when another that is dispensable is taken away.                         *)
LEMMA NewerIsFinite ==
    ASSUME NEW stamps, IsFiniteSet(stamps), NEW length, NEW d
    PROVE  IsFiniteSet(Newer(stamps, length, d)) /\ Cardinality(Newer(stamps, length, d)) \in Nat
<1> DEFINE onto == [s \in stamps |-> Period(s, length)]
<1>1. onto \in Surjection(stamps, Periods(stamps, length))
  BY DEF Surjection, Periods
<1>2. IsFiniteSet(Periods(stamps, length))
  BY <1>1, FS_Surjection
<1>3. Newer(stamps, length, d) \subseteq Periods(stamps, length)
  BY DEF Newer
<1> QED BY <1>2, <1>3, FS_Subset, FS_CardinalityType

LEMMA MoreStays ==
    ASSUME NEW stamps, NEW more, IsFiniteSet(more), stamps \subseteq more,
           NEW s, NEW k \in Retention, Dispensable(s, k, stamps)
    PROVE  Dispensable(s, k, more)
<1> DEFINE d == Period(s, k[1])
<1>1. CASE Cardinality(Newer(stamps, k[1], d)) >= k[2]
  <2>1. Newer(stamps, k[1], d) \subseteq Newer(more, k[1], d)
    BY DEF Newer, Periods
  <2>2. IsFiniteSet(Newer(more, k[1], d)) /\ Cardinality(Newer(more, k[1], d)) \in Nat
    BY NewerIsFinite
  <2>3. Cardinality(Newer(stamps, k[1], d)) <= Cardinality(Newer(more, k[1], d))
    BY <2>1, <2>2, FS_Subset
  <2>4. Cardinality(Newer(stamps, k[1], d)) \in Nat /\ k[2] \in Nat
    BY <2>1, <2>2, FS_Subset, FS_CardinalityType, Constants
  <2> QED BY <1>1, <2>2, <2>3, <2>4 DEF Dispensable
<1> QED BY <1>1 DEF Dispensable

LEMMA OneLessStays ==
    ASSUME NEW stamps \in SUBSET Nat, IsFiniteSet(stamps), NEW k \in Retention,
           NEW t \in stamps, Dispensable(t, k, stamps),
           NEW s \in Nat, Dispensable(s, k, stamps)
    PROVE  Dispensable(s, k, stamps \ {t})
<1> DEFINE left == stamps \ {t}
           d == Period(s, k[1])
           e == Period(t, k[1])
<1>1. k[1] \in Nat \ {0} /\ k[2] \in Nat
  BY Constants
<1>2. d \in Nat /\ e \in Nat /\ \A u \in stamps : Period(u, k[1]) \in Nat
  BY <1>1 DEF Period
<1>3. CASE \E u \in stamps : u > s /\ Period(u, k[1]) = d
  <2>1. PICK u \in stamps : u > s /\ Period(u, k[1]) = d
    BY <1>3
  <2>2. CASE u # t
    BY <2>1, <2>2 DEF Dispensable
  <2>3. CASE u = t /\ \E w \in stamps : w > t /\ Period(w, k[1]) = e
    <3>1. PICK w \in stamps : w > t /\ Period(w, k[1]) = e
      BY <2>3
    <3>2. w \in left /\ w > s /\ Period(w, k[1]) = d
      BY <2>1, <2>3, <3>1
    <3> QED BY <3>2 DEF Dispensable
  <2>4. CASE u = t /\ Cardinality(Newer(stamps, k[1], e)) >= k[2]
    <3>1. e = d
      BY <2>1, <2>4
    <3>2. Newer(stamps, k[1], d) = Newer(left, k[1], d)
      <4>1. Period(t, k[1]) = d /\ ~(d > d)
        BY <1>2, <3>1
      <4> HIDE DEF d, e
      <4> QED BY <4>1 DEF Newer, Periods
    <3> QED BY <2>4, <3>1, <3>2 DEF Dispensable
  <2> QED BY <2>2, <2>3, <2>4 DEF Dispensable
<1>4. CASE Cardinality(Newer(stamps, k[1], d)) >= k[2]
  <2>1. CASE e \in Periods(left, k[1]) \/ ~(e > d)
    <3> HIDE DEF d
    <3>1. Newer(stamps, k[1], d) \subseteq Newer(left, k[1], d)
      <4> SUFFICES ASSUME NEW u \in stamps, Period(u, k[1]) > d
                   PROVE  Period(u, k[1]) \in Periods(left, k[1])
        BY DEF Newer, Periods
      <4>1. CASE u = t
        BY <2>1, <4>1
      <4>2. CASE u # t
        BY <4>2 DEF Periods
      <4> QED BY <4>1, <4>2
    <3>2. Newer(left, k[1], d) \subseteq Newer(stamps, k[1], d)
      BY DEF Newer, Periods
    <3>3. Newer(stamps, k[1], d) = Newer(left, k[1], d)
      BY <3>1, <3>2
    <3> QED BY <1>4, <3>3 DEF Dispensable, d
  <2>2. CASE e \notin Periods(left, k[1]) /\ e > d
    <3>1. ~\E w \in stamps : w > t /\ Period(w, k[1]) = e
      BY <2>2 DEF Periods
    <3>2. Cardinality(Newer(stamps, k[1], e)) >= k[2]
      BY <3>1 DEF Dispensable
    <3>3. Newer(stamps, k[1], e) \subseteq Newer(left, k[1], d)
      <4> SUFFICES ASSUME NEW u \in stamps, Period(u, k[1]) > e
                   PROVE  u # t /\ Period(u, k[1]) > d
        BY DEF Newer, Periods
      <4> HIDE DEF d
      <4>1. u # t
        BY <1>2
      <4>2. Period(u, k[1]) > d
        <5> HIDE DEF e
        <5> QED BY <1>2, <2>2
      <4> QED BY <4>1, <4>2
    <3>4. IsFiniteSet(left)
      BY FS_Subset
    <3>5. IsFiniteSet(Newer(left, k[1], d)) /\ Cardinality(Newer(left, k[1], d)) \in Nat
      BY <3>4, NewerIsFinite
    <3>6. /\ Cardinality(Newer(stamps, k[1], e)) <= Cardinality(Newer(left, k[1], d))
          /\ Cardinality(Newer(stamps, k[1], e)) \in Nat
      BY <3>3, <3>5, FS_Subset, FS_CardinalityType
    <3> QED BY <1>1, <3>2, <3>5, <3>6 DEF Dispensable
  <2> QED BY <2>1, <2>2
<1> QED BY <1>3, <1>4 DEF Dispensable

(* Steps that remove no snapshot and mark none.                            *)
LEMMA DoomedStays ==
    ASSUME IInv, IsFiniteSet(Stamps'), Stamps \subseteq Stamps',
           \A p \in Procs : proc'[p].doomed \subseteq proc[p].doomed
    PROVE  DoomedIsRight'
<1>1. ASSUME NEW p \in Procs, NEW s \in proc'[p].doomed, NEW k \in Retention
      PROVE  Dispensable(s, k, Stamps')
  <2>1. s \in proc[p].doomed
    OBVIOUS
  <2>2. Dispensable(s, k, Stamps)
    BY <2>1 DEF IInv, DoomedIsRight
  <2> QED BY <2>2, MoreStays
<1> QED BY <1>1 DEF DoomedIsRight

LEMMA SameStamps ==
    ASSUME IInv, DOMAIN finals' = DOMAIN finals,
           \A p \in Procs : proc'[p].doomed \subseteq proc[p].doomed
    PROVE  DoomedIsRight'
<1>1. Stamps' = Stamps
  BY DEF Stamps
<1> QED BY <1>1, DoomedStays DEF IInv, DoomedIsRight

LEMMA ListDoomed ==
    ASSUME IInv, NEW p \in Runs, ListSnapshots(p)
    PROVE  DoomedIsRight'
<1>1. TypeOK /\ IsFiniteSet(Stamps) /\ p \in Procs
  BY Constants DEF IInv, DoomedIsRight
<1>2. Stamps' = Stamps
  BY DEF ListSnapshots, Stamps
<1>3. Stamps \subseteq Nat
  BY <1>1 DEF Stamps, TypeOK, Dirs
<1>4. /\ \A q \in Procs \ {p} : proc'[q].doomed = proc[q].doomed
      /\ proc'[p].doomed \subseteq Stamps \ Kept(Stamps)
  <2> DEFINE doomed == Stamps \ (Kept(Stamps) \cup {proc[p].stamp})
             onto == [proc[p] EXCEPT !.step = "remove", !.doomed = doomed]
  <2>1. proc' = [proc EXCEPT ![p] = onto]
    BY DEF ListSnapshots
  <2>2. onto.doomed = doomed
    <3> HIDE DEF doomed
    <3> QED BY <1>1 DEF TypeOK, Process
  <2> HIDE DEF onto
  <2> QED BY <1>1, <2>1, <2>2 DEF TypeOK
<1>5. ASSUME NEW s \in Stamps \ Kept(Stamps), NEW k \in Retention
      PROVE  Dispensable(s, k, Stamps)
  <2> DEFINE d == Period(s, k[1])
  <2>1. \/ d \notin NewestPeriods(Stamps, k[1], k[2])
        \/ ~(\A t \in Stamps : Period(t, k[1]) = d => t <= s)
    BY <1>5 DEF Kept
  <2>2. CASE d \notin NewestPeriods(Stamps, k[1], k[2])
    <3>1. Newer(Stamps, k[1], d) = {e \in Periods(Stamps, k[1]) : e > d} /\ d \in Periods(Stamps, k[1])
      BY DEF Newer, Periods
    <3>2. ~(Cardinality(Newer(Stamps, k[1], d)) < k[2])
      BY <2>2, <3>1 DEF NewestPeriods, Periods
    <3>3. Cardinality(Newer(Stamps, k[1], d)) \in Nat /\ k[2] \in Nat
      BY <1>1, NewerIsFinite, Constants
    <3>4. Cardinality(Newer(Stamps, k[1], d)) >= k[2]
      <4> HIDE DEF d
      <4> QED BY <3>2, <3>3
    <3> QED BY <3>4 DEF Dispensable
  <2>3. CASE \E t \in Stamps : Period(t, k[1]) = d /\ ~(t <= s)
    <3>1. \A t \in Stamps : ~(t <= s) => t > s
      BY <1>3
    <3> QED BY <2>3, <3>1 DEF Dispensable
  <2> QED BY <2>1, <2>2, <2>3
<1>6. ASSUME NEW q \in Procs, NEW s \in proc'[q].doomed, NEW k \in Retention
      PROVE  Dispensable(s, k, Stamps')
  BY <1>2, <1>4, <1>5 DEF IInv, DoomedIsRight
<1> QED BY <1>1, <1>2, <1>6 DEF DoomedIsRight

(* What a removal leaves of the stamps.                                    *)
LEMMA RemovedStamp ==
    ASSUME TypeOK, NEW s, finals' = Drop(finals, {<<"hourly", s>>})
    PROVE  Stamps' = Stamps \ {s}
<1>1. DOMAIN finals' = DOMAIN finals \ {<<"hourly", s>>}
  BY DEF Drop, Only
<1>2. Stamps' \subseteq Stamps
  BY <1>1 DEF Stamps
<1>3. \A u \in Stamps : <<"hourly", u>> \in DOMAIN finals
  <2> SUFFICES ASSUME NEW f \in DOMAIN finals, f[1] = "hourly" PROVE <<"hourly", f[2]>> \in DOMAIN finals
    BY DEF Stamps
  <2>1. f \in Dirs \X Nat
    BY DEF TypeOK
  <2> QED BY <2>1
<1>4. \A u \in Stamps : <<"hourly", u>> \in DOMAIN finals' => u \in Stamps'
  BY DEF Stamps
<1>5. s \notin Stamps'
  <2> SUFFICES ASSUME NEW f \in DOMAIN finals', f[1] = "hourly" PROVE f[2] # s
    BY DEF Stamps
  <2>1. f \in Dirs \X Nat /\ f # <<"hourly", s>>
    BY <1>1 DEF TypeOK
  <2> QED BY <2>1
<1>6. \A u \in Stamps \ {s} : u \in Stamps'
  BY <1>1, <1>3, <1>4
<1> QED BY <1>2, <1>5, <1>6

LEMMA RemoveDoomed ==
    ASSUME IInv, NEW p \in Runs, RemoveSnapshot(p)
    PROVE  DoomedIsRight'
<1>1. TypeOK /\ IsFiniteSet(Stamps) /\ p \in Procs
  BY Constants DEF IInv, DoomedIsRight
<1>2. Stamps \subseteq Nat
  BY <1>1 DEF Stamps, TypeOK, Dirs
<1>3. \A q \in Procs : proc'[q].doomed \subseteq proc[q].doomed
  BY <1>1, RemoveFacts
<1>4. CASE UNCHANGED finals
  BY <1>3, <1>4, SameStamps
<1>5. ASSUME NEW t \in proc[p].doomed, t \in Stamps, finals' = Drop(finals, {<<"hourly", t>>})
      PROVE  DoomedIsRight'
  <2>1. Stamps' = Stamps \ {t} /\ IsFiniteSet(Stamps \ {t})
    BY <1>1, <1>5, RemovedStamp, FS_Subset
  <2>2. ASSUME NEW q \in Procs, NEW s \in proc'[q].doomed, NEW k \in Retention
        PROVE  Dispensable(s, k, Stamps')
    <3>1. s \in proc[q].doomed /\ s \in Nat
      BY <1>1, <1>3 DEF TypeOK, Process
    <3>2. Dispensable(s, k, Stamps) /\ Dispensable(t, k, Stamps)
      BY <1>1, <1>5, <3>1 DEF IInv, DoomedIsRight
    <3> QED BY <1>1, <1>2, <1>5, <2>1, <3>1, <3>2, OneLessStays
  <2> QED BY <2>1, <2>2 DEF DoomedIsRight
<1> QED BY <1>1, <1>4, <1>5, RemoveFacts

LEMMA PublishDoomed ==
    ASSUME IInv, NEW p \in Procs, Publish(p)
    PROVE  DoomedIsRight'
<1>1. TypeOK /\ IsFiniteSet(Stamps) /\ "syncdir" \in Steps
  BY DEF IInv, DoomedIsRight, Steps
<1>2. CASE /\ finals' = Put(finals, Final(p), temps[Temp(p)])
           /\ Goes(p, "syncdir")
  <2>1. DOMAIN finals' = DOMAIN finals \cup {Final(p)}
    BY <1>2 DEF Put
  <2>2. Stamps \subseteq Stamps' /\ Stamps' \subseteq Stamps \cup {Final(p)[2]}
    BY <2>1 DEF Stamps
  <2>3. IsFiniteSet(Stamps')
    BY <1>1, <2>2, FS_AddElement, FS_Subset
  <2>4. \A q \in Procs : proc'[q].doomed \subseteq proc[q].doomed
    BY <1>1, <1>2, GoesFacts
  <2> QED BY <2>2, <2>3, <2>4, DoomedStays
<1>3. CASE GivesUp(p) /\ UNCHANGED finals
  <2>1. \A q \in Procs : proc'[q].doomed \subseteq proc[q].doomed
    BY <1>1, <1>3, GivesUpFacts
  <2> QED BY <1>3, <2>1, SameStamps
<1> QED BY <1>2, <1>3 DEF Publish

LEMMA PowerLossDoomed ==
    ASSUME IInv, PowerLoss
    PROVE  DoomedIsRight'
<1>1. TypeOK /\ IsFiniteSet(Stamps)
  BY DEF IInv, DoomedIsRight
<1>2. Stamps' \subseteq Stamps
  BY <1>1, PowerLossFacts DEF Stamps
<1>3. IsFiniteSet(Stamps')
  BY <1>1, <1>2, FS_Subset
<1> QED BY <1>1, <1>3, PowerLossFacts, RestingType DEF DoomedIsRight

(* The other steps of a process.                                           *)
LEMMA StepDoomed ==
    ASSUME IInv, NEW p \in Procs,
           \/ (p \in Runs /\ (StartRun(p) \/ Record(p)))
           \/ Vacuum(p) \/ Verify(p) \/ SyncDir(p) \/ Fail(p) \/ Kill(p)
           \/ (p = Server /\ (StartServer \/ Migrate \/ StopServer))
    PROVE  DoomedIsRight'
<1>1. TypeOK /\ installed \in Nat
  BY Constants DEF IInv, TypeOK
<1>2. DOMAIN finals' = DOMAIN finals
  BY DEF StartRun, Record, Vacuum, Verify, SyncDir, Fail, Kill, StartServer, Migrate, StopServer
<1>3. \A q \in Procs : proc'[q].doomed \subseteq proc[q].doomed
  <2>1. CASE BeginBackup(p) \/ Goes(p, "verify") \/ Goes(p, "publish") \/ Over(p) \/ Migrates(p)
    BY <1>1, <2>1, BeginFacts, GoesFacts, OverFacts, MigratesFacts DEF Steps
  <2>2. CASE proc' = [proc EXCEPT ![p] = Resting]
    BY <1>1, <2>2, RestingType DEF TypeOK
  <2>3. CASE SyncDir(p)
    <3> DEFINE onto == IF p = Server THEN [proc[p] EXCEPT !.step = "migrate", !.stamp = 0]
                       ELSE [proc[p] EXCEPT !.step = "list"]
    <3>1. onto.doomed = proc[p].doomed
      BY <1>1 DEF TypeOK, Process
    <3>2. CASE proc' = [proc EXCEPT ![p] = onto]
      <4> HIDE DEF onto
      <4> QED BY <1>1, <3>1, <3>2 DEF TypeOK
    <3> QED BY <2>1, <2>3, <3>2 DEF SyncDir
  <2>4. CASE p = Server /\ StartServer
    <3>1. CASE proc' = [proc EXCEPT ![Server] = [Resting EXCEPT !.step = "migrate", !.knows = installed,
                                                                !.at = db.version]]
      BY <1>1, <3>1, <2>4 DEF Resting, TypeOK
    <3> QED BY <2>1, <2>4, <3>1 DEF StartServer
  <2>5. CASE p = Server /\ Migrate
    <3>1. CASE proc' = [proc EXCEPT ![Server] = [Resting EXCEPT !.step = "serving", !.knows = proc[Server].knows]]
      BY <1>1, <3>1, <2>5 DEF Resting, TypeOK
    <3> QED BY <2>1, <2>5, <3>1 DEF Migrate
  <2> QED BY <2>1, <2>2, <2>3, <2>4, <2>5
          DEF StartRun, Record, Vacuum, Verify, Fail, Kill, StopServer, GivesUp
<1> QED BY <1>2, <1>3, SameStamps

LEMMA NextDoomed ==
    ASSUME IInv, [Next]_vars
    PROVE  DoomedIsRight'
<1>1. ASSUME NEW p \in Runs, StartRun(p) \/ ListSnapshots(p) \/ RemoveSnapshot(p) \/ Record(p)
      PROVE  DoomedIsRight'
  BY <1>1, Constants, StepDoomed, ListDoomed, RemoveDoomed
<1>2. ASSUME NEW p \in Procs, Vacuum(p) \/ Verify(p) \/ Publish(p) \/ SyncDir(p) \/ Fail(p) \/ Kill(p)
      PROVE  DoomedIsRight'
  BY <1>2, StepDoomed, PublishDoomed
<1>3. CASE StartServer \/ Migrate \/ StopServer
  BY <1>3, Constants, StepDoomed
<1>4. CASE Edit \/ (\E release \in Releases : Install(release)) \/ Damage \/ Advance \/ UNCHANGED vars
  <2>1. UNCHANGED <<finals, proc>>
    BY <1>4 DEF Edit, Install, Damage, Advance, vars
  <2> QED BY <2>1, SameStamps
<1> QED BY <1>1, <1>2, <1>3, <1>4, PowerLossDoomed DEF Next

-----------------------------------------------------------------------------
LEMMA Invariance == Spec => []IInv
<1>1. IInv /\ [Next]_vars => IInv'
  BY NextFiles, NextRollback, NextDoomed DEF RollbackIsRight, IInv
<1> QED BY <1>1, InitIsRight, PTL DEF Spec

(* What the processes and the files are, for any instance.                 *)
THEOREM TypeCorrect == Spec => []TypeOK
<1>1. IInv => TypeOK
  BY DEF IInv
<1> QED BY <1>1, Invariance, PTL

(* takeBackup writes aside, verifies, syncs and renames, in this order:    *)
(* what has a final name is whole and sound, after any crash.              *)
THEOREM FinalsAreWhole == Spec => []FinalIsWhole
<1>1. IInv => FinalIsWhole
  BY DEF IInv, FilesAreRight, FinalIsSafe, FinalIsWhole
<1> QED BY <1>1, Invariance, PTL

(* removeStaleTemps takes no file of a run that is younger than the limit. *)
THEOREM LiveTempsStay == Spec => []LiveTempStays
<1>1. IInv => LiveTempStays
  BY DEF IInv, FilesAreRight, TempIsRight, LiveTempStays, Writing
<1> QED BY <1>1, Invariance, PTL

(* preMigrationSnapshot: behind every schema version a server has left     *)
(* there is a whole copy of what the family had under it.                  *)
THEOREM RollbackIsThere == Spec => []RollbackThere
<1>1. IInv => RollbackThere
  <2> SUFFICES ASSUME IInv, ~unhooked, NEW v \in DOMAIN served, v < db.version
               PROVE  \E f \in DOMAIN finals :
                         /\ f[1] = "pre-migration"
                         /\ finals[f].version = v /\ finals[f].edits = served[v]
                         /\ finals[f].whole /\ finals[f].sound
    BY DEF RollbackThere
  <2>1. Copied(v)
    BY DEF IInv, CopiesAreThere
  <2> QED BY <2>1 DEF Copied, IsCopyOf, IInv, FilesAreRight, FinalIsSafe
<1> QED BY <1>1, Invariance, PTL

(* pruneBackups: a removal leaves every period that is to be kept with a   *)
(* snapshot, whatever other runs have added or removed since the listing.  *)
THEOREM PruningKeepsPeriods == Spec => PruneKeepsPeriods
<1>1. ASSUME IInv, NEW p \in Runs, RemoveSnapshot(p), NEW k \in Retention
      PROVE  NewestPeriods(Stamps, k[1], k[2]) \subseteq {Period(s, k[1]) : s \in Stamps'}
  <2>1. TypeOK /\ IsFiniteSet(Stamps) /\ p \in Procs /\ k[2] \in Nat
    BY <1>1, Constants DEF IInv, DoomedIsRight
  <2>2. CASE UNCHANGED finals
    <3>1. Stamps' = Stamps
      BY <2>2 DEF Stamps
    <3> QED BY <3>1 DEF NewestPeriods
  <2>3. ASSUME NEW t \in proc[p].doomed, t \in Stamps, finals' = Drop(finals, {<<"hourly", t>>}),
               NEW d \in NewestPeriods(Stamps, k[1], k[2])
        PROVE  d \in {Period(s, k[1]) : s \in Stamps'}
    <3>1. Stamps' = Stamps \ {t}
      BY <2>1, <2>3, RemovedStamp
    <3>2. PICK u \in Stamps : d = Period(u, k[1])
      BY <2>3 DEF NewestPeriods
    <3>3. Dispensable(t, k, Stamps)
      BY <1>1, <2>1, <2>3 DEF IInv, DoomedIsRight
    <3>4. CASE u # t
      BY <3>1, <3>2, <3>4
    <3>5. CASE u = t
      <4>1. Cardinality(Newer(Stamps, k[1], d)) < k[2]
        BY <2>3 DEF NewestPeriods, Newer, Periods
      <4>2. Cardinality(Newer(Stamps, k[1], d)) \in Nat
        BY <2>1, NewerIsFinite
      <4>3. ~(Cardinality(Newer(Stamps, k[1], d)) >= k[2])
        BY <2>1, <4>1, <4>2
      <4>4. PICK w \in Stamps : w > t /\ Period(w, k[1]) = d
        BY <3>2, <3>3, <3>5, <4>3 DEF Dispensable
      <4>5. w # t
        BY <2>1, <4>4 DEF Stamps, TypeOK, Dirs
      <4> QED BY <3>1, <4>4, <4>5
    <3> QED BY <3>4, <3>5
  <2> QED BY <1>1, <2>1, <2>2, <2>3, RemoveFacts
<1>2. IInv /\ [Next]_vars =>
         [\A p \in Runs : RemoveSnapshot(p) =>
             \A k \in Retention :
                NewestPeriods(Stamps, k[1], k[2]) \subseteq {Period(s, k[1]) : s \in Stamps'}]_vars
  BY <1>1
<1> QED BY <1>2, Invariance, PTL DEF Spec, PruneKeepsPeriods
=============================================================================
