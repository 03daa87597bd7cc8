------------------------------ MODULE CronProofs ------------------------------
(* Proofs about Cron: as long as no lock of a living process reaches its timeout,
   the tick lock excludes, an occurrence and a request are run at most once, and a
   repeat limit is respected.                                                *)
EXTENDS Cron, TLAPS

-----------------------------------------------------------------------------
(* The inductive invariant.                                                  *)

BeforeRun == {"job_opened", "job_stale", "job_removed", "locked", "advance"}
InRun == {"running", "mark"}
WithJob == BeforeRun \cup InRun \cup {"release"}
Ticking == {"tick_opened", "due", "loop"} \cup WithJob
TickerPc == Ticking \cup {"idle", "tick_stale", "tick_removed", "down"}

(* The types of all variables; a process that can start again has a start left. *)
FilesTyped ==
  /\ clock \in [Job -> 0..MaxOccurrence] /\ file \in Jobs /\ snapshot \in [Process -> Jobs]
  /\ edits \in Nat /\ raced \in BOOLEAN

LocksTyped ==
  tickLock \in Locks /\ jobLock \in [Job -> Locks] /\ seen \in [Ticker -> Locks]

PlacesTyped ==
  /\ pc \in [Process -> TickerPc \cup {"edit"}]
  /\ todo \in [Ticker -> SUBSET Job] /\ current \in [Ticker -> Job \cup {NoJob}]
  /\ plain \subseteq Legacy
  /\ listed \in [Ticker -> [Job -> 0..MaxOccurrence]] /\ pid \in [Ticker -> 1..MaxStarts]
  /\ \A p \in Ticker : /\ pc[p] \in TickerPc
                       /\ pc[p] = "down" => pid[p] < MaxStarts
                       /\ pc[p] \in WithJob => current[p] \in Job

CountsTyped ==
  /\ runs \in [Job -> Nat] /\ runsOf \in [Job -> [Occurrence -> Nat]]
  /\ requests \in [Job -> Nat] /\ requestRuns \in [Job -> Nat]
  /\ revived \in [Job -> Nat] /\ unrecorded \in [Job -> Nat]
  /\ thrown \in [Job -> [0..MaxOccurrence -> Nat]]

TypeInv == FilesTyped /\ LocksTyped /\ PlacesTyped /\ CountsTyped

(* The incarnation that wrote a lock is gone for good.                       *)
Gone(lock) ==
  \/ lock.pid < pid[lock.owner]
  \/ lock.pid = pid[lock.owner] /\ pc[lock.owner] = "down"

(* Only the locks of dead processes grow old, so only theirs are found stale, and
   the tick lock is that of the process that ticks.                          *)
LockInv ==
  /\ tickLock # NoLock => /\ tickLock.pid <= pid[tickLock.owner]
                          /\ tickLock.old => Gone(tickLock)
  /\ \A p \in Ticker : pc[p] = "tick_stale" => seen[p] # NoLock /\ Gone(seen[p])
  /\ ~raced => \A p \in Ticker : pc[p] \in Ticking => Mine(tickLock, p)

(* A ticker has listed job j and has not run it yet.                         *)
Pending(p, j) == j \in todo[p] \/ (pc[p] \in BeforeRun /\ current[p] = j)

(* A ticker runs job j; a run of it is under way; so is one without a job lock,
   listed for k, which has advanced nothing and may throw.                    *)
RunsJob(p, j) == pc[p] \in InRun /\ current[p] = j
Running(j) == \E p \in Ticker : RunsJob(p, j)
Uncaught(j, k) == \E p \in plain : RunsJob(p, j) /\ listed[p][j] = k

(* What a ticker has listed is what it still has to do.                      *)
WorkOf(p) ==
  /\ pc[p] \notin WithJob \cup {"loop"} => todo[p] = {}
  /\ pc[p] \in WithJob => current[p] \notin todo[p]
  /\ p \in plain => pc[p] \in InRun \cup {"loop"}
  /\ \A j \in Job : listed[p][j] <= clock[j]

WorkInv == \A p \in Ticker : WorkOf(p)

(* An occurrence that is still to come has not been run; one that is next, or that a
   ticker still has to run, was run only by runs that threw.                  *)
RunsInv ==
  \A j \in Job : \A k \in Occurrence :
    /\ runsOf[j][k] <= 1 + thrown[j][k]
    /\ k > clock[j] => runsOf[j][k] = 0
    /\ file[j].next = k /\ ~Uncaught(j, k) => runsOf[j][k] <= thrown[j][k]
    /\ \A p \in Ticker : Pending(p, j) /\ listed[p][j] = k => runsOf[j][k] <= thrown[j][k]

(* A request that the file or a ticker's list still holds was run only by runs that
   threw.                                                                     *)
Owed(j) ==
  \/ file[j].requested /\ ~Uncaught(j, None)
  \/ \E p \in Ticker : Pending(p, j) /\ listed[p][j] = None

RequestInv ==
  \A j \in Job :
    /\ requestRuns[j] <= requests[j] + thrown[j][None]
    /\ Owed(j) => requestRuns[j] < requests[j] + thrown[j][None]
    /\ file[j].status = "absent" => ~file[j].requested /\ file[j].next = None

(* Every run was recorded, ended without a record or is under way; a job that is not
   completed has a run left, and only such a job is listed.                   *)
Bound(j) == Limit(j) + unrecorded[j] + revived[j]
Waits(j) == \E p \in Ticker : Pending(p, j)

RepeatOf(j) ==
  /\ runs[j] <= Bound(j)
  /\ Waits(j) => runs[j] < Bound(j)
  /\ Waits(j) \/ Running(j) => file[j].status # "completed"
  /\ file[j].status # "absent" =>
       /\ runs[j] = file[j].runCount + unrecorded[j] + (IF Running(j) THEN 1 ELSE 0)
       /\ file[j].runCount <= Limit(j) + revived[j]
       /\ file[j].status # "completed" => file[j].runCount < Limit(j) + revived[j]

RepeatInv == \A j \in Job : Limit(j) > 0 => RepeatOf(j)

(* What the jobs file promises as long as no process wrote over another's work. *)
FileInv == ~raced => RunsInv /\ RequestInv /\ RepeatInv

-----------------------------------------------------------------------------
(* What the operators of the model return.                                   *)

JobRecord == [status : {"absent", "active", "paused", "completed"},
              next : 0..(MaxOccurrence + 1), requested : BOOLEAN, runCount : Nat]

LEMMA JobRecords == Jobs = [Job -> JobRecord] /\ Absent \in JobRecord
  BY CronAssumption DEF Jobs, JobRecord, Absent, None

LEMMA NextType ==
  ASSUME TypeInv, NEW j \in Job
  PROVE  /\ NextOccurrence(j) = clock[j] + 1
         /\ NextOccurrence(j) \in 1..(MaxOccurrence + 1)
  BY CronAssumption DEF TypeInv, FilesTyped, NextOccurrence

LEMMA RepeatType == ASSUME NEW j \in Job PROVE Repeat[j] \in Nat
  BY CronAssumption

LEMMA AdvanceType ==
  ASSUME TypeInv, NEW j \in Job, NEW r \in JobRecord
  PROVE  AdvanceNextRun(r, j) \in JobRecord
<1>1. ASSUME NEW n \in 0..(MaxOccurrence + 1)
      PROVE  [r EXCEPT !.next = n, !.requested = FALSE] \in JobRecord
  BY DEF JobRecord
<1>2. None \in 0..(MaxOccurrence + 1)
  BY CronAssumption DEF None
<1>3. NextOccurrence(j) \in 0..(MaxOccurrence + 1)
  BY NextType
<1> QED BY <1>1, <1>2, <1>3 DEF AdvanceNextRun

LEMMA MarkType ==
  ASSUME TypeInv, NEW j \in Job, NEW r \in JobRecord
  PROVE  MarkRunResult(r, j) \in JobRecord
<1>1. CASE r.status = "absent"
  BY <1>1 DEF MarkRunResult
<1>2. CASE r.status # "absent"
  <2> DEFINE over == (Repeat[j] > 0 /\ r.runCount + 1 >= Repeat[j]) \/ j \in Once
             next == CASE over -> None
                       [] ~over /\ r.next > clock[j] -> r.next
                       [] OTHER -> NextOccurrence(j)
  <2>1. MarkRunResult(r, j) = [status |-> IF over THEN "completed" ELSE r.status, next |-> next,
                               requested |-> FALSE, runCount |-> r.runCount + 1]
    BY <1>2 DEF MarkRunResult
  <2>2. next \in 0..(MaxOccurrence + 1)
    BY NextType, CronAssumption DEF None, JobRecord
  <2> HIDE DEF next, over
  <2> QED BY <2>1, <2>2 DEF JobRecord
<1> QED BY <1>1, <1>2

LEMMA CommandType ==
  ASSUME TypeInv, NEW j \in Job, NEW c \in Commands, NEW r \in JobRecord
  PROVE  Command(r, j, c) \in JobRecord
<1>1. CASE r.status = "absent"
  BY <1>1 DEF Command
<1>2. CASE r.status # "absent" /\ c = "pause"
  BY <1>2 DEF Command, JobRecord
<1>3. CASE r.status # "absent" /\ c = "resume"
  <2>1. NextOccurrence(j) \in 0..(MaxOccurrence + 1)
    BY NextType
  <2>2. [r EXCEPT !.status = "active", !.next = NextOccurrence(j)] \in JobRecord
    BY <2>1 DEF JobRecord
  <2> QED BY <1>3, <2>2 DEF Command
<1>4. CASE r.status # "absent" /\ c = "requestRun"
  BY <1>4 DEF Command, JobRecord
<1>5. CASE r.status # "absent" /\ c = "remove"
  BY <1>5, JobRecords DEF Command
<1> QED BY <1>1, <1>2, <1>3, <1>4, <1>5 DEF Commands

LockFile == [owner : Ticker, pid : 1..MaxStarts, written : BOOLEAN, old : BOOLEAN]

LEMMA LockFiles ==
  /\ Locks = {NoLock} \cup LockFile /\ NoLock \notin LockFile
  BY CronAssumption DEF Locks, LockFile

LEMMA OpenedType ==
  ASSUME TypeInv, NEW p \in Ticker
  PROVE  Opened(p) \in LockFile
  BY DEF TypeInv, PlacesTyped, Opened, LockFile

-----------------------------------------------------------------------------
(* Types.                                                                    *)

LEMMA InitType == Init => TypeInv
<1> SUFFICES ASSUME Init PROVE TypeInv
  OBVIOUS
<1>1. file \in Jobs
  <2>1. [status : {"active", "paused"}, next : {1}, requested : {FALSE}, runCount : {0}]
          \subseteq JobRecord
    <3>1. 1 \in 0..(MaxOccurrence + 1) /\ 0 \in Nat
      BY CronAssumption
    <3> QED BY <3>1 DEF JobRecord
  <2> QED BY <2>1, JobRecords DEF Init
<1>2. snapshot \in [Process -> Jobs]
  BY JobRecords DEF Init, NothingLoaded
<1>3. /\ clock \in [Job -> 0..MaxOccurrence] /\ pid \in [Ticker -> 1..MaxStarts]
      /\ listed \in [Ticker -> [Job -> 0..MaxOccurrence]]
      /\ todo \in [Ticker -> SUBSET Job] /\ current \in [Ticker -> Job \cup {NoJob}]
      /\ plain \subseteq Legacy
  BY CronAssumption DEF Init, NothingListed, None
<1>4. tickLock \in Locks /\ jobLock \in [Job -> Locks] /\ seen \in [Ticker -> Locks]
  BY LockFiles DEF Init
<1>5. \A p \in Ticker : pc[p] = "idle"
  BY DEF Init, Process
<1>6. pc \in [Process -> TickerPc \cup {"edit"}] /\ edits \in Nat /\ raced \in BOOLEAN
  BY DEF Init, TickerPc
<1>7. /\ runs \in [Job -> Nat] /\ runsOf \in [Job -> [Occurrence -> Nat]]
      /\ requests \in [Job -> Nat] /\ requestRuns \in [Job -> Nat]
      /\ revived \in [Job -> Nat] /\ unrecorded \in [Job -> Nat]
      /\ thrown \in [Job -> [0..MaxOccurrence -> Nat]]
  BY DEF Init
<1>8. \A p \in Ticker : pc[p] \in TickerPc /\ pc[p] # "down" /\ pc[p] \notin WithJob
  BY <1>5 DEF TickerPc, WithJob, BeforeRun, InRun
<1> QED BY <1>1, <1>2, <1>3, <1>4, <1>6, <1>7, <1>8
        DEF TypeInv, FilesTyped, LocksTyped, PlacesTyped, CountsTyped, Init

LEMMA TypesHold == TypeInv => TypeOK
  BY DEF TypeInv, FilesTyped, LocksTyped, PlacesTyped, TypeOK, WithJob, BeforeRun, InRun

LEMMA LockWritten ==
  ASSUME NEW l \in Locks, l # NoLock
  PROVE  [l EXCEPT !.written = TRUE] \in Locks /\ [l EXCEPT !.old = TRUE] \in Locks
  BY LockFiles DEF LockFile

LEMMA SaveTyped ==
  ASSUME TypeInv, NEW p \in Process, NEW jobs \in Jobs, Save(p, jobs)
  PROVE  file' \in Jobs /\ snapshot' \in [Process -> Jobs] /\ raced' \in BOOLEAN
  BY JobRecords DEF Save, TypeInv, FilesTyped, NothingLoaded

(* A counter for each element, or for each pair, that goes up by one.         *)
LEMMA Counted ==
  ASSUME NEW A, NEW f \in [A -> Nat], NEW a \in A, NEW g, g = [f EXCEPT ![a] = @ + 1]
  PROVE  g \in [A -> Nat] /\ \A x \in A : g[x] = f[x] + (IF x = a THEN 1 ELSE 0)
<1>1. \A x \in A : f[x] \in Nat
  OBVIOUS
<1> QED BY <1>1

LEMMA PairCounted ==
  ASSUME NEW A, NEW B, NEW f \in [A -> [B -> Nat]], NEW a \in A, NEW b \in B,
         NEW g, g = [f EXCEPT ![a][b] = @ + 1]
  PROVE  /\ g \in [A -> [B -> Nat]]
         /\ \A x \in A, y \in B : g[x][y] = f[x][y] + (IF x = a /\ y = b THEN 1 ELSE 0)
<1> DEFINE row == [f[a] EXCEPT ![b] = @ + 1]
<1>1. f[a] \in [B -> Nat]
  OBVIOUS
<1>2. row \in [B -> Nat] /\ \A y \in B : row[y] = f[a][y] + (IF y = b THEN 1 ELSE 0)
  BY <1>1, Counted
<1>3. g = [f EXCEPT ![a] = row]
  OBVIOUS
<1> HIDE DEF row
<1>4. g \in [A -> [B -> Nat]] /\ g[a] = row /\ \A x \in A : x # a => g[x] = f[x]
  BY <1>2, <1>3
<1>5. \A x \in A, y \in B : f[x][y] \in Nat
  OBVIOUS
<1> QED BY <1>2, <1>4, <1>5

LEMMA CountsStay == CountsTyped /\ UNCHANGED counts => CountsTyped'
  BY DEF CountsTyped, counts

LEMMA CountRunTyped ==
  ASSUME TypeInv, NEW j \in Job, NEW k \in 0..MaxOccurrence, CountRun(j, k)
  PROVE  /\ runs' \in [Job -> Nat] /\ runsOf' \in [Job -> [Occurrence -> Nat]]
         /\ requestRuns' \in [Job -> Nat]
<1>1. runs' \in [Job -> Nat]
  BY Counted DEF CountRun, TypeInv, CountsTyped
<1>2. CASE k = None
  <2>1. requestRuns' = [requestRuns EXCEPT ![j] = @ + 1] /\ UNCHANGED runsOf
    BY <1>2 DEF CountRun
  <2>2. requestRuns' \in [Job -> Nat]
    BY <2>1, Counted DEF TypeInv, CountsTyped
  <2> QED BY <1>1, <2>1, <2>2 DEF TypeInv, CountsTyped
<1>3. CASE k # None
  <2>1. k \in Occurrence
    BY <1>3, CronAssumption DEF None, Occurrence
  <2>2. runsOf' = [runsOf EXCEPT ![j][k] = @ + 1] /\ UNCHANGED requestRuns
    BY <1>3 DEF CountRun
  <2>3. runsOf \in [Job -> [Occurrence -> Nat]] /\ requestRuns \in [Job -> Nat]
    BY DEF TypeInv, CountsTyped
  <2>4. runsOf' \in [Job -> [Occurrence -> Nat]]
    BY <2>1, <2>2, <2>3, PairCounted
  <2> QED BY <1>1, <2>2, <2>3, <2>4
<1> QED BY <1>2, <1>3

(* A ticker's place, whichever of its variables move.                        *)
LEMMA PlaceTyped ==
  ASSUME TypeInv, NEW p \in Ticker, NEW l \in TickerPc, Goto(p, l),
         todo' \in [Ticker -> SUBSET Job], current' \in [Ticker -> Job \cup {NoJob}],
         listed' \in [Ticker -> [Job -> 0..MaxOccurrence]], plain' \subseteq Legacy,
         pid' \in [Ticker -> 1..MaxStarts],
         \A q \in Ticker \ {p} : current'[q] = current[q] /\ pid'[q] = pid[q],
         l = "down" => pid'[p] < MaxStarts, l \in WithJob => current'[p] \in Job
  PROVE  PlacesTyped'
<1>1. pc' \in [Process -> TickerPc \cup {"edit"}] /\ pc'[p] = l
  BY DEF TypeInv, PlacesTyped, Goto, Process
<1>2. \A q \in Ticker \ {p} : pc'[q] = pc[q]
  BY DEF TypeInv, PlacesTyped, Goto, Process
<1> QED BY <1>1, <1>2 DEF TypeInv, PlacesTyped

LEMMA NextTyped ==
  ASSUME TypeInv, [Next]_vars
  PROVE  TypeInv'
<1> USE CountsStay DEF TypeInv, FilesTyped, LocksTyped, PlacesTyped,
                       vars, jobVars, lockVars, procVars, history
<1>1. CASE UNCHANGED vars
  BY <1>1
<1>2. ASSUME NEW p \in Ticker, OpenTickLock(p) PROVE TypeInv'
  BY <1>2, LockFiles, OpenedType, CronAssumption
  DEF OpenTickLock, Goto, Load, TakeJob, NextJob, Process,
      TickerPc, Ticking, WithJob, BeforeRun, InRun
<1>3. ASSUME NEW p \in Ticker, FindStaleTickLock(p) PROVE TypeInv'
  BY <1>3, LockFiles, OpenedType, CronAssumption
  DEF FindStaleTickLock, Goto, Load, TakeJob, NextJob, Process,
      TickerPc, Ticking, WithJob, BeforeRun, InRun
<1>4. ASSUME NEW p \in Ticker, RemoveStaleTickLock(p) PROVE TypeInv'
  BY <1>4, LockFiles, OpenedType, CronAssumption
  DEF RemoveStaleTickLock, Goto, Load, TakeJob, NextJob, Process,
      TickerPc, Ticking, WithJob, BeforeRun, InRun
<1>5. ASSUME NEW p \in Ticker, EndTick(p) PROVE TypeInv'
  BY <1>5, LockFiles, OpenedType, CronAssumption
  DEF EndTick, RemoveTickLock, Goto, Load, TakeJob, NextJob, Process,
      TickerPc, Ticking, WithJob, BeforeRun, InRun
<1>6. ASSUME NEW p \in Ticker, OpenJobLock(p) PROVE TypeInv'
  <2>1. LocksTyped'
    BY <1>6, LockFiles, OpenedType DEF OpenJobLock
  <2>2. PlacesTyped'
    <3>1. PICK j \in Job : TakeJob(p, j, "job_opened")
      BY <1>6 DEF OpenJobLock
    <3>2. UNCHANGED <<plain, listed, pid>>
      BY <1>6 DEF OpenJobLock
    <3> QED BY <3>1, <3>2, PlaceTyped DEF TakeJob, TickerPc, Ticking, WithJob, BeforeRun
  <2> QED BY <1>6, <2>1, <2>2 DEF OpenJobLock
<1>7. ASSUME NEW p \in Ticker, FindStaleJobLock(p) PROVE TypeInv'
  <2>1. LocksTyped'
    BY <1>7 DEF FindStaleJobLock
  <2>2. PlacesTyped'
    <3>1. PICK j \in Job : TakeJob(p, j, "job_stale")
      BY <1>7 DEF FindStaleJobLock
    <3>2. /\ Goto(p, "job_stale") /\ current' = [current EXCEPT ![p] = j]
          /\ todo' = [todo EXCEPT ![p] = @ \ {j}] /\ UNCHANGED <<listed, plain, pid>>
      BY <1>7, <3>1 DEF FindStaleJobLock, TakeJob
    <3>3. "job_stale" \in TickerPc
      BY DEF TickerPc, Ticking, WithJob, BeforeRun
    <3>4. todo' \in [Ticker -> SUBSET Job] /\ current' \in [Ticker -> Job \cup {NoJob}]
      BY <3>2
    <3> QED BY <3>2, <3>3, <3>4, PlaceTyped
  <2> QED BY <1>7, <2>1, <2>2 DEF FindStaleJobLock
<1>8. ASSUME NEW p \in Ticker, RemoveStaleJobLock(p) PROVE TypeInv'
  BY <1>8, LockFiles, OpenedType, CronAssumption
  DEF RemoveStaleJobLock, Goto, Load, TakeJob, NextJob, Process,
      TickerPc, Ticking, WithJob, BeforeRun, InRun
<1>9. ASSUME NEW p \in Ticker, AdvanceLoad(p) PROVE TypeInv'
  BY <1>9, LockFiles, OpenedType, CronAssumption
  DEF AdvanceLoad, Goto, Load, TakeJob, NextJob, Process,
      TickerPc, Ticking, WithJob, BeforeRun, InRun
<1>10. ASSUME NEW p \in Ticker, MarkLoad(p) PROVE TypeInv'
  BY <1>10, LockFiles, OpenedType, CronAssumption
  DEF MarkLoad, Goto, Load, TakeJob, NextJob, Process,
      TickerPc, Ticking, WithJob, BeforeRun, InRun
<1>11. ASSUME NEW p \in Ticker, ReleaseJobLock(p) PROVE TypeInv'
  BY <1>11, LockFiles, OpenedType, CronAssumption
  DEF ReleaseJobLock, Release, Goto, Load, TakeJob, NextJob, Process,
      TickerPc, Ticking, WithJob, BeforeRun, InRun
<1>12. ASSUME NEW p \in Ticker, Restart(p) PROVE TypeInv'
  <2>1. pid[p] < MaxStarts /\ pid[p] + 1 \in 1..MaxStarts
    BY <1>12, CronAssumption DEF Restart
  <2>2. pid' \in [Ticker -> 1..MaxStarts] /\ \A q \in Ticker \ {p} : pid'[q] = pid[q]
    BY <1>12, <2>1 DEF Restart
  <2>3. PlacesTyped'
    BY <1>12, <2>2, PlaceTyped DEF Restart, TickerPc, WithJob, BeforeRun, InRun
  <2> QED BY <1>12, <2>3 DEF Restart
<1>13. ASSUME NEW p \in Ticker, ReopenTickLock(p) PROVE TypeInv'
  <2>1. LocksTyped'
    BY <1>13, LockFiles, OpenedType DEF ReopenTickLock
  <2>2. PlacesTyped'
    BY <1>13 DEF ReopenTickLock, Goto, Process, TickerPc, Ticking, WithJob, BeforeRun,
       InRun
  <2> QED BY <1>13, <2>1, <2>2 DEF ReopenTickLock
<1>14. ASSUME NEW p \in Ticker, WriteTickLock(p) PROVE TypeInv'
  <2>1. LocksTyped'
    BY <1>14, LockWritten DEF WriteTickLock, Mine
  <2>2. PlacesTyped'
    BY <1>14 DEF WriteTickLock, Goto, Process, TickerPc, Ticking, WithJob, BeforeRun,
       InRun
  <2> QED BY <1>14, <2>1, <2>2 DEF WriteTickLock
<1>15. ASSUME NEW p \in Ticker, ListDue(p) PROVE TypeInv'
  <2>1. listed' \in [Ticker -> [Job -> 0..MaxOccurrence]]
    <3> DEFINE due == [j \in Job |-> IF j \in Due(file) /\ Reached(j, file[j].next)
                                    THEN file[j].next ELSE None]
    <3>1. \A j \in Job : file[j].next \in 0..(MaxOccurrence + 1) /\ clock[j] \in 0..MaxOccurrence
      BY JobRecords DEF JobRecord
    <3>2. due \in [Job -> 0..MaxOccurrence]
      BY <3>1, CronAssumption DEF Reached, None
    <3> HIDE DEF due
    <3>3. listed' = [listed EXCEPT ![p] = due]
      BY <1>15 DEF ListDue, due
    <3> QED BY <3>2, <3>3
  <2>2. todo' \in [Ticker -> SUBSET Job] /\ plain' \subseteq Legacy /\ Goto(p, "loop")
    BY <1>15 DEF ListDue, Due
  <2>3. PlacesTyped'
    BY <1>15, <2>1, <2>2, PlaceTyped DEF ListDue, TickerPc, Ticking, WithJob, BeforeRun,
       InRun
  <2> QED BY <1>15, <2>3 DEF ListDue
<1>16. ASSUME NEW p \in Ticker, SkipLockedJob(p) PROVE TypeInv'
  <2>1. PICK j \in Job : /\ listed' = [listed EXCEPT ![p][j] = None]
                        /\ todo' = [todo EXCEPT ![p] = @ \ {j}]
    BY <1>16 DEF SkipLockedJob
  <2>2. None \in 0..MaxOccurrence
    BY CronAssumption DEF None
  <2>3. listed' \in [Ticker -> [Job -> 0..MaxOccurrence]] /\ todo' \in [Ticker -> SUBSET Job]
    BY <2>1, <2>2
  <2> QED BY <1>16, <2>3 DEF SkipLockedJob
<1>17. ASSUME NEW p \in Ticker, ReopenJobLock(p) PROVE TypeInv'
  <2>1. current[p] \in Job
    BY <1>17 DEF ReopenJobLock, TickerPc, Ticking, WithJob, BeforeRun, InRun
  <2>2. CASE jobLock[current[p]] = NoLock
    <3>1. LocksTyped'
      BY <1>17, <2>1, <2>2, LockFiles, OpenedType DEF ReopenJobLock
    <3>2. PlacesTyped'
      BY <1>17, <2>1, <2>2 DEF ReopenJobLock, Goto, Process, TickerPc, Ticking, WithJob,
         BeforeRun, InRun
    <3> QED BY <1>17, <3>1, <3>2 DEF ReopenJobLock
  <2>3. CASE jobLock[current[p]] # NoLock
    <3>1. NothingListed \in [Job -> 0..MaxOccurrence]
      BY CronAssumption DEF NothingListed, None
    <3>2. todo' \in [Ticker -> SUBSET Job] /\ listed' \in [Ticker -> [Job -> 0..MaxOccurrence]]
      BY <1>17, <2>3, <3>1 DEF ReopenJobLock
    <3>3. /\ Goto(p, "loop") /\ current' = [current EXCEPT ![p] = NoJob]
          /\ UNCHANGED <<plain, pid>>
      BY <1>17, <2>3 DEF ReopenJobLock, NextJob
    <3>4. "loop" \in TickerPc /\ "loop" \notin WithJob
      BY DEF TickerPc, Ticking, WithJob, BeforeRun, InRun
    <3>5. PlacesTyped'
      BY <3>2, <3>3, <3>4, PlaceTyped
    <3> QED BY <1>17, <2>3, <3>5 DEF ReopenJobLock
  <2> QED BY <2>2, <2>3
<1>18. ASSUME NEW p \in Ticker, WriteJobLock(p) PROVE TypeInv'
  <2>1. current[p] \in Job
    BY <1>18 DEF WriteJobLock, TickerPc, Ticking, WithJob, BeforeRun, InRun
  <2>2. LocksTyped'
    BY <1>18, <2>1, LockWritten DEF WriteJobLock, Mine
  <2>3. PlacesTyped'
    BY <1>18, <2>1 DEF WriteJobLock, Goto, Process, TickerPc, Ticking, WithJob,
       BeforeRun, InRun
  <2> QED BY <1>18, <2>2, <2>3 DEF WriteJobLock
<1>19. ASSUME NEW p \in Ticker, AdvanceSaveAndRun(p) PROVE TypeInv'
  <2> DEFINE j == current[p]
             jobs == [snapshot[p] EXCEPT ![j] = AdvanceNextRun(@, j)]
  <2>1. j \in Job /\ p \in Process
    BY <1>19 DEF AdvanceSaveAndRun, Process, TickerPc, Ticking, WithJob, BeforeRun, InRun
  <2>2. jobs \in Jobs
    <3>1. snapshot[p] \in [Job -> JobRecord]
      BY <2>1, JobRecords
    <3>2. AdvanceNextRun(snapshot[p][j], j) \in JobRecord
      BY <2>1, <3>1, AdvanceType
    <3> QED BY <2>1, <3>1, <3>2, JobRecords
  <2>3. Save(p, jobs) /\ CountRun(j, listed[p][j])
    BY <1>19 DEF AdvanceSaveAndRun
  <2>4. FilesTyped'
    <3> HIDE DEF jobs
    <3> QED BY <1>19, <2>1, <2>2, <2>3, SaveTyped DEF AdvanceSaveAndRun
  <2>5. CountsTyped'
    <3>1. listed[p][j] \in 0..MaxOccurrence
      BY <2>1
    <3> QED BY <1>19, <2>1, <2>3, <3>1, CountRunTyped DEF AdvanceSaveAndRun, CountsTyped
  <2>6. PlacesTyped'
    BY <1>19, <2>1, PlaceTyped DEF AdvanceSaveAndRun, TickerPc, Ticking,
       WithJob, BeforeRun, InRun
  <2> QED BY <1>19, <2>4, <2>5, <2>6 DEF AdvanceSaveAndRun
<1>20. ASSUME NEW p \in Ticker, RunLegacy(p) PROVE TypeInv'
  <2>1. PICK j \in Job : TakeJob(p, j, "running") /\ CountRun(j, listed[p][j])
    BY <1>20 DEF RunLegacy
  <2>2. CountsTyped'
    <3>1. listed[p][j] \in 0..MaxOccurrence
      OBVIOUS
    <3> QED BY <1>20, <2>1, <3>1, CountRunTyped DEF RunLegacy, CountsTyped
  <2>3. PlacesTyped'
    BY <1>20, <2>1, PlaceTyped DEF RunLegacy, TakeJob, TickerPc, Ticking, WithJob,
       BeforeRun, InRun
  <2> QED BY <1>20, <2>2, <2>3 DEF RunLegacy
<1>21. ASSUME NEW p \in Ticker, MarkSave(p) PROVE TypeInv'
  <2> DEFINE j == current[p]
             jobs == [snapshot[p] EXCEPT ![j] = MarkRunResult(@, j)]
  <2>1. j \in Job /\ p \in Process
    BY <1>21 DEF MarkSave, Process, TickerPc, Ticking, WithJob, BeforeRun, InRun
  <2>2. jobs \in Jobs
    <3>1. snapshot[p] \in [Job -> JobRecord]
      BY <2>1, JobRecords
    <3>2. MarkRunResult(snapshot[p][j], j) \in JobRecord
      BY <2>1, <3>1, MarkType
    <3> QED BY <2>1, <3>1, <3>2, JobRecords
  <2>3. Save(p, jobs)
    BY <1>21 DEF MarkSave
  <2>4. FilesTyped'
    <3> HIDE DEF jobs
    <3> QED BY <1>21, <2>1, <2>2, <2>3, SaveTyped DEF MarkSave
  <2>5. PlacesTyped'
    <3>0. None \in 0..MaxOccurrence
      BY CronAssumption DEF None
    <3>1. UNCHANGED <<todo, plain, pid>> /\ listed' \in [Ticker -> [Job -> 0..MaxOccurrence]]
      BY <1>21, <2>1, <3>0 DEF MarkSave
    <3>2. CASE NextJob(p)
      <4>1. "loop" \in TickerPc /\ "loop" \notin WithJob
        BY DEF TickerPc, Ticking, WithJob, BeforeRun, InRun
      <4>2. Goto(p, "loop") /\ current' = [current EXCEPT ![p] = NoJob]
        BY <3>2 DEF NextJob
      <4> QED BY <3>1, <4>1, <4>2, PlaceTyped
    <3>3. CASE Goto(p, "release") /\ UNCHANGED current
      <4>1. "release" \in TickerPc
        BY DEF TickerPc, Ticking, WithJob
      <4> QED BY <2>1, <3>1, <3>3, <4>1, PlaceTyped
    <3> QED BY <1>21, <3>2, <3>3 DEF MarkSave
  <2> QED BY <1>21, <2>4, <2>5 DEF MarkSave
<1>22. ASSUME NEW p \in Ticker, Crash(p) \/ Throws(p) PROVE TypeInv'
  <2>0. AbandonJobs(p) /\ UNCHANGED <<clock, file, edits, pid>> /\ raced' \in BOOLEAN
    BY <1>22 DEF Crash, Throws, ThrowsBeforeRun, RunThrows, RecordThrows, RemoveTickLock,
       Release
  <2>1. FilesTyped'
    BY <2>0, JobRecords DEF AbandonJobs, NothingLoaded
  <2>2. LocksTyped'
    BY <1>22, LockFiles
    DEF Crash, Throws, ThrowsBeforeRun, RunThrows, RecordThrows, RemoveTickLock, Release
  <2>3. CountsTyped'
    <3>1. UNCHANGED <<runs, runsOf, requests, requestRuns, revived>>
      BY <1>22 DEF Crash, Throws, ThrowsBeforeRun, RunThrows, RecordThrows, counts
    <3>2. unrecorded' \in [Job -> Nat]
      <4>1. ASSUME pc[p] \in InRun, LeaveUnrecorded(p) PROVE unrecorded' \in [Job -> Nat]
        <5>1. current[p] \in Job
          BY <4>1 DEF WithJob
        <5> QED BY <4>1, <5>1, Counted DEF LeaveUnrecorded, CountsTyped
      <4>2. UNCHANGED unrecorded => unrecorded' \in [Job -> Nat]
        BY DEF CountsTyped
      <4> QED BY <1>22, <4>1, <4>2
              DEF Crash, Throws, ThrowsBeforeRun, RunThrows, RecordThrows, counts, InRun
    <3>3. thrown' \in [Job -> [0..MaxOccurrence -> Nat]]
      <4>1. CASE RunThrows(p)
        <5>1. current[p] \in Job
          BY <4>1 DEF RunThrows, WithJob, InRun
        <5>2. listed[p][current[p]] \in 0..MaxOccurrence
          BY <5>1
        <5> DEFINE j == current[p]
                   k == listed[p][j]
        <5>3. thrown' = [thrown EXCEPT ![j][k] = @ + 1]
          BY <4>1 DEF RunThrows
        <5> HIDE DEF j, k
        <5>4. j \in Job /\ k \in 0..MaxOccurrence
          BY <5>1, <5>2 DEF j, k
        <5> DEFINE marks == 0..MaxOccurrence
        <5>5. thrown \in [Job -> [marks -> Nat]] /\ k \in marks
          BY <5>4 DEF CountsTyped
        <5>6. SUFFICES thrown' \in [Job -> [marks -> Nat]]
          OBVIOUS
        <5> HIDE DEF marks
        <5> QED BY <5>3, <5>4, <5>5, PairCounted
      <4>2. CASE UNCHANGED thrown
        BY <4>2 DEF CountsTyped
      <4> QED BY <1>22, <4>1, <4>2 DEF Crash, Throws, ThrowsBeforeRun, RecordThrows, counts
    <3> QED BY <3>1, <3>2, <3>3 DEF CountsTyped
  <2>4. PlacesTyped'
    <3>1. NothingListed \in [Job -> 0..MaxOccurrence]
      BY CronAssumption DEF NothingListed, None
    <3>2. /\ listed' \in [Ticker -> [Job -> 0..MaxOccurrence]]
          /\ todo' \in [Ticker -> SUBSET Job] /\ current' \in [Ticker -> Job \cup {NoJob}]
          /\ \A q \in Ticker \ {p} : current'[q] = current[q]
      BY <2>0, <3>1 DEF AbandonJobs
    <3>3. plain' \subseteq Legacy
      BY <1>22 DEF Crash, Throws, ThrowsBeforeRun, RunThrows, RecordThrows
    <3>4. \E l \in {"down", "loop"} : Goto(p, l) /\ (l = "down" => pid[p] < MaxStarts)
      BY <1>22 DEF Crash, Throws, ThrowsBeforeRun, RunThrows, RecordThrows
    <3>5. {"down", "loop"} \subseteq TickerPc \ WithJob
      BY DEF TickerPc, Ticking, WithJob, BeforeRun, InRun
    <3> QED BY <2>0, <3>2, <3>3, <3>4, <3>5, PlaceTyped
  <2> QED BY <2>1, <2>2, <2>3, <2>4
<1>23. ASSUME NEW p \in Editor, EditLoad(p) \/ EditSave(p) PROVE TypeInv'
  <2>1. CASE EditLoad(p)
    <3>1. FilesTyped'
      <4>1. /\ UNCHANGED <<clock, file, raced>> /\ edits' = edits + 1
            /\ snapshot' = [snapshot EXCEPT ![p] = file]
        BY <2>1 DEF EditLoad, Load
      <4>2. snapshot' \in [Process -> Jobs]
        BY <4>1
      <4>3. edits' \in Nat
        BY <4>1
      <4> QED BY <4>1, <4>2, <4>3
    <3>2. PlacesTyped'
      BY <2>1, CronAssumption DEF EditLoad, Process
    <3> QED BY <2>1, <3>1, <3>2 DEF EditLoad
  <2>2. CASE EditSave(p)
    <3>1. PICK j \in Job, c \in Commands :
            /\ Save(p, [snapshot[p] EXCEPT ![j] = Command(@, j, c)])
            /\ requests' = [requests EXCEPT ![j] = @ + (IF c = "requestRun" THEN 1 ELSE 0)]
            /\ revived' = [revived EXCEPT ![j] = @ + (IF Revives(snapshot[p][j], c) THEN 1 ELSE 0)]
      BY <2>2 DEF EditSave
    <3> DEFINE jobs == [snapshot[p] EXCEPT ![j] = Command(@, j, c)]
    <3>2. jobs \in Jobs /\ p \in Process
      BY JobRecords, CommandType DEF Process
    <3>3. FilesTyped'
      <4> HIDE DEF jobs
      <4>1. Save(p, jobs)
        BY <3>1 DEF jobs
      <4> QED BY <2>2, <3>2, <4>1, SaveTyped DEF EditSave
    <3>4. CountsTyped'
      <4>1. requests' \in [Job -> Nat]
        BY <3>1 DEF CountsTyped
      <4>2. revived' \in [Job -> Nat]
        <5>1. revived \in [Job -> Nat]
          BY DEF CountsTyped
        <5>2. PICK k \in {0, 1} : revived' = [revived EXCEPT ![j] = @ + k]
          BY <3>1
        <5> QED BY <5>1, <5>2
      <4> QED BY <2>2, <4>1, <4>2 DEF EditSave, CountsTyped
    <3>5. PlacesTyped'
      <4>1. /\ UNCHANGED <<todo, current, plain, listed, pid>>
            /\ pc' = [pc EXCEPT ![p] = "idle"]
        BY <2>2 DEF EditSave
      <4>2. "idle" \in TickerPc /\ p \in Process /\ p \notin Ticker
        BY CronAssumption DEF Process, TickerPc
      <4> QED BY <4>1, <4>2
    <3> QED BY <2>2, <3>3, <3>4, <3>5 DEF EditSave
  <2> QED BY <1>23, <2>1, <2>2
<1>24. ASSUME NEW j \in Job, OccurrenceComesDue(j) PROVE TypeInv'
  <2>1. clock' \in [Job -> 0..MaxOccurrence]
    <3>1. clock[j] + 1 \in 0..MaxOccurrence
      BY <1>24, CronAssumption DEF OccurrenceComesDue
    <3> QED BY <1>24, <3>1 DEF OccurrenceComesDue
  <2> QED BY <1>24, <2>1 DEF OccurrenceComesDue
<1>25. ASSUME NEW j \in Job, JobLockTimesOut(j) PROVE TypeInv'
  BY <1>25, LockWritten DEF JobLockTimesOut, Ageing
<1>26. CASE TickLockTimesOut
  BY <1>26, LockWritten DEF TickLockTimesOut, Ageing
<1> QED BY <1>1, <1>2, <1>3, <1>4, <1>5, <1>6, <1>7, <1>8, <1>9, <1>10, <1>11, <1>12,
           <1>13, <1>14, <1>15, <1>16, <1>17, <1>18, <1>19, <1>20, <1>21, <1>22, <1>23,
           <1>24, <1>25, <1>26, Zenon
        DEF Next, Tick

-----------------------------------------------------------------------------
(* The tick lock.                                                            *)

LEMMA InitLocks == Init => LockInv
  BY DEF Init, LockInv, Process, Ticking, WithJob, BeforeRun, InRun

(* At most one process ticks.                                                *)
LEMMA OneTicks ==
  ASSUME LockInv, ~raced, NEW p \in Ticker, NEW q \in Ticker,
         pc[p] \in Ticking, pc[q] \in Ticking
  PROVE  p = q
  BY DEF LockInv, Mine

(* A ticker that neither takes nor drops the tick lock.                      *)
LEMMA TickerMoves ==
  ASSUME TypeInv, LockInv, NEW p \in Ticker, NEW l, Goto(p, l), UNCHANGED <<tickLock, pid>>,
         pc[p] # "down", l # "tick_stale", l \in Ticking => pc[p] \in Ticking,
         \A q \in Ticker \ {p} : seen'[q] = seen[q], raced => raced'
  PROVE  LockInv'
<1>1. /\ pc'[p] = l /\ \A q \in Ticker \ {p} : pc'[q] = pc[q]
  BY DEF Goto, TypeInv, PlacesTyped, Process
<1>2. \A lock \in LockFile : Gone(lock) => Gone(lock)'
  BY <1>1 DEF Gone, LockFile
<1>3. tickLock # NoLock => tickLock \in LockFile
  BY LockFiles DEF TypeInv, LocksTyped
<1>4. \A q \in Ticker : seen[q] # NoLock => seen[q] \in LockFile
  BY LockFiles DEF TypeInv, LocksTyped
<1>5. tickLock' # NoLock => /\ tickLock'.pid <= pid'[tickLock'.owner]
                            /\ tickLock'.old => Gone(tickLock)'
  BY <1>2, <1>3 DEF LockInv
<1>6. \A q \in Ticker : pc'[q] = "tick_stale" => seen'[q] # NoLock /\ Gone(seen[q])'
  BY <1>1, <1>2, <1>4 DEF LockInv
<1>7. ~raced' => \A q \in Ticker : pc'[q] \in Ticking => Mine(tickLock, q)'
  BY <1>1 DEF LockInv, Mine
<1> QED BY <1>1, <1>5, <1>6, <1>7 DEF LockInv

(* The tick lock becomes that of a process that ticks from then on.            *)
LEMMA TickerOpens ==
  ASSUME TypeInv, LockInv, NEW p \in Ticker, pc[p] \in {"idle", "tick_removed"},
         tickLock = NoLock, tickLock' = Opened(p), Goto(p, "tick_opened"),
         UNCHANGED <<pid, seen, raced>>
  PROVE  LockInv'
<1>1. /\ pc'[p] = "tick_opened" /\ \A q \in Ticker \ {p} : pc'[q] = pc[q]
  BY DEF Goto, TypeInv, PlacesTyped, Process
<1>2. /\ tickLock' # NoLock /\ tickLock'.owner = p /\ tickLock'.pid = pid[p] /\ ~tickLock'.old
  BY LockFiles, OpenedType DEF Opened
<1>3. pid[p] <= pid[p]
  BY DEF TypeInv, PlacesTyped
<1>4. \A q \in Ticker : pc'[q] = "tick_stale" => seen'[q] # NoLock /\ Gone(seen[q])'
  <2>1. \A q \in Ticker : seen[q] # NoLock => seen[q].owner \in Ticker
    BY LockFiles DEF TypeInv, LocksTyped, LockFile
  <2> QED BY <1>1, <2>1 DEF LockInv, Gone
<1>5. ~raced' => \A q \in Ticker : pc'[q] \in Ticking => q = p
  BY <1>1 DEF LockInv, Mine
<1> QED BY <1>2, <1>3, <1>4, <1>5 DEF LockInv, Mine

(* The tick lock is removed, or overwrites nothing that is in use.              *)
LEMMA TickerDrops ==
  ASSUME TypeInv, LockInv, NEW p \in Ticker, NEW l \in {"idle", "tick_removed", "down"}, Goto(p, l),
         pc[p] # "down", UNCHANGED pid, tickLock' = NoLock,
         \A q \in Ticker \ {p} : seen'[q] = seen[q],
         ~raced' => ~raced /\ \A q \in Ticker \ {p} : pc[q] \notin Ticking
  PROVE  LockInv'
<1>1. /\ pc'[p] = l /\ \A q \in Ticker \ {p} : pc'[q] = pc[q]
  BY DEF Goto, TypeInv, PlacesTyped, Process
<1>2. \A q \in Ticker : pc'[q] = "tick_stale" => seen'[q] # NoLock /\ Gone(seen[q])'
  <2>1. \A q \in Ticker : seen[q] # NoLock => seen[q].owner \in Ticker
    BY LockFiles DEF TypeInv, LocksTyped, LockFile
  <2> QED BY <1>1, <2>1 DEF LockInv, Gone
<1>3. ~raced' => \A q \in Ticker : pc'[q] \notin Ticking
  BY <1>1 DEF Ticking, WithJob, BeforeRun, InRun
<1> QED BY <1>2, <1>3 DEF LockInv

LEMMA NextLocks ==
  ASSUME "slow" \notin Faults, TypeInv, LockInv, [Next]_vars
  PROVE  LockInv'
<1> USE DEF jobVars, lockVars, procVars, counts, history
<1>1. CASE UNCHANGED vars
  BY <1>1 DEF vars, LockInv, Gone, Mine
<1>2. ASSUME NEW p \in Ticker, OpenTickLock(p) \/ ReopenTickLock(p) PROVE LockInv'
  <2>1. CASE OpenTickLock(p)
    BY <2>1, TickerOpens DEF OpenTickLock
  <2>2. CASE ReopenTickLock(p) /\ tickLock = NoLock
    BY <2>2, TickerOpens DEF ReopenTickLock
  <2>3. CASE ReopenTickLock(p) /\ tickLock # NoLock
    BY <2>3, TickerMoves DEF ReopenTickLock, Ticking, WithJob, BeforeRun, InRun
  <2> QED BY <1>2, <2>1, <2>2, <2>3
<1>3. ASSUME NEW p \in Ticker, FindStaleTickLock(p) PROVE LockInv'
  <2>1. /\ pc'[p] = "tick_stale" /\ \A q \in Ticker \ {p} : pc'[q] = pc[q] /\ seen'[q] = seen[q]
        /\ seen'[p] = tickLock /\ pc[p] = "idle" /\ UNCHANGED <<tickLock, pid, raced>>
        /\ tickLock # NoLock /\ tickLock.old
    BY <1>3 DEF FindStaleTickLock, TickLockIsStale, Goto, TypeInv, LocksTyped,
       PlacesTyped, Process
  <2>2. Gone(tickLock)
    BY <2>1 DEF LockInv
  <2>3. \A lock \in LockFile : Gone(lock) => Gone(lock)'
    BY <2>1 DEF Gone, LockFile
  <2>4. tickLock \in LockFile /\ \A q \in Ticker : seen[q] # NoLock => seen[q] \in LockFile
    BY <2>1, LockFiles DEF TypeInv, LocksTyped
  <2>5. Gone(tickLock)' /\ tickLock'.pid <= pid'[tickLock'.owner]
    BY <2>1, <2>2, <2>3, <2>4 DEF LockInv
  <2>6. \A q \in Ticker : pc'[q] = "tick_stale" => seen'[q] # NoLock /\ Gone(seen[q])'
    BY <2>1, <2>2, <2>3, <2>4 DEF LockInv
  <2>7. ~raced' => \A q \in Ticker : pc'[q] \in Ticking => Mine(tickLock, q)'
    BY <2>1 DEF LockInv, Mine, Ticking, WithJob, BeforeRun, InRun
  <2> QED BY <2>5, <2>6, <2>7 DEF LockInv
<1>4. ASSUME NEW p \in Ticker, RemoveStaleTickLock(p) PROVE LockInv'
  <2>1. ASSUME ~raced', NEW q \in Ticker, pc[q] \in Ticking PROVE FALSE
    <3>1. ~raced /\ tickLock \in {NoLock, seen[p]} /\ Mine(tickLock, q)
      BY <1>4, <2>1 DEF RemoveStaleTickLock, LockInv
    <3>2. Gone(tickLock)
      BY <1>4, <3>1 DEF RemoveStaleTickLock, LockInv, Mine
    <3> QED BY <2>1, <3>1, <3>2
            DEF Gone, Mine, TypeInv, PlacesTyped, Ticking, WithJob, BeforeRun, InRun
  <2>2. /\ Goto(p, "tick_removed") /\ pc[p] # "down" /\ UNCHANGED pid /\ tickLock' = NoLock
        /\ \A q \in Ticker \ {p} : seen'[q] = seen[q]
    BY <1>4 DEF RemoveStaleTickLock, TypeInv, LocksTyped
  <2>3. ~raced' => ~raced
    BY <1>4 DEF RemoveStaleTickLock
  <2> QED BY <2>1, <2>2, <2>3, TickerDrops
<1>5. ASSUME NEW p \in Ticker, EndTick(p) PROVE LockInv'
  <2>1. pc[p] = "loop" /\ "loop" \in Ticking
    BY <1>5 DEF EndTick, Ticking
  <2>2. ~raced' => ~raced
    BY <1>5 DEF EndTick, RemoveTickLock
  <2> QED BY <1>5, <2>1, <2>2, OneTicks, TickerDrops DEF EndTick, RemoveTickLock
<1>6. ASSUME NEW p \in Ticker, WriteTickLock(p) PROVE LockInv'
  <2>1. /\ pc'[p] = "due" /\ \A q \in Ticker \ {p} : pc'[q] = pc[q]
        /\ pc[p] = "tick_opened" /\ UNCHANGED <<seen, pid, raced>>
    BY <1>6 DEF WriteTickLock, Goto, TypeInv, PlacesTyped, Process
  <2>2. tickLock # NoLock => /\ tickLock \in LockFile /\ tickLock' # NoLock
                             /\ tickLock'.owner = tickLock.owner /\ tickLock'.pid = tickLock.pid
                             /\ tickLock'.old = tickLock.old
    BY <1>6, LockFiles DEF WriteTickLock, TypeInv, LocksTyped, LockFile
  <2>3. tickLock = NoLock => tickLock' = NoLock
    BY <1>6 DEF WriteTickLock, Mine
  <2>4. tickLock.owner \in Ticker \/ tickLock = NoLock
    BY LockFiles DEF TypeInv, LocksTyped, LockFile
  <2>5. \A q \in Ticker : pc'[q] = "tick_stale" => seen'[q] # NoLock /\ Gone(seen[q])'
    <3>1. \A q \in Ticker : seen[q] # NoLock => seen[q].owner \in Ticker
      BY LockFiles DEF TypeInv, LocksTyped, LockFile
    <3> QED BY <2>1, <3>1 DEF LockInv, Gone
  <2>6. ~raced' => \A q \in Ticker : pc'[q] \in Ticking => Mine(tickLock, q)'
    BY <2>1, <2>2, <2>3 DEF LockInv, Mine, Ticking
  <2>7. tickLock' # NoLock => /\ tickLock'.pid <= pid'[tickLock'.owner]
                              /\ tickLock'.old => Gone(tickLock)'
    BY <2>1, <2>2, <2>3, <2>4 DEF LockInv, Gone
  <2> QED BY <2>5, <2>6, <2>7 DEF LockInv
<1>7. ASSUME NEW p \in Ticker,
             \/ ListDue(p) \/ OpenJobLock(p) \/ SkipLockedJob(p) \/ FindStaleJobLock(p)
             \/ RemoveStaleJobLock(p) \/ ReopenJobLock(p) \/ WriteJobLock(p) \/ AdvanceLoad(p)
             \/ AdvanceSaveAndRun(p) \/ RunLegacy(p) \/ MarkLoad(p) \/ MarkSave(p)
             \/ ReleaseJobLock(p) \/ Crash(p) \/ RunThrows(p) \/ RecordThrows(p)
      PROVE  LockInv'
  <2>1. /\ UNCHANGED <<tickLock, pid>> /\ (raced => raced')
        /\ \A q \in Ticker \ {p} : seen'[q] = seen[q]
    <3>1. UNCHANGED <<tickLock, pid>>
      BY <1>7
      DEF ListDue, OpenJobLock, SkipLockedJob, FindStaleJobLock, RemoveStaleJobLock,
          ReopenJobLock, WriteJobLock, AdvanceLoad, AdvanceSaveAndRun, RunLegacy, MarkLoad,
          MarkSave, ReleaseJobLock, Crash, RunThrows, RecordThrows
    <3>2. raced => raced'
      BY <1>7
      DEF ListDue, OpenJobLock, SkipLockedJob, FindStaleJobLock, RemoveStaleJobLock,
          ReopenJobLock, WriteJobLock, AdvanceLoad, AdvanceSaveAndRun, RunLegacy, MarkLoad,
          MarkSave, ReleaseJobLock, Crash, RunThrows, RecordThrows, Save, Release
    <3>3. \E l : seen' = [seen EXCEPT ![p] = l]
      <4>1. CASE FindStaleJobLock(p) \/ RemoveStaleJobLock(p) \/ Crash(p)
        BY <4>1 DEF FindStaleJobLock, RemoveStaleJobLock, Crash
      <4>2. CASE UNCHANGED seen
        BY <4>2 DEF TypeInv, LocksTyped
      <4> QED BY <1>7, <4>1, <4>2
      DEF ListDue, OpenJobLock, SkipLockedJob, ReopenJobLock, WriteJobLock, AdvanceLoad,
          AdvanceSaveAndRun, RunLegacy, MarkLoad, MarkSave, ReleaseJobLock, RunThrows,
          RecordThrows
    <3> QED BY <3>1, <3>2, <3>3 DEF TypeInv, LocksTyped
  <2>2. \E l : /\ Goto(p, l) /\ l # "tick_stale" /\ pc[p] # "down"
               /\ l \in Ticking => pc[p] \in Ticking
    <3>1. SkipLockedJob(p) => Goto(p, "loop") /\ pc[p] = "loop"
      BY DEF SkipLockedJob, Goto, TypeInv, PlacesTyped
    <3> QED BY <1>7, <3>1
    DEF ListDue, OpenJobLock, FindStaleJobLock, RemoveStaleJobLock, ReopenJobLock,
        WriteJobLock, AdvanceLoad, AdvanceSaveAndRun, RunLegacy, MarkLoad, MarkSave,
        ReleaseJobLock, Crash, RunThrows, RecordThrows, TakeJob, NextJob, Ticking, WithJob,
        BeforeRun, InRun
  <2> QED BY <2>1, <2>2, TickerMoves
<1>8. ASSUME NEW p \in Ticker, Restart(p) PROVE LockInv'
  <2>1. /\ pc'[p] = "idle" /\ \A q \in Ticker \ {p} : pc'[q] = pc[q] /\ pid'[q] = pid[q]
        /\ pc[p] = "down" /\ pid'[p] = pid[p] + 1 /\ UNCHANGED <<tickLock, seen, raced>>
    BY <1>8 DEF Restart, Goto, TypeInv, PlacesTyped, Process
  <2>2. \A lock \in LockFile : Gone(lock) => Gone(lock)'
    BY <2>1 DEF Gone, LockFile, TypeInv, PlacesTyped
  <2>3. /\ tickLock # NoLock => tickLock \in LockFile
        /\ \A q \in Ticker : seen[q] # NoLock => seen[q] \in LockFile
    BY LockFiles DEF TypeInv, LocksTyped
  <2>4. tickLock' # NoLock => /\ tickLock'.pid <= pid'[tickLock'.owner]
                              /\ tickLock'.old => Gone(tickLock)'
    BY <2>1, <2>2, <2>3 DEF LockInv, LockFile, TypeInv, PlacesTyped
  <2>5. \A q \in Ticker : pc'[q] = "tick_stale" => seen'[q] # NoLock /\ Gone(seen[q])'
    BY <2>1, <2>2, <2>3 DEF LockInv
  <2>6. ~raced' => \A q \in Ticker : pc'[q] \in Ticking => Mine(tickLock, q)'
    BY <2>1 DEF LockInv, Mine, Ticking, WithJob, BeforeRun, InRun
  <2> QED BY <2>4, <2>5, <2>6 DEF LockInv
<1>9. ASSUME NEW p \in Editor, EditLoad(p) \/ EditSave(p) PROVE LockInv'
  <2>1. /\ UNCHANGED <<tickLock, pid, seen>> /\ (raced => raced')
        /\ \A q \in Ticker : pc'[q] = pc[q]
    <3>1. UNCHANGED <<tickLock, pid, seen>> /\ (raced => raced')
      <4>1. CASE EditLoad(p)
        BY <4>1 DEF EditLoad
      <4>2. CASE EditSave(p)
        BY <4>2 DEF EditSave, Save
      <4> QED BY <1>9, <4>1, <4>2
    <3>2. \E l : pc' = [pc EXCEPT ![p] = l]
      BY <1>9 DEF EditLoad, EditSave
    <3> QED BY <3>1, <3>2, CronAssumption DEF TypeInv, PlacesTyped, Process
  <2>2. /\ tickLock # NoLock => tickLock.owner \in Ticker
        /\ \A q \in Ticker : seen[q] # NoLock => seen[q].owner \in Ticker
    BY LockFiles DEF TypeInv, LocksTyped, LockFile
  <2> QED BY <2>1, <2>2 DEF LockInv, Gone, Mine
<1>10. CASE \E j \in Job : OccurrenceComesDue(j) \/ JobLockTimesOut(j)
  BY <1>10 DEF OccurrenceComesDue, JobLockTimesOut, LockInv, Gone, Mine
<1>11. CASE TickLockTimesOut
  <2>1. /\ tickLock \in LockFile /\ tickLock # NoLock /\ ~Alive(tickLock)
        /\ tickLock' = [tickLock EXCEPT !.old = TRUE] /\ UNCHANGED <<pc, pid, seen, raced>>
    BY <1>11, LockFiles DEF TickLockTimesOut, Ageing, TypeInv, LocksTyped
  <2>2. /\ tickLock' # NoLock /\ tickLock'.owner = tickLock.owner /\ tickLock'.pid = tickLock.pid
    <3>1. [tickLock EXCEPT !.old = TRUE] \in LockFile
      BY <2>1 DEF LockFile
    <3> QED BY <2>1, <3>1, LockFiles DEF LockFile
  <2>3. Gone(tickLock)
    <3>1. tickLock.pid <= pid[tickLock.owner]
      BY <2>1 DEF LockInv
    <3>2. tickLock.pid \in Nat /\ pid[tickLock.owner] \in Nat
      BY <2>1 DEF LockFile, TypeInv, PlacesTyped
    <3> QED BY <2>1, <3>1, <3>2 DEF Gone, Alive
  <2> QED BY <2>1, <2>2, <2>3 DEF LockInv, Gone, Mine
<1>12. ASSUME NEW p \in Ticker, ThrowsBeforeRun(p) PROVE LockInv'
  <2>1. pc[p] \in Ticking /\ pc[p] # "down"
    BY <1>12 DEF ThrowsBeforeRun, Ticking, WithJob, BeforeRun
  <2>2. /\ ~raced' => ~raced /\ \A q \in Ticker \ {p} : pc[q] \notin Ticking
        /\ Goto(p, "down") /\ tickLock' = NoLock /\ UNCHANGED <<pid, seen>>
    BY <1>12, <2>1, OneTicks DEF ThrowsBeforeRun, RemoveTickLock
  <2> QED BY <2>1, <2>2, TickerDrops
<1> QED BY <1>1, <1>2, <1>3, <1>4, <1>5, <1>6, <1>7, <1>8, <1>9, <1>10, <1>11, <1>12, Zenon
        DEF Next, Tick, Throws

-----------------------------------------------------------------------------
(* What tickers have listed.                                                 *)

LEMMA InitWork == Init => WorkInv
  BY CronAssumption
  DEF Init, WorkInv, WorkOf, Process, NothingListed, None, WithJob, BeforeRun, InRun

(* The places of the other tickers stay.                                     *)
Others(p) ==
  \A q \in Ticker \ {p} :
    /\ pc'[q] = pc[q] /\ todo'[q] = todo[q] /\ current'[q] = current[q]
    /\ listed'[q] = listed[q] /\ (q \in plain' <=> q \in plain)

LEMMA OthersStay ==
  ASSUME TypeInv, NEW p \in Ticker, Tick(p) \/ Throws(p) \/ Crash(p) \/ Restart(p)
  PROVE  Others(p)
<1> USE DEF TypeInv, PlacesTyped, Process, jobVars, lockVars, procVars, counts, history, Goto,
            Others
<1>1. CASE OpenTickLock(p)
  BY <1>1 DEF OpenTickLock, TakeJob, NextJob
<1>2. CASE FindStaleTickLock(p)
  BY <1>2 DEF FindStaleTickLock, TakeJob, NextJob
<1>3. CASE RemoveStaleTickLock(p)
  BY <1>3 DEF RemoveStaleTickLock, TakeJob, NextJob
<1>4. CASE ReopenTickLock(p)
  BY <1>4 DEF ReopenTickLock, TakeJob, NextJob
<1>5. CASE WriteTickLock(p)
  BY <1>5 DEF WriteTickLock, TakeJob, NextJob
<1>6. CASE ListDue(p)
  BY <1>6 DEF ListDue, TakeJob, NextJob
<1>7. CASE EndTick(p)
  BY <1>7 DEF EndTick, TakeJob, NextJob
<1>8. CASE OpenJobLock(p)
  BY <1>8 DEF OpenJobLock, TakeJob, NextJob
<1>9. CASE SkipLockedJob(p)
  BY <1>9 DEF SkipLockedJob, TakeJob, NextJob
<1>10. CASE FindStaleJobLock(p)
  BY <1>10 DEF FindStaleJobLock, TakeJob, NextJob
<1>11. CASE RemoveStaleJobLock(p)
  BY <1>11 DEF RemoveStaleJobLock, TakeJob, NextJob
<1>12. CASE ReopenJobLock(p)
  BY <1>12 DEF ReopenJobLock, TakeJob, NextJob
<1>13. CASE WriteJobLock(p)
  BY <1>13 DEF WriteJobLock, TakeJob, NextJob
<1>14. CASE AdvanceLoad(p)
  BY <1>14 DEF AdvanceLoad, TakeJob, NextJob
<1>15. CASE AdvanceSaveAndRun(p)
  BY <1>15 DEF AdvanceSaveAndRun, TakeJob, NextJob
<1>16. CASE RunLegacy(p)
  BY <1>16 DEF RunLegacy, TakeJob, NextJob
<1>17. CASE MarkLoad(p)
  BY <1>17 DEF MarkLoad, TakeJob, NextJob
<1>18. CASE MarkSave(p)
  BY <1>18 DEF MarkSave, TakeJob, NextJob
<1>19. CASE ReleaseJobLock(p)
  BY <1>19 DEF ReleaseJobLock, TakeJob, NextJob
<1>20. CASE Crash(p)
  BY <1>20 DEF Crash, AbandonJobs
<1>21. CASE Restart(p)
  BY <1>21 DEF Restart, TakeJob, NextJob
<1>22. CASE Throws(p)
  BY <1>22 DEF Throws, ThrowsBeforeRun, RunThrows, RecordThrows, AbandonJobs
<1> QED BY <1>1, <1>2, <1>3, <1>4, <1>5, <1>6, <1>7, <1>8, <1>9, <1>10, <1>11, <1>12,
           <1>13, <1>14, <1>15, <1>16, <1>17, <1>18, <1>19, <1>20, <1>21, <1>22 DEF Tick

LEMMA NextWork ==
  ASSUME TypeInv, TypeInv', WorkInv, [Next]_vars
  PROVE  WorkInv'
<1> USE DEF jobVars, lockVars, procVars, counts, history
<1>0. \A j \in Job : clock[j] \in Nat /\ None <= clock[j]
  BY DEF TypeInv, FilesTyped, None
<1>1. ASSUME NEW p \in Ticker, Tick(p) \/ Throws(p) \/ Crash(p) \/ Restart(p) PROVE WorkOf(p)'
  <2>0. WorkOf(p)
    BY DEF WorkInv
  <2> USE DEF TypeInv, PlacesTyped, Process, Goto, WorkOf, WithJob, BeforeRun, InRun
  <2>1. CASE OpenTickLock(p)
    BY <2>0, <2>1 DEF OpenTickLock, TakeJob, NextJob
  <2>2. CASE FindStaleTickLock(p)
    BY <2>0, <2>2 DEF FindStaleTickLock, TakeJob, NextJob
  <2>3. CASE RemoveStaleTickLock(p)
    BY <2>0, <2>3 DEF RemoveStaleTickLock, TakeJob, NextJob
  <2>4. CASE ReopenTickLock(p)
    BY <2>0, <2>4 DEF ReopenTickLock, TakeJob, NextJob
  <2>5. CASE WriteTickLock(p)
    BY <2>0, <2>5 DEF WriteTickLock, TakeJob, NextJob
  <2>6. CASE ListDue(p)
    BY <1>0, <2>0, <2>6 DEF ListDue, Due, Reached
  <2>7. CASE EndTick(p)
    BY <2>0, <2>7 DEF EndTick, TakeJob, NextJob
  <2>8. CASE OpenJobLock(p)
    BY <2>0, <2>8 DEF OpenJobLock, TakeJob, NextJob
  <2>9. CASE SkipLockedJob(p)
    BY <1>0, <2>0, <2>9 DEF SkipLockedJob, TakeJob, NextJob
  <2>10. CASE FindStaleJobLock(p)
    BY <2>0, <2>10 DEF FindStaleJobLock, TakeJob, NextJob
  <2>11. CASE RemoveStaleJobLock(p)
    BY <2>0, <2>11 DEF RemoveStaleJobLock, TakeJob, NextJob
  <2>12. CASE ReopenJobLock(p)
    BY <1>0, <2>0, <2>12 DEF ReopenJobLock, NextJob, NothingListed
  <2>13. CASE WriteJobLock(p)
    BY <2>0, <2>13 DEF WriteJobLock, TakeJob, NextJob
  <2>14. CASE AdvanceLoad(p)
    BY <2>0, <2>14 DEF AdvanceLoad, TakeJob, NextJob
  <2>15. CASE AdvanceSaveAndRun(p)
    BY <2>0, <2>15 DEF AdvanceSaveAndRun, TakeJob, NextJob
  <2>16. CASE RunLegacy(p)
    BY <2>0, <2>16 DEF RunLegacy, TakeJob, NextJob
  <2>17. CASE MarkLoad(p)
    BY <2>0, <2>17 DEF MarkLoad, TakeJob, NextJob
  <2>18. CASE MarkSave(p)
    BY <1>0, <2>0, <2>18 DEF MarkSave, TakeJob, NextJob
  <2>19. CASE ReleaseJobLock(p)
    BY <2>0, <2>19 DEF ReleaseJobLock, TakeJob, NextJob
  <2>20. CASE Crash(p)
    BY <1>0, <2>0, <2>20 DEF Crash, AbandonJobs, NothingListed
  <2>21. CASE Restart(p)
    BY <2>0, <2>21 DEF Restart, TakeJob, NextJob
  <2>22. CASE Throws(p)
    BY <1>0, <2>0, <2>22
    DEF Throws, ThrowsBeforeRun, RunThrows, RecordThrows, AbandonJobs, NothingListed
  <2> QED BY <1>1, <2>1, <2>2, <2>3, <2>4, <2>5, <2>6, <2>7, <2>8, <2>9, <2>10, <2>11,
             <2>12, <2>13, <2>14, <2>15, <2>16, <2>17, <2>18, <2>19, <2>20, <2>21, <2>22 DEF Tick
<1>2. ASSUME NEW p \in Ticker, Tick(p) \/ Throws(p) \/ Crash(p) \/ Restart(p) PROVE WorkInv'
  <2>1. UNCHANGED clock
    BY <1>2
    DEF Tick, OpenTickLock, FindStaleTickLock, RemoveStaleTickLock, ReopenTickLock,
        WriteTickLock, EndTick, ListDue, OpenJobLock, SkipLockedJob, FindStaleJobLock,
        RemoveStaleJobLock, ReopenJobLock, WriteJobLock, AdvanceLoad, AdvanceSaveAndRun,
        RunLegacy, MarkLoad, MarkSave, ReleaseJobLock, Crash, Restart, Throws,
        ThrowsBeforeRun, RunThrows, RecordThrows
  <2>2. Others(p) /\ WorkOf(p)'
    BY <1>1, <1>2, OthersStay
  <2>3. ASSUME NEW q \in Ticker \ {p} PROVE WorkOf(q)'
    BY <2>1, <2>2 DEF WorkInv, WorkOf, Others
  <2> QED BY <2>2, <2>3 DEF WorkInv
<1>3. ASSUME UNCHANGED <<todo, current, plain, listed>>, \A q \in Ticker : pc'[q] = pc[q],
             \A j \in Job : clock[j] <= clock'[j]
      PROVE  WorkInv'
  <2>1. \A j \in Job, q \in Ticker : listed[q][j] <= clock[j] => listed[q][j] <= clock'[j]
    BY <1>3 DEF TypeInv, FilesTyped, PlacesTyped
  <2> QED BY <1>3, <2>1 DEF WorkInv, WorkOf
<1>4. clock \in [Job -> Nat]
  BY DEF TypeInv, FilesTyped
<1>5. CASE UNCHANGED vars \/ TickLockTimesOut \/ \E j \in Job : JobLockTimesOut(j)
  <2>1. UNCHANGED <<todo, current, plain, listed, pc, clock>>
    BY <1>5 DEF vars, TickLockTimesOut, JobLockTimesOut
  <2> QED BY <1>3, <1>4, <2>1
<1>6. ASSUME NEW j \in Job, OccurrenceComesDue(j) PROVE WorkInv'
  <2>1. UNCHANGED <<todo, current, plain, listed, pc>> /\ clock' = [clock EXCEPT ![j] = @ + 1]
    BY <1>6 DEF OccurrenceComesDue
  <2> QED BY <1>3, <1>4, <2>1
<1>7. ASSUME NEW p \in Editor, EditLoad(p) \/ EditSave(p) PROVE WorkInv'
  <2>1. UNCHANGED <<todo, current, plain, listed, clock>> /\ \E l : pc' = [pc EXCEPT ![p] = l]
    BY <1>7 DEF EditLoad, EditSave
  <2>2. \A q \in Ticker : pc'[q] = pc[q]
    BY <2>1, CronAssumption DEF TypeInv, PlacesTyped, Process
  <2> QED BY <1>3, <1>4, <2>1, <2>2
<1> QED BY <1>2, <1>5, <1>6, <1>7, Zenon DEF Next

-----------------------------------------------------------------------------
(* The steps, by what they do to the jobs and their runs.                    *)

JobsStay == UNCHANGED <<clock, file, counts>>

TickersStay ==
  UNCHANGED <<todo, current, plain, listed>> /\ \A p \in Ticker : pc'[p] = pc[p]

(* A ticker takes a lock or gives it back, reads the file, or drops a job.    *)
Quiet(p) ==
  /\ JobsStay
  /\ \A j \in Job : /\ RunsJob(p, j)' <=> RunsJob(p, j)
                    /\ Pending(p, j)' => Pending(p, j)
                    /\ Pending(p, j)' \/ RunsJob(p, j) => listed'[p][j] = listed[p][j]
  /\ pc[p] \in InRun => (p \in plain' <=> p \in plain)

Lists(p) ==
  /\ JobsStay /\ pc[p] \in Ticking
  /\ \A j \in Job : /\ ~RunsJob(p, j) /\ ~RunsJob(p, j)'
                    /\ Pending(p, j)' => j \in Due(file)
                    /\ Pending(p, j)' /\ listed'[p][j] = None => ~Reached(j, file[j].next)
                    /\ Pending(p, j)' /\ listed'[p][j] # None => listed'[p][j] = file[j].next

(* A ticker loses its work by a crash or an exception; a run ends with it.    *)
Loses(p) ==
  /\ UNCHANGED <<clock, file, runs, runsOf, requests, requestRuns, revived>>
  /\ \A j \in Job :
       /\ ~RunsJob(p, j)' /\ ~Pending(p, j)'
       /\ unrecorded'[j] = unrecorded[j] + (IF RunsJob(p, j) THEN 1 ELSE 0)
       /\ \A k \in 0..MaxOccurrence :
            thrown'[j][k] = thrown[j][k] +
              (IF p \in plain /\ RunsJob(p, j) /\ listed[p][j] = k THEN 1 ELSE 0)

StartsRun(p, j) ==
  /\ UNCHANGED <<clock, requests, revived, unrecorded, thrown, listed>>
  /\ pc[p] \in Ticking /\ Pending(p, j) /\ CountRun(j, listed[p][j])
  /\ \A i \in Job : /\ ~RunsJob(p, i) /\ (RunsJob(p, i)' <=> i = j)
                    /\ Pending(p, i)' => i # j /\ Pending(p, i)
  /\ \/ p \in plain /\ p \in plain' /\ UNCHANGED file
     \/ p \notin plain' /\ (~raced' => file' = [file EXCEPT ![j] = AdvanceNextRun(@, j)])

EndsRun(p, j) ==
  /\ UNCHANGED <<clock, counts>>
  /\ pc[p] \in Ticking /\ RunsJob(p, j)
  /\ \A i \in Job : /\ ~RunsJob(p, i)'
                    /\ Pending(p, i)' => Pending(p, i) /\ listed'[p][i] = listed[p][i]
  /\ ~raced' => file' = [file EXCEPT ![j] = MarkRunResult(@, j)]

Edits(j, c) ==
  /\ UNCHANGED <<clock, runs, runsOf, requestRuns, unrecorded, thrown>> /\ TickersStay
  /\ requests' = [requests EXCEPT ![j] = @ + (IF c = "requestRun" THEN 1 ELSE 0)]
  /\ ~raced' => /\ file' = [file EXCEPT ![j] = Command(@, j, c)]
                /\ revived' = [revived EXCEPT ![j] = @ + (IF Revives(file[j], c) THEN 1 ELSE 0)]

ComesDue(j) ==
  /\ UNCHANGED <<file, counts>> /\ TickersStay
  /\ clock' = [clock EXCEPT ![j] = @ + 1]

FileKinds ==
  \/ JobsStay /\ TickersStay
  \/ \E p \in Ticker : Others(p) /\ \/ Quiet(p) \/ Lists(p) \/ Loses(p)
                                    \/ \E j \in Job : StartsRun(p, j) \/ EndsRun(p, j)
  \/ \E j \in Job, c \in Commands : Edits(j, c)
  \/ \E j \in Job : ComesDue(j)

(* What an exception or a crash takes from a ticker.                          *)
LEMMA LosesWork ==
  ASSUME TypeInv, WorkInv, NEW p \in Ticker, Crash(p) \/ Throws(p)
  PROVE  Loses(p)
<1> USE DEF jobVars, lockVars, procVars, counts, history
<1>1. /\ UNCHANGED <<clock, file, runs, runsOf, requests, requestRuns, revived>>
      /\ AbandonJobs(p) /\ \E l \in {"down", "loop"} : Goto(p, l)
  BY DEF Crash, Throws, ThrowsBeforeRun, RunThrows, RecordThrows
<1>2. pc'[p] \notin WithJob /\ todo'[p] = {}
  BY <1>1 DEF AbandonJobs, Goto, TypeInv, PlacesTyped, Process, WithJob, BeforeRun, InRun
<1>3. \A j \in Job : ~RunsJob(p, j)' /\ ~Pending(p, j)'
  BY <1>2 DEF RunsJob, Pending, WithJob
<1>4. pc[p] \in InRun => current[p] \in Job
  BY DEF TypeInv, PlacesTyped, WithJob
<1>5. ASSUME pc[p] \in InRun, LeaveUnrecorded(p), NEW j \in Job
      PROVE  unrecorded'[j] = unrecorded[j] + (IF RunsJob(p, j) THEN 1 ELSE 0)
  BY <1>4, <1>5 DEF LeaveUnrecorded, RunsJob, TypeInv, CountsTyped
<1>6. ASSUME NEW j \in Job
      PROVE  unrecorded[j] + 0 = unrecorded[j]
  BY DEF TypeInv, CountsTyped
<1>7. ASSUME NEW j \in Job, NEW k \in 0..MaxOccurrence
      PROVE  thrown[j][k] + 0 = thrown[j][k]
  <2>1. thrown[j] \in [0..MaxOccurrence -> Nat]
    BY DEF TypeInv, CountsTyped
  <2>2. thrown[j][k] \in Nat
    BY <2>1
  <2> QED BY <2>2
<1>8. CASE RunThrows(p)
  <2>1. p \in plain /\ pc[p] \in InRun /\ LeaveUnrecorded(p)
    BY <1>8 DEF RunThrows, InRun
  <2>2. PICK j \in Job : j = current[p]
    BY <1>4, <2>1
  <2>3. PICK k \in 0..MaxOccurrence : k = listed[p][j]
    BY DEF TypeInv, PlacesTyped
  <2>4. thrown' = [thrown EXCEPT ![j][k] = @ + 1]
    BY <1>8, <2>2, <2>3 DEF RunThrows
  <2>5. \A i \in Job, n \in 0..MaxOccurrence :
          thrown'[i][n] = thrown[i][n] + (IF i = j /\ n = k THEN 1 ELSE 0)
    <3> DEFINE marks == 0..MaxOccurrence
    <3>1. thrown \in [Job -> [marks -> Nat]] /\ k \in marks
      BY DEF TypeInv, CountsTyped
    <3>2. SUFFICES \A i \in Job, n \in marks :
            thrown'[i][n] = thrown[i][n] + (IF i = j /\ n = k THEN 1 ELSE 0)
      OBVIOUS
    <3> HIDE DEF marks
    <3> QED BY <2>4, <3>1, PairCounted
  <2>6. \A i \in Job, n \in 0..MaxOccurrence :
          thrown'[i][n] = thrown[i][n] +
            (IF p \in plain /\ RunsJob(p, i) /\ listed[p][i] = n THEN 1 ELSE 0)
    BY <2>1, <2>2, <2>3, <2>5 DEF RunsJob
  <2> QED BY <1>1, <1>3, <1>5, <2>1, <2>6 DEF Loses
<1>9. CASE RecordThrows(p)
  <2>1. p \notin plain /\ pc[p] \in InRun /\ LeaveUnrecorded(p) /\ UNCHANGED thrown
    BY <1>9 DEF RecordThrows, InRun
  <2> QED BY <1>1, <1>3, <1>5, <1>7, <2>1 DEF Loses
<1>10. CASE ThrowsBeforeRun(p)
  <2>1. pc[p] \notin InRun /\ UNCHANGED <<unrecorded, thrown>>
    BY <1>10 DEF ThrowsBeforeRun, InRun
  <2> QED BY <1>1, <1>3, <1>6, <1>7, <2>1 DEF Loses, RunsJob
<1>11. CASE Crash(p)
  <2>1. p \notin plain /\ UNCHANGED thrown
    BY <1>11, CronAssumption DEF Crash, TypeInv, PlacesTyped
  <2>2. IF pc[p] \in InRun THEN LeaveUnrecorded(p) ELSE UNCHANGED unrecorded
    BY <1>11 DEF Crash, InRun
  <2>3. \A j \in Job : unrecorded'[j] = unrecorded[j] + (IF RunsJob(p, j) THEN 1 ELSE 0)
    BY <1>5, <1>6, <2>2 DEF RunsJob
  <2> QED BY <1>1, <1>3, <1>7, <2>1, <2>3 DEF Loses
<1> QED BY <1>8, <1>9, <1>10, <1>11 DEF Throws

LEMMA TickerKinds ==
  ASSUME TypeInv, WorkInv, NEW p \in Ticker, Tick(p) \/ Throws(p) \/ Crash(p) \/ Restart(p)
  PROVE  Quiet(p) \/ Lists(p) \/ Loses(p) \/ \E j \in Job : StartsRun(p, j) \/ EndsRun(p, j)
<1> USE DEF TypeInv, PlacesTyped, Process, Goto, Pending, RunsJob, Ticking, WithJob,
            BeforeRun, InRun,
            jobVars, lockVars, procVars, counts, history, JobsStay
<1>0. WorkOf(p)
  BY DEF WorkInv
<1>1. CASE OpenTickLock(p)
  BY <1>1 DEF OpenTickLock, TakeJob, NextJob, Load, Quiet
<1>2. CASE FindStaleTickLock(p)
  BY <1>2 DEF FindStaleTickLock, TakeJob, NextJob, Load, Quiet
<1>3. CASE RemoveStaleTickLock(p)
  BY <1>3 DEF RemoveStaleTickLock, TakeJob, NextJob, Load, Quiet
<1>4. CASE ReopenTickLock(p)
  BY <1>4 DEF ReopenTickLock, TakeJob, NextJob, Load, Quiet
<1>5. CASE WriteTickLock(p)
  BY <1>5 DEF WriteTickLock, TakeJob, NextJob, Load, Quiet
<1>6. CASE EndTick(p)
  BY <1>6 DEF EndTick, TakeJob, NextJob, Load, Quiet
<1>7. CASE OpenJobLock(p)
  BY <1>7 DEF OpenJobLock, TakeJob, NextJob, Load, Quiet
<1>8. CASE SkipLockedJob(p)
  BY <1>8 DEF SkipLockedJob, TakeJob, NextJob, Load, Quiet
<1>9. CASE FindStaleJobLock(p)
  BY <1>9 DEF FindStaleJobLock, TakeJob, NextJob, Load, Quiet
<1>10. CASE RemoveStaleJobLock(p)
  BY <1>10 DEF RemoveStaleJobLock, TakeJob, NextJob, Load, Quiet
<1>11. CASE ReopenJobLock(p)
  BY <1>11 DEF ReopenJobLock, TakeJob, NextJob, Load, Quiet, NothingListed
<1>12. CASE WriteJobLock(p)
  BY <1>12 DEF WriteJobLock, TakeJob, NextJob, Load, Quiet
<1>13. CASE AdvanceLoad(p)
  BY <1>13 DEF AdvanceLoad, TakeJob, NextJob, Load, Quiet
<1>14. CASE MarkLoad(p)
  BY <1>14 DEF MarkLoad, TakeJob, NextJob, Load, Quiet
<1>15. CASE ReleaseJobLock(p)
  BY <1>15 DEF ReleaseJobLock, Release, TakeJob, NextJob, Load, Quiet
<1>16. CASE Restart(p)
  BY <1>16 DEF Restart, TakeJob, NextJob, Load, Quiet
<1>17. CASE ListDue(p)
  BY <1>0, <1>17 DEF ListDue, Lists, Reached
<1>18. CASE Crash(p) \/ Throws(p)
  BY <1>18, LosesWork
<1>19. CASE AdvanceSaveAndRun(p)
  <2>1. PICK j \in Job : j = current[p]
    BY <1>19 DEF AdvanceSaveAndRun
  <2>2. p \notin plain
    BY <1>0, <1>19 DEF AdvanceSaveAndRun, WorkOf
  <2>3. ~raced' => file' = [file EXCEPT ![j] = AdvanceNextRun(@, j)]
    BY <1>19, <2>1 DEF AdvanceSaveAndRun, Save
  <2>4. StartsRun(p, j)
    BY <1>0, <1>19, <2>1, <2>2, <2>3 DEF AdvanceSaveAndRun, StartsRun, WorkOf
  <2> QED BY <2>4
<1>20. CASE RunLegacy(p)
  <2>1. PICK j \in Job : TakeJob(p, j, "running") /\ CountRun(j, listed[p][j])
    BY <1>20 DEF RunLegacy
  <2>2. StartsRun(p, j)
    BY <1>20, <2>1 DEF RunLegacy, TakeJob, StartsRun
  <2> QED BY <2>2
<1>21. CASE MarkSave(p)
  <2>1. PICK j \in Job : j = current[p]
    BY <1>21 DEF MarkSave
  <2>2. ~raced' => file' = [file EXCEPT ![j] = MarkRunResult(@, j)]
    BY <1>21, <2>1 DEF MarkSave, Save
  <2>3. EndsRun(p, j)
    BY <1>0, <1>21, <2>1, <2>2 DEF MarkSave, NextJob, EndsRun, WorkOf
  <2> QED BY <2>3
<1> QED BY <1>1, <1>2, <1>3, <1>4, <1>5, <1>6, <1>7, <1>8, <1>9, <1>10, <1>11, <1>12,
           <1>13, <1>14, <1>15, <1>16, <1>17, <1>18, <1>19, <1>20, <1>21 DEF Tick

LEMMA NextFileKinds ==
  ASSUME TypeInv, WorkInv, [Next]_vars
  PROVE  FileKinds
<1> USE DEF jobVars, lockVars, procVars, counts, history, TickersStay
<1>1. ASSUME NEW p \in Ticker, Tick(p) \/ Throws(p) \/ Crash(p) \/ Restart(p) PROVE FileKinds
  BY <1>1, TickerKinds, OthersStay DEF FileKinds
<1>2. CASE UNCHANGED vars \/ TickLockTimesOut \/ \E j \in Job : JobLockTimesOut(j)
  BY <1>2 DEF vars, TickLockTimesOut, JobLockTimesOut, FileKinds, JobsStay
<1>3. ASSUME NEW j \in Job, OccurrenceComesDue(j) PROVE FileKinds
  BY <1>3 DEF OccurrenceComesDue, FileKinds, ComesDue
<1>4. ASSUME NEW p \in Editor, EditLoad(p) \/ EditSave(p) PROVE FileKinds
  <2>1. TickersStay
    <3>1. UNCHANGED <<todo, current, plain, listed>> /\ \E l : pc' = [pc EXCEPT ![p] = l]
      BY <1>4 DEF EditLoad, EditSave
    <3> QED BY <3>1, CronAssumption DEF TypeInv, PlacesTyped, Process
  <2>2. CASE EditLoad(p)
    BY <2>1, <2>2 DEF EditLoad, FileKinds, JobsStay
  <2>3. CASE EditSave(p)
    BY <2>1, <2>3 DEF EditSave, Save, FileKinds, Edits
  <2> QED BY <1>4, <2>2, <2>3
<1> QED BY <1>1, <1>2, <1>3, <1>4, Zenon DEF Next

-----------------------------------------------------------------------------
(* Only the ticker that holds the tick lock has work.                        *)

LEMMA Alone ==
  ASSUME TypeInv, LockInv, WorkInv, ~raced, NEW p \in Ticker, pc[p] \in Ticking
  PROVE  /\ \A q \in Ticker \ {p}, j \in Job : ~RunsJob(q, j) /\ ~Pending(q, j)
         /\ \A j \in Job : /\ Running(j) <=> RunsJob(p, j)
                           /\ Waits(j) <=> Pending(p, j)
                           /\ \A k : Uncaught(j, k) <=> p \in plain /\ RunsJob(p, j) /\ listed[p][j] = k
<1>1. \A q \in Ticker \ {p} : pc[q] \notin Ticking
  BY OneTicks
<1>2. \A q \in Ticker \ {p}, j \in Job : ~RunsJob(q, j) /\ ~Pending(q, j)
  BY <1>1 DEF WorkInv, WorkOf, RunsJob, Pending, Ticking, WithJob, BeforeRun, InRun
<1>3. plain \subseteq Ticker
  BY CronAssumption DEF TypeInv, PlacesTyped
<1>4. \A j \in Job : (Running(j) <=> RunsJob(p, j)) /\ (Waits(j) <=> Pending(p, j))
  BY <1>2 DEF Running, Waits
<1>5. \A j \in Job : \A k : Uncaught(j, k) <=> p \in plain /\ RunsJob(p, j) /\ listed[p][j] = k
  BY <1>2, <1>3 DEF Uncaught
<1> QED BY <1>2, <1>4, <1>5

LEMMA OthersWork ==
  ASSUME NEW p \in Ticker, Others(p)
  PROVE  \A q \in Ticker \ {p}, j \in Job :
           /\ RunsJob(q, j)' <=> RunsJob(q, j)
           /\ Pending(q, j)' <=> Pending(q, j)
           /\ listed'[q][j] = listed[q][j]
           /\ q \in plain' <=> q \in plain
  BY DEF Others, RunsJob, Pending

(* The same, after a step of the ticker.                                     *)
LEMMA AloneNext ==
  ASSUME TypeInv, TypeInv', LockInv, WorkInv, ~raced, NEW p \in Ticker, pc[p] \in Ticking, Others(p)
  PROVE  /\ \A q \in Ticker \ {p}, j \in Job : ~RunsJob(q, j)' /\ ~Pending(q, j)'
         /\ \A j \in Job : /\ Running(j)' <=> RunsJob(p, j)'
                           /\ Waits(j)' <=> Pending(p, j)'
                           /\ \A k : Uncaught(j, k)' <=>
                                       p \in plain' /\ RunsJob(p, j)' /\ listed'[p][j] = k
<1>1. \A q \in Ticker \ {p}, j \in Job : ~RunsJob(q, j)' /\ ~Pending(q, j)'
  BY Alone, OthersWork
<1>2. plain' \subseteq Ticker
  BY CronAssumption DEF TypeInv, PlacesTyped
<1>3. \A j \in Job : (Running(j)' <=> RunsJob(p, j)') /\ (Waits(j)' <=> Pending(p, j)')
  BY <1>1 DEF Running, Waits
<1>4. \A j \in Job : \A k : Uncaught(j, k)' <=> p \in plain' /\ RunsJob(p, j)' /\ listed'[p][j] = k
  BY <1>1, <1>2 DEF Uncaught
<1> QED BY <1>1, <1>3, <1>4

(* Steps that start and end no run.                                          *)
LEMMA RunsStay ==
  ASSUME TypeInv, TypeInv', NEW j \in Job,
         \/ TickersStay
         \/ \E p \in Ticker : Others(p) /\ Quiet(p)
  PROVE  /\ Running(j)' <=> Running(j)
         /\ Waits(j)' => Waits(j)
         /\ \A k : /\ Uncaught(j, k)' <=> Uncaught(j, k)
                   /\ \A q \in Ticker : Pending(q, j)' /\ listed'[q][j] = k
                                          => Pending(q, j) /\ listed[q][j] = k
<1>1. plain \subseteq Ticker /\ plain' \subseteq Ticker
  BY CronAssumption DEF TypeInv, PlacesTyped
<1>2. CASE TickersStay
  BY <1>1, <1>2 DEF TickersStay, Running, Uncaught, Waits, RunsJob, Pending
<1>3. ASSUME NEW p \in Ticker, Others(p), Quiet(p)
      PROVE  /\ Running(j)' <=> Running(j)
             /\ Waits(j)' => Waits(j)
             /\ \A k : /\ Uncaught(j, k)' <=> Uncaught(j, k)
                       /\ \A q \in Ticker : Pending(q, j)' /\ listed'[q][j] = k
                                              => Pending(q, j) /\ listed[q][j] = k
  <2>1. \A q \in Ticker : /\ RunsJob(q, j)' <=> RunsJob(q, j)
                          /\ Pending(q, j)' => Pending(q, j)
                          /\ Pending(q, j)' \/ RunsJob(q, j) => listed'[q][j] = listed[q][j]
    BY <1>3, OthersWork DEF Quiet
  <2>2. \A q \in Ticker : RunsJob(q, j) => (q \in plain' <=> q \in plain)
    BY <1>3, OthersWork DEF Quiet, RunsJob
  <2>3. (Running(j)' <=> Running(j)) /\ (Waits(j)' => Waits(j))
    BY <2>1 DEF Running, Waits
  <2>4. ASSUME NEW k PROVE Uncaught(j, k)' <=> Uncaught(j, k)
    <3>1. Uncaught(j, k)' => Uncaught(j, k)
      <4>1. SUFFICES ASSUME NEW q \in plain', RunsJob(q, j)', listed'[q][j] = k PROVE Uncaught(j, k)
        BY DEF Uncaught
      <4>2. q \in plain /\ RunsJob(q, j) /\ listed[q][j] = k
        BY <1>1, <2>1, <2>2, <4>1
      <4> QED BY <4>2 DEF Uncaught
    <3>2. Uncaught(j, k) => Uncaught(j, k)'
      <4>1. SUFFICES ASSUME NEW q \in plain, RunsJob(q, j), listed[q][j] = k PROVE Uncaught(j, k)'
        BY DEF Uncaught
      <4>2. q \in plain' /\ RunsJob(q, j)' /\ listed'[q][j] = k
        BY <1>1, <2>1, <2>2, <4>1
      <4> QED BY <4>2 DEF Uncaught
    <3> QED BY <3>1, <3>2
  <2> QED BY <2>1, <2>3, <2>4
<1> QED BY <1>2, <1>3

(* A ticker that loses its work: what remains is the work of the others.     *)
LEMMA LossLeaves ==
  ASSUME TypeInv, TypeInv', NEW p \in Ticker, Others(p), Loses(p), NEW j \in Job
  PROVE  /\ Waits(j)' => Waits(j)
         /\ ~RunsJob(p, j) => (Running(j)' <=> Running(j))
         /\ \A q \in Ticker : \A k : Pending(q, j)' /\ listed'[q][j] = k
                                   => Pending(q, j) /\ listed[q][j] = k
         /\ \A k : Uncaught(j, k) => \/ Uncaught(j, k)'
                                     \/ p \in plain /\ RunsJob(p, j) /\ listed[p][j] = k
<1>1. plain \subseteq Ticker /\ plain' \subseteq Ticker
  BY CronAssumption DEF TypeInv, PlacesTyped
<1>2. ~RunsJob(p, j)' /\ ~Pending(p, j)'
  BY DEF Loses
<1>3. (Waits(j)' => Waits(j)) /\ (~RunsJob(p, j) => (Running(j)' <=> Running(j)))
  BY <1>2, OthersWork DEF Waits, Running
<1>4. \A q \in Ticker : \A k : Pending(q, j)' /\ listed'[q][j] = k => Pending(q, j) /\ listed[q][j] = k
  BY <1>2, OthersWork
<1>5. \A k : Uncaught(j, k) => Uncaught(j, k)' \/ (p \in plain /\ RunsJob(p, j) /\ listed[p][j] = k)
  BY <1>1, OthersWork DEF Uncaught
<1> QED BY <1>3, <1>4, <1>5

LEMMA AdvanceEffect ==
  ASSUME TypeInv, NEW j \in Job, NEW r \in JobRecord,
         r.status = "absent" => ~r.requested /\ r.next = None
  PROVE  LET n == AdvanceNextRun(r, j) IN
         /\ n.status = r.status /\ n.runCount = r.runCount /\ ~n.requested
         /\ n.next \in {None, clock[j] + 1}
  BY NextType DEF AdvanceNextRun, JobRecord

LEMMA MarkEffect ==
  ASSUME TypeInv, NEW j \in Job, NEW r \in JobRecord,
         r.status = "absent" => ~r.requested /\ r.next = None
  PROVE  LET n == MarkRunResult(r, j)
             over == (Repeat[j] > 0 /\ r.runCount + 1 >= Repeat[j]) \/ j \in Once IN
         /\ ~n.requested
         /\ n.next = None \/ n.next > clock[j]
         /\ r.status = "absent" => n = r
         /\ r.status # "absent" => /\ n.status = IF over THEN "completed" ELSE r.status
                                   /\ n.runCount = r.runCount + 1
<1>1. CASE r.status = "absent"
  BY <1>1 DEF MarkRunResult
<1>2. CASE r.status # "absent"
  <2> DEFINE over == (Repeat[j] > 0 /\ r.runCount + 1 >= Repeat[j]) \/ j \in Once
             next == CASE over -> None
                       [] ~over /\ r.next > clock[j] -> r.next
                       [] OTHER -> NextOccurrence(j)
  <2>1. MarkRunResult(r, j) = [status |-> IF over THEN "completed" ELSE r.status, next |-> next,
                               requested |-> FALSE, runCount |-> r.runCount + 1]
    BY <1>2 DEF MarkRunResult
  <2>2. over => next = None
    OBVIOUS
  <2>3. ~over => next > clock[j]
    BY NextType DEF JobRecord, None, TypeInv, FilesTyped
  <2> HIDE DEF next
  <2> QED BY <1>2, <2>1, <2>2, <2>3
<1> QED BY <1>1, <1>2

LEMMA CommandEffect ==
  ASSUME TypeInv, NEW j \in Job, NEW c \in Commands, NEW r \in JobRecord,
         r.status = "absent" => ~r.requested /\ r.next = None
  PROVE  LET n == Command(r, j, c) IN
         /\ n.status = "absent" => ~n.requested /\ n.next = None
         /\ n.status # "absent" => r.status # "absent" /\ n.runCount = r.runCount
         /\ n.requested => r.requested \/ c = "requestRun"
         /\ n.next \in {r.next, None, clock[j] + 1}
         /\ n.status = "completed" => r.status = "completed"
         /\ r.status = "completed" => n.status = "absent" \/ Revives(r, c)
<1>1. CASE r.status = "absent"
  BY <1>1 DEF Command
<1>2. CASE r.status # "absent" /\ c = "pause"
  BY <1>2 DEF Command, JobRecord, Revives
<1>3. CASE r.status # "absent" /\ c = "resume"
  BY <1>3, NextType DEF Command, JobRecord, Revives
<1>4. CASE r.status # "absent" /\ c = "requestRun"
  BY <1>4 DEF Command, JobRecord, Revives
<1>5. CASE r.status # "absent" /\ c = "remove"
  BY <1>5 DEF Command, Absent
<1> QED BY <1>1, <1>2, <1>3, <1>4, <1>5 DEF Commands

-----------------------------------------------------------------------------
(* What the jobs file promises.                                              *)

LEMMA InitFile == ASSUME Init, TypeInv PROVE FileInv
<1>1. \A j \in Job : /\ file[j].next = 1 /\ ~file[j].requested /\ file[j].runCount = 0
                     /\ file[j].status \in {"active", "paused"}
  BY DEF Init
<1>2. \A p \in Ticker, j \in Job : ~Pending(p, j) /\ ~RunsJob(p, j)
  BY DEF Init, Pending, RunsJob, Process, BeforeRun, InRun
<1>3. \A j \in Job : ~Running(j) /\ ~Waits(j)
  BY <1>2 DEF Running, Waits
<1>4. RunsInv
  <2>1. \A j \in Job, k \in Occurrence : runsOf[j][k] = 0 /\ thrown[j][k] = 0
    <3>1. Occurrence \subseteq 0..MaxOccurrence
      BY CronAssumption DEF Occurrence
    <3>2. \A j \in Job, k \in Occurrence : runsOf[j][k] = 0
      BY DEF Init
    <3>3. \A j \in Job : \A k \in 0..MaxOccurrence : thrown[j][k] = 0
      BY DEF Init
    <3> QED BY <3>1, <3>2, <3>3
  <2> QED BY <1>2, <2>1 DEF RunsInv
<1>5. RequestInv
  <2>1. None \in 0..MaxOccurrence
    BY CronAssumption DEF None
  <2>2. \A j \in Job : requestRuns[j] = 0 /\ requests[j] = 0 /\ thrown[j][None] = 0
    BY <2>1 DEF Init
  <2>3. \A j \in Job : ~Owed(j) /\ file[j].status # "absent"
    BY <1>1, <1>2 DEF Owed
  <2> QED BY <2>2, <2>3 DEF RequestInv
<1>6. RepeatInv
  BY <1>1, <1>3, RepeatType DEF Init, RepeatInv, RepeatOf, Bound, Limit
<1> QED BY <1>4, <1>5, <1>6 DEF FileInv

LEMMA FileRecords == ASSUME TypeInv, NEW j \in Job PROVE file[j] \in JobRecord
  BY JobRecords DEF TypeInv, FilesTyped

(* A step that saves the record of one job.                                  *)
LEMMA FileSaved ==
  ASSUME TypeInv, NEW j \in Job, NEW r, file' = [file EXCEPT ![j] = r]
  PROVE  file'[j] = r /\ \A i \in Job \ {j} : file'[i] = file[i]
  BY JobRecords DEF TypeInv, FilesTyped

(* A run that starts is counted once.                                        *)
LEMMA RunCounted ==
  ASSUME TypeInv, NEW j \in Job, NEW k \in 0..MaxOccurrence, CountRun(j, k)
  PROVE  /\ \A i \in Job : runs'[i] = runs[i] + (IF i = j THEN 1 ELSE 0)
         /\ \A i \in Job, n \in Occurrence :
              runsOf'[i][n] = runsOf[i][n] + (IF i = j /\ n = k THEN 1 ELSE 0)
         /\ \A i \in Job :
              requestRuns'[i] = requestRuns[i] + (IF i = j /\ k = None THEN 1 ELSE 0)
<1>1. /\ \A i \in Job : requestRuns[i] + 0 = requestRuns[i]
      /\ \A i \in Job, n \in Occurrence : runsOf[i][n] + 0 = runsOf[i][n]
  <2>1. \A i \in Job : requestRuns[i] \in Nat /\ runsOf[i] \in [Occurrence -> Nat]
    BY DEF TypeInv, CountsTyped
  <2> QED BY <2>1
<1>2. \A i \in Job : runs'[i] = runs[i] + (IF i = j THEN 1 ELSE 0)
  BY Counted DEF CountRun, TypeInv, CountsTyped
<1>3. CASE k = None
  <2>1. \A i \in Job : requestRuns'[i] = requestRuns[i] + (IF i = j THEN 1 ELSE 0)
    BY <1>3, Counted DEF CountRun, TypeInv, CountsTyped
  <2>2. UNCHANGED runsOf /\ \A n \in Occurrence : n # k
    BY <1>3, CronAssumption DEF CountRun, None, Occurrence
  <2> QED BY <1>1, <1>2, <1>3, <2>1, <2>2
<1>4. CASE k # None
  <2>1. k \in Occurrence
    BY <1>4, CronAssumption DEF None, Occurrence
  <2>2. \A i \in Job, n \in Occurrence :
          runsOf'[i][n] = runsOf[i][n] + (IF i = j /\ n = k THEN 1 ELSE 0)
    <3>1. runsOf \in [Job -> [Occurrence -> Nat]]
      BY DEF TypeInv, CountsTyped
    <3>2. runsOf' = [runsOf EXCEPT ![j][k] = @ + 1]
      BY <1>4 DEF CountRun
    <3> QED BY <2>1, <3>1, <3>2, PairCounted
  <2>3. UNCHANGED requestRuns
    BY <1>4 DEF CountRun
  <2> QED BY <1>1, <1>2, <1>4, <2>2, <2>3
<1> QED BY <1>3, <1>4

(* The counts of the histories are numbers.                                  *)
LEMMA CountTypes ==
  ASSUME TypeInv, NEW j \in Job
  PROVE  /\ runs[j] \in Nat /\ requests[j] \in Nat /\ requestRuns[j] \in Nat
         /\ revived[j] \in Nat /\ unrecorded[j] \in Nat
         /\ \A k \in Occurrence : runsOf[j][k] \in Nat /\ thrown[j][k] \in Nat
         /\ thrown[j][None] \in Nat
  BY CronAssumption DEF TypeInv, CountsTyped, Occurrence, None

LEMMA NextRuns ==
  ASSUME TypeInv, TypeInv', LockInv, WorkInv, RunsInv, RequestInv, FileKinds, ~raced, ~raced'
  PROVE  RunsInv'
<1>1. \A j \in Job : clock[j] \in Nat /\ clock'[j] \in Nat /\ clock[j] + 1 > clock[j]
  BY DEF TypeInv, FilesTyped
<1>2. Occurrence \subseteq 0..MaxOccurrence /\ None \notin Occurrence /\ Occurrence \subseteq Nat
  BY CronAssumption DEF Occurrence, None
<1>3. ASSUME UNCHANGED <<file, runsOf, thrown>>, \A j \in Job : clock[j] <= clock'[j],
             TickersStay \/ \E p \in Ticker : Others(p) /\ Quiet(p)
      PROVE  RunsInv'
  <2> SUFFICES ASSUME NEW j \in Job, NEW k \in Occurrence
               PROVE  /\ runsOf'[j][k] <= 1 + thrown'[j][k]
                      /\ k > clock'[j] => runsOf'[j][k] = 0
                      /\ file'[j].next = k /\ ~Uncaught(j, k)' => runsOf'[j][k] <= thrown'[j][k]
                      /\ \A q \in Ticker : Pending(q, j)' /\ listed'[q][j] = k
                                             => runsOf'[j][k] <= thrown'[j][k]
    BY DEF RunsInv
  <2>1. k > clock'[j] => k > clock[j]
    BY <1>1, <1>2, <1>3
  <2>2. /\ Uncaught(j, k)' <=> Uncaught(j, k)
        /\ \A q \in Ticker : Pending(q, j)' /\ listed'[q][j] = k => Pending(q, j) /\ listed[q][j] = k
    BY <1>3, RunsStay
  <2> QED BY <1>3, <2>1, <2>2 DEF RunsInv
<1>4. CASE \/ JobsStay /\ TickersStay
           \/ \E p \in Ticker : Others(p) /\ Quiet(p)
           \/ \E j \in Job : ComesDue(j)
  <2>1. UNCHANGED <<file, runsOf, thrown>> /\ \A j \in Job : clock[j] <= clock'[j]
    BY <1>1, <1>4 DEF JobsStay, Quiet, ComesDue, counts, TypeInv, FilesTyped
  <2> QED BY <1>3, <1>4, <2>1 DEF ComesDue
<1>5. ASSUME NEW p \in Ticker, Others(p), Lists(p) PROVE RunsInv'
  <2>1. \A j \in Job : \A k : ~Uncaught(j, k)
    BY <1>5, Alone DEF Lists
  <2>2. \A j \in Job, q \in Ticker, k \in Occurrence :
          Pending(q, j)' /\ listed'[q][j] = k => file[j].next = k
    BY <1>2, <1>5, AloneNext DEF Lists
  <2>3. UNCHANGED <<clock, file, runsOf, thrown>>
    BY <1>5 DEF Lists, JobsStay, counts
  <2> QED BY <2>1, <2>2, <2>3 DEF RunsInv
<1>6. ASSUME NEW p \in Ticker, Others(p), Loses(p) PROVE RunsInv'
  <2> SUFFICES ASSUME NEW j \in Job, NEW k \in Occurrence
               PROVE  /\ runsOf'[j][k] <= 1 + thrown'[j][k]
                      /\ k > clock'[j] => runsOf'[j][k] = 0
                      /\ file'[j].next = k /\ ~Uncaught(j, k)' => runsOf'[j][k] <= thrown'[j][k]
                      /\ \A q \in Ticker : Pending(q, j)' /\ listed'[q][j] = k
                                             => runsOf'[j][k] <= thrown'[j][k]
    BY DEF RunsInv
  <2> DEFINE throws == p \in plain /\ RunsJob(p, j) /\ listed[p][j] = k
  <2>1. /\ UNCHANGED <<clock, file, runsOf>>
        /\ thrown'[j][k] = thrown[j][k] + (IF throws THEN 1 ELSE 0)
    BY <1>2, <1>6 DEF Loses
  <2>2. /\ Uncaught(j, k) => Uncaught(j, k)' \/ throws
        /\ \A q \in Ticker : Pending(q, j)' /\ listed'[q][j] = k => Pending(q, j) /\ listed[q][j] = k
    BY <1>6, LossLeaves
  <2>3. runsOf[j][k] \in Nat /\ thrown[j][k] \in Nat
    BY CountTypes
  <2>4. throws => runsOf[j][k] <= thrown'[j][k]
    BY <2>1, <2>3 DEF RunsInv
  <2>5. /\ thrown[j][k] <= thrown'[j][k] /\ thrown'[j][k] \in Nat
    BY <2>1, <2>3
  <2> HIDE DEF throws
  <2>6. runsOf[j][k] <= thrown[j][k] => runsOf[j][k] <= thrown'[j][k]
    BY <2>3, <2>5
  <2>7. runsOf[j][k] <= 1 + thrown'[j][k]
    BY <2>3, <2>5 DEF RunsInv
  <2> QED BY <2>1, <2>2, <2>4, <2>6, <2>7 DEF RunsInv
<1>7. ASSUME NEW p \in Ticker, Others(p), NEW j \in Job, StartsRun(p, j) PROVE RunsInv'
  <2>1. PICK n \in 0..MaxOccurrence : n = listed[p][j]
    BY DEF TypeInv, PlacesTyped
  <2>2. \A i \in Job, k \in Occurrence :
          runsOf'[i][k] = runsOf[i][k] + (IF i = j /\ k = n THEN 1 ELSE 0)
    BY <1>7, <2>1, RunCounted DEF StartsRun
  <2>3. /\ UNCHANGED <<clock, thrown, listed>> /\ Pending(p, j) /\ pc[p] \in Ticking
        /\ \A i \in Job : Pending(p, i)' => i # j /\ Pending(p, i)
        /\ \A i \in Job : ~RunsJob(p, i) /\ (RunsJob(p, i)' <=> i = j)
    BY <1>7 DEF StartsRun
  <2>4. n <= clock[j] /\ \A k \in Occurrence : k = n => runsOf[j][k] <= thrown[j][k]
    BY <2>1, <2>3 DEF WorkInv, WorkOf, RunsInv
  <2>5. \A i \in Job, q \in Ticker : Pending(q, i)' => q = p /\ i # j /\ Pending(p, i)
    BY <1>7, <2>3, AloneNext
  <2>6. /\ \A i \in Job : \A k : ~Uncaught(i, k)
        /\ \A i \in Job : \A k : Uncaught(i, k)' <=> p \in plain' /\ i = j /\ n = k
    BY <1>7, <2>1, <2>3, Alone, AloneNext
  <2>7. \A i \in Job \ {j} : file'[i] = file[i]
    BY <1>7, FileSaved DEF StartsRun
  <2>8. (UNCHANGED file /\ p \in plain') \/ file'[j].next \in {None, clock[j] + 1}
    <3>1. CASE file' = [file EXCEPT ![j] = AdvanceNextRun(@, j)]
      <4>1. file'[j] = AdvanceNextRun(file[j], j)
        BY <3>1, FileSaved
      <4> QED BY <4>1, FileRecords, AdvanceEffect DEF RequestInv
    <3> QED BY <1>7, <3>1 DEF StartsRun
  <2> SUFFICES ASSUME NEW i \in Job, NEW k \in Occurrence
               PROVE  /\ runsOf'[i][k] <= 1 + thrown'[i][k]
                      /\ k > clock'[i] => runsOf'[i][k] = 0
                      /\ file'[i].next = k /\ ~Uncaught(i, k)' => runsOf'[i][k] <= thrown'[i][k]
                      /\ \A q \in Ticker : Pending(q, i)' /\ listed'[q][i] = k
                                             => runsOf'[i][k] <= thrown'[i][k]
    BY DEF RunsInv
  <2>9. runsOf[i][k] \in Nat /\ thrown[i][k] \in Nat
    BY CountTypes
  <2>10. CASE i # j
    <3>1. runsOf'[i][k] = runsOf[i][k] /\ file'[i] = file[i] /\ ~Uncaught(i, k)
      BY <2>2, <2>6, <2>7, <2>9, <2>10
    <3> QED BY <2>3, <2>5, <3>1 DEF RunsInv
  <2>11. CASE i = j
    <3>1. /\ runsOf'[j][k] <= 1 + thrown[j][k]
          /\ k # n => runsOf'[j][k] = runsOf[j][k]
      BY <2>2, <2>4, <2>9, <2>11 DEF RunsInv
    <3>2. k > clock[j] => k # n /\ runsOf'[j][k] = 0
      BY <1>1, <1>2, <2>4, <3>1 DEF RunsInv
    <3>3. file'[j].next = k /\ ~Uncaught(j, k)' => runsOf'[j][k] <= thrown[j][k]
      <4>1. CASE UNCHANGED file /\ p \in plain'
        BY <2>6, <3>1, <4>1 DEF RunsInv
      <4>2. CASE file'[j].next \in {None, clock[j] + 1}
        <5>1. file'[j].next = k => k > clock[j]
          BY <1>1, <1>2, <4>2
        <5> QED BY <2>9, <2>11, <3>2, <5>1
      <4> QED BY <2>8, <4>1, <4>2
    <3> QED BY <2>3, <2>5, <2>11, <3>1, <3>2, <3>3
  <2> QED BY <2>10, <2>11
<1>8. ASSUME NEW p \in Ticker, Others(p), NEW j \in Job, EndsRun(p, j) PROVE RunsInv'
  <2>1. file'[j] = MarkRunResult(file[j], j) /\ \A i \in Job \ {j} : file'[i] = file[i]
    BY <1>8, FileSaved DEF EndsRun
  <2>2. file'[j].next = None \/ file'[j].next > clock[j]
    BY <2>1, FileRecords, MarkEffect DEF RequestInv
  <2>3. /\ \A i \in Job \ {j} : \A k : ~Uncaught(i, k)
        /\ \A i \in Job, q \in Ticker : \A k : Pending(q, i)' /\ listed'[q][i] = k
                                             => Pending(q, i) /\ listed[q][i] = k
    <3>1. pc[p] \in Ticking /\ RunsJob(p, j)
      BY <1>8 DEF EndsRun
    <3>2. \A i \in Job \ {j} : ~RunsJob(p, i)
      BY <3>1 DEF RunsJob
    <3>3. \A i \in Job \ {j} : \A k : ~Uncaught(i, k)
      BY <3>1, <3>2, Alone
    <3> QED BY <1>8, <3>3, OthersWork DEF EndsRun
  <2>4. \A i \in Job, k \in Occurrence : file'[i].next = k => runsOf[i][k] <= thrown[i][k]
    <3> SUFFICES ASSUME NEW i \in Job, NEW k \in Occurrence, file'[i].next = k
                 PROVE  runsOf[i][k] <= thrown[i][k]
      OBVIOUS
    <3>1. CASE i = j
      BY <1>2, <2>2, <3>1, CountTypes DEF RunsInv
    <3>2. CASE i # j
      BY <2>1, <2>3, <3>2 DEF RunsInv
    <3> QED BY <3>1, <3>2
  <2>5. UNCHANGED <<clock, runsOf, thrown>>
    BY <1>8 DEF EndsRun, counts
  <2> QED BY <2>3, <2>4, <2>5 DEF RunsInv
<1>9. ASSUME NEW j \in Job, NEW c \in Commands, Edits(j, c) PROVE RunsInv'
  <2>1. file'[j] = Command(file[j], j, c) /\ \A i \in Job \ {j} : file'[i] = file[i]
    BY <1>9, FileSaved DEF Edits
  <2>2. file'[j].next \in {file[j].next, None, clock[j] + 1}
    BY <2>1, FileRecords, CommandEffect DEF RequestInv
  <2>3. UNCHANGED <<clock, runsOf, thrown>> /\ TickersStay
    BY <1>9 DEF Edits
  <2> SUFFICES ASSUME NEW i \in Job, NEW k \in Occurrence
               PROVE  /\ runsOf'[i][k] <= 1 + thrown'[i][k]
                      /\ k > clock'[i] => runsOf'[i][k] = 0
                      /\ file'[i].next = k /\ ~Uncaught(i, k)' => runsOf'[i][k] <= thrown'[i][k]
                      /\ \A q \in Ticker : Pending(q, i)' /\ listed'[q][i] = k
                                             => runsOf'[i][k] <= thrown'[i][k]
    BY DEF RunsInv
  <2>4. /\ Uncaught(i, k)' <=> Uncaught(i, k)
        /\ \A q \in Ticker : Pending(q, i)' /\ listed'[q][i] = k => Pending(q, i) /\ listed[q][i] = k
    BY <2>3, RunsStay
  <2>5. file'[i].next = k => file[i].next = k \/ k > clock[i]
    BY <1>1, <1>2, <2>1, <2>2
  <2>6. k > clock[i] => runsOf[i][k] <= thrown[i][k]
    BY CountTypes DEF RunsInv
  <2> QED BY <2>3, <2>4, <2>5, <2>6 DEF RunsInv
<1> QED BY <1>4, <1>5, <1>6, <1>7, <1>8, <1>9, Zenon DEF FileKinds

LEMMA NextRequests ==
  ASSUME TypeInv, TypeInv', LockInv, WorkInv, RequestInv, FileKinds, ~raced, ~raced'
  PROVE  RequestInv'
<1>1. ASSUME UNCHANGED <<requests, requestRuns, thrown, file>>, \A j \in Job : Owed(j)' => Owed(j)
      PROVE  RequestInv'
  BY <1>1 DEF RequestInv
<1>2. CASE \/ JobsStay /\ TickersStay
           \/ \E p \in Ticker : Others(p) /\ Quiet(p)
           \/ \E j \in Job : ComesDue(j)
  <2>1. UNCHANGED <<requests, requestRuns, thrown, file>>
    BY <1>2 DEF JobsStay, Quiet, ComesDue, counts
  <2>2. \A j \in Job : Owed(j)' => Owed(j)
    BY <1>2, <2>1, RunsStay DEF Owed, ComesDue
  <2> QED BY <1>1, <2>1, <2>2
<1>3. ASSUME NEW p \in Ticker, Others(p), Lists(p) PROVE RequestInv'
  <2>1. \A j \in Job : \A k : ~Uncaught(j, k)
    BY <1>3, Alone DEF Lists
  <2>2. \A j \in Job, q \in Ticker : Pending(q, j)' /\ listed'[q][j] = None => file[j].requested
    BY <1>3, AloneNext DEF Lists, Due
  <2>3. UNCHANGED <<requests, requestRuns, thrown, file>>
    BY <1>3 DEF Lists, JobsStay, counts
  <2>4. \A j \in Job : Owed(j)' => Owed(j)
    BY <2>1, <2>2, <2>3 DEF Owed
  <2> QED BY <1>1, <2>3, <2>4
<1>4. ASSUME NEW p \in Ticker, Others(p), Loses(p) PROVE RequestInv'
  <2> SUFFICES ASSUME NEW j \in Job
               PROVE  /\ requestRuns'[j] <= requests'[j] + thrown'[j][None]
                      /\ Owed(j)' => requestRuns'[j] < requests'[j] + thrown'[j][None]
                      /\ file'[j].status = "absent" => ~file'[j].requested /\ file'[j].next = None
    BY DEF RequestInv
  <2> DEFINE throws == p \in plain /\ RunsJob(p, j) /\ listed[p][j] = None
  <2>1. None \in 0..MaxOccurrence
    BY CronAssumption DEF None
  <2>2. /\ UNCHANGED <<file, requests, requestRuns>>
        /\ thrown'[j][None] = thrown[j][None] + (IF throws THEN 1 ELSE 0)
    BY <1>4, <2>1 DEF Loses
  <2>3. /\ Uncaught(j, None) => Uncaught(j, None)' \/ throws
        /\ \A q \in Ticker : Pending(q, j)' /\ listed'[q][j] = None
                               => Pending(q, j) /\ listed[q][j] = None
    BY <1>4, LossLeaves
  <2> HIDE DEF throws
  <2>4. Owed(j)' => Owed(j) \/ throws
    BY <2>2, <2>3 DEF Owed
  <2>5. /\ requestRuns[j] \in Nat /\ requests[j] \in Nat /\ thrown[j][None] \in Nat
    BY CountTypes
  <2>6. /\ requestRuns[j] <= requests[j] + thrown[j][None]
        /\ Owed(j) => requestRuns[j] < requests[j] + thrown[j][None]
    BY DEF RequestInv
  <2>7. /\ requestRuns[j] <= requests[j] + thrown'[j][None]
        /\ Owed(j)' => requestRuns[j] < requests[j] + thrown'[j][None]
    BY <2>2, <2>4, <2>5, <2>6
  <2> QED BY <2>2, <2>7 DEF RequestInv
<1>5. ASSUME NEW p \in Ticker, Others(p), NEW j \in Job, StartsRun(p, j) PROVE RequestInv'
  <2>1. PICK n \in 0..MaxOccurrence : n = listed[p][j]
    BY DEF TypeInv, PlacesTyped
  <2>2. \A i \in Job :
          requestRuns'[i] = requestRuns[i] + (IF i = j /\ n = None THEN 1 ELSE 0)
    BY <1>5, <2>1, RunCounted DEF StartsRun
  <2>3. /\ UNCHANGED <<requests, thrown, listed>> /\ Pending(p, j) /\ pc[p] \in Ticking
        /\ \A i \in Job : Pending(p, i)' => i # j /\ Pending(p, i)
        /\ \A i \in Job : ~RunsJob(p, i) /\ (RunsJob(p, i)' <=> i = j)
    BY <1>5 DEF StartsRun
  <2>4. \A i \in Job, q \in Ticker : Pending(q, i)' => q = p /\ i # j /\ Pending(p, i)
    BY <1>5, <2>3, AloneNext
  <2>5. /\ \A i \in Job : \A k : ~Uncaught(i, k)
        /\ \A i \in Job : \A k : Uncaught(i, k)' <=> p \in plain' /\ i = j /\ n = k
    BY <1>5, <2>1, <2>3, Alone, AloneNext
  <2>6. \A i \in Job \ {j} : file'[i] = file[i]
    BY <1>5, FileSaved DEF StartsRun
  <2>7. /\ \/ UNCHANGED file /\ p \in plain'
           \/ ~file'[j].requested
        /\ file'[j].status = "absent" => ~file'[j].requested /\ file'[j].next = None
    <3>1. CASE file' = [file EXCEPT ![j] = AdvanceNextRun(@, j)]
      <4>1. file'[j] = AdvanceNextRun(file[j], j)
        BY <3>1, FileSaved
      <4>2. CASE file[j].status = "absent"
        BY <4>1, <4>2 DEF AdvanceNextRun, RequestInv
      <4> QED BY <4>1, <4>2, FileRecords, AdvanceEffect DEF RequestInv
    <3>2. CASE p \in plain' /\ UNCHANGED file
      BY <3>2 DEF RequestInv
    <3> QED BY <1>5, <3>1, <3>2 DEF StartsRun
  <2>8. \A i \in Job \ {j} : Owed(i)' => Owed(i)
    BY <2>3, <2>4, <2>5, <2>6 DEF Owed
  <2>9. Owed(j)' => n # None /\ Owed(j)
    BY <2>4, <2>5, <2>7 DEF Owed
  <2>10. n = None => Owed(j)
    BY <2>1, <2>3 DEF Owed
  <2> SUFFICES ASSUME NEW i \in Job
               PROVE  /\ requestRuns'[i] <= requests'[i] + thrown'[i][None]
                      /\ Owed(i)' => requestRuns'[i] < requests'[i] + thrown'[i][None]
                      /\ file'[i].status = "absent" => ~file'[i].requested /\ file'[i].next = None
    BY DEF RequestInv
  <2>11. requestRuns[i] \in Nat /\ requests[i] \in Nat /\ thrown[i][None] \in Nat
    BY CountTypes
  <2>12. CASE i # j
    BY <2>2, <2>3, <2>6, <2>8, <2>11, <2>12 DEF RequestInv
  <2>13. CASE i = j
    BY <2>2, <2>3, <2>7, <2>9, <2>10, <2>11, <2>13 DEF RequestInv
  <2> QED BY <2>12, <2>13
<1>6. ASSUME NEW p \in Ticker, Others(p), NEW j \in Job, EndsRun(p, j) PROVE RequestInv'
  <2>1. file'[j] = MarkRunResult(file[j], j) /\ \A i \in Job \ {j} : file'[i] = file[i]
    BY <1>6, FileSaved DEF EndsRun
  <2>2. ~file'[j].requested /\ (file'[j].status = "absent" => file'[j].next = None)
    BY <2>1, FileRecords, MarkEffect DEF RequestInv, JobRecord
  <2>3. \A i \in Job \ {j} : \A k : ~Uncaught(i, k)
    <3>1. pc[p] \in Ticking /\ \A i \in Job \ {j} : ~RunsJob(p, i)
      BY <1>6 DEF EndsRun, RunsJob
    <3> QED BY <3>1, Alone
  <2>4. \A i \in Job, q \in Ticker : Pending(q, i)' /\ listed'[q][i] = None
                                      => Pending(q, i) /\ listed[q][i] = None
    BY <1>6, OthersWork DEF EndsRun
  <2>5. \A i \in Job : Owed(i)' => Owed(i)
    BY <2>1, <2>2, <2>3, <2>4 DEF Owed
  <2>6. UNCHANGED <<requests, requestRuns, thrown>>
    BY <1>6 DEF EndsRun, counts
  <2> QED BY <2>1, <2>2, <2>5, <2>6 DEF RequestInv
<1>7. ASSUME NEW j \in Job, NEW c \in Commands, Edits(j, c) PROVE RequestInv'
  <2>1. file'[j] = Command(file[j], j, c) /\ \A i \in Job \ {j} : file'[i] = file[i]
    BY <1>7, FileSaved DEF Edits
  <2>2. /\ file'[j].requested => file[j].requested \/ c = "requestRun"
        /\ file'[j].status = "absent" => ~file'[j].requested /\ file'[j].next = None
    BY <2>1, FileRecords, CommandEffect DEF RequestInv
  <2>3. UNCHANGED <<requestRuns, thrown>> /\ TickersStay
    BY <1>7 DEF Edits
  <2>4. /\ \A i \in Job \ {j} : Owed(i)' => Owed(i)
        /\ Owed(j)' => Owed(j) \/ c = "requestRun"
    BY <2>1, <2>2, <2>3, RunsStay DEF Owed
  <2>5. /\ \A i \in Job \ {j} : requests'[i] = requests[i]
        /\ requests'[j] = requests[j] + (IF c = "requestRun" THEN 1 ELSE 0)
    BY <1>7, CountTypes DEF Edits, TypeInv, CountsTyped
  <2>6. /\ requestRuns[j] <= requests'[j] + thrown[j][None]
        /\ Owed(j)' => requestRuns[j] < requests'[j] + thrown[j][None]
    BY <2>4, <2>5, CountTypes DEF RequestInv
  <2> QED BY <2>1, <2>2, <2>3, <2>4, <2>5, <2>6 DEF RequestInv
<1> QED BY <1>2, <1>3, <1>4, <1>5, <1>6, <1>7, Zenon DEF FileKinds

(* The promise holds for a job whose runs and record stay.                   *)
LEMMA RepeatStays ==
  ASSUME NEW j \in Job, RepeatOf(j),
         runs'[j] = runs[j], unrecorded'[j] = unrecorded[j], revived'[j] = revived[j],
         file'[j] = file[j], Running(j)' <=> Running(j),
         Waits(j)' => Waits(j) \/ (file[j].status = "active" /\ runs[j] < Bound(j))
  PROVE  RepeatOf(j)'
<1>1. Bound(j)' = Bound(j)
  BY DEF Bound, Limit
<1> QED BY <1>1 DEF RepeatOf, Limit

LEMMA NextRepeat ==
  ASSUME TypeInv, TypeInv', LockInv, WorkInv, RequestInv, RepeatInv, FileKinds, ~raced, ~raced'
  PROVE  RepeatInv'
<1>1. \A j \in Job : /\ runs[j] \in Nat /\ unrecorded[j] \in Nat /\ revived[j] \in Nat
                     /\ Limit(j) \in Nat /\ file[j].runCount \in Nat
  BY CountTypes, RepeatType, FileRecords DEF Limit, JobRecord
<1>2. SUFFICES ASSUME NEW i \in Job, Limit(i) > 0 PROVE RepeatOf(i)'
  BY DEF RepeatInv, Limit
<1>3. RepeatOf(i)
  BY <1>2 DEF RepeatInv
<1>4. CASE \/ JobsStay /\ TickersStay
           \/ \E p \in Ticker : Others(p) /\ Quiet(p)
           \/ \E j \in Job : ComesDue(j)
  <2>1. UNCHANGED <<runs, unrecorded, revived, file>>
    BY <1>4 DEF JobsStay, Quiet, ComesDue, counts
  <2>2. (Running(i)' <=> Running(i)) /\ (Waits(i)' => Waits(i))
    BY <1>4, RunsStay DEF ComesDue
  <2> QED BY <1>3, <2>1, <2>2, RepeatStays
<1>5. ASSUME NEW p \in Ticker, Others(p), Lists(p) PROVE RepeatOf(i)'
  <2>1. UNCHANGED <<runs, unrecorded, revived, file>>
    BY <1>5 DEF Lists, JobsStay, counts
  <2>2. ~Running(i) /\ ~Running(i)' /\ (Waits(i)' => file[i].status = "active")
    BY <1>5, Alone, AloneNext DEF Lists, Due
  <2>3. file[i].status = "active" => runs[i] < Bound(i)
    BY <1>1, <1>3, <2>2 DEF RepeatOf, Bound
  <2> QED BY <1>3, <2>1, <2>2, <2>3, RepeatStays
<1>6. ASSUME NEW p \in Ticker, Others(p), Loses(p) PROVE RepeatOf(i)'
  <2>1. /\ UNCHANGED <<runs, revived, file>>
        /\ unrecorded'[i] = unrecorded[i] + (IF RunsJob(p, i) THEN 1 ELSE 0)
    BY <1>6 DEF Loses
  <2>2. (Waits(i)' => Waits(i)) /\ (~RunsJob(p, i) => (Running(i)' <=> Running(i)))
    BY <1>6, LossLeaves
  <2>3. CASE ~RunsJob(p, i)
    BY <1>1, <1>3, <2>1, <2>2, <2>3, RepeatStays
  <2>4. CASE RunsJob(p, i)
    <3>1. pc[p] \in Ticking
      BY <2>4 DEF RunsJob, Ticking, WithJob
    <3>2. Running(i) /\ ~Running(i)'
      BY <1>6, <2>4, <3>1, Alone, AloneNext DEF Loses
    <3>3. Bound(i)' = Bound(i) + 1 /\ Bound(i) \in Nat
      BY <1>1, <2>1, <2>4 DEF Bound, Limit
    <3>4. /\ runs[i] <= Bound(i)' /\ (Waits(i)' => runs[i] < Bound(i)')
          /\ Waits(i)' => file[i].status # "completed"
      BY <1>1, <1>3, <2>2, <3>3 DEF RepeatOf
    <3>5. file[i].status # "absent" => runs[i] = file[i].runCount + unrecorded'[i]
      BY <1>1, <1>3, <2>1, <2>4, <3>2 DEF RepeatOf
    <3> QED BY <1>1, <1>3, <2>1, <3>2, <3>4, <3>5 DEF RepeatOf, Limit
  <2> QED BY <2>3, <2>4
<1>7. ASSUME NEW p \in Ticker, Others(p), NEW j \in Job, StartsRun(p, j) PROVE RepeatOf(i)'
  <2>1. listed[p][j] \in 0..MaxOccurrence
    BY DEF TypeInv, PlacesTyped
  <2>2. /\ runs'[i] = runs[i] + (IF i = j THEN 1 ELSE 0) /\ UNCHANGED <<unrecorded, revived>>
    BY <1>7, <2>1, RunCounted DEF StartsRun
  <2>3. /\ ~Running(i) /\ (Running(i)' <=> i = j)
        /\ Waits(i)' => i # j /\ Waits(i)
        /\ Waits(j)
    BY <1>7, Alone, AloneNext DEF StartsRun
  <2>4. CASE i # j
    <3>1. file'[i] = file[i]
      BY <1>7, <2>4, FileSaved DEF StartsRun
    <3> QED BY <1>1, <1>3, <2>2, <2>3, <2>4, <3>1, RepeatStays
  <2>5. CASE i = j
    <3>1. file'[j].status = file[j].status /\ file'[j].runCount = file[j].runCount
      <4>1. CASE UNCHANGED file
        BY <4>1
      <4>2. CASE file' = [file EXCEPT ![j] = AdvanceNextRun(@, j)]
        <5>1. file'[j] = AdvanceNextRun(file[j], j)
          BY <4>2, FileSaved
        <5> QED BY <5>1, FileRecords, AdvanceEffect DEF RequestInv
      <4> QED BY <1>7, <4>1, <4>2 DEF StartsRun
    <3>2. Bound(j)' = Bound(j) /\ Bound(j) \in Nat /\ runs[j] < Bound(j)
      BY <1>1, <1>3, <2>2, <2>3, <2>5 DEF Bound, Limit, RepeatOf
    <3>3. runs'[j] <= Bound(j)' /\ ~Waits(j)' /\ file'[j].status # "completed" /\ Running(j)'
      BY <1>1, <1>3, <2>2, <2>3, <2>5, <3>1, <3>2 DEF RepeatOf
    <3>4. file'[j].status # "absent" => runs'[j] = file'[j].runCount + unrecorded'[j] + 1
      BY <1>1, <1>3, <2>2, <2>3, <2>5, <3>1 DEF RepeatOf
    <3> QED BY <1>3, <2>2, <2>5, <3>1, <3>3, <3>4 DEF RepeatOf, Limit
  <2> QED BY <2>4, <2>5
<1>8. ASSUME NEW p \in Ticker, Others(p), NEW j \in Job, EndsRun(p, j) PROVE RepeatOf(i)'
  <2>1. /\ file'[j] = MarkRunResult(file[j], j) /\ (i # j => file'[i] = file[i])
        /\ UNCHANGED <<runs, unrecorded, revived>>
    BY <1>8, FileSaved DEF EndsRun, counts
  <2>2. (Running(i) <=> i = j) /\ ~Running(i)' /\ (Waits(i)' => Waits(i))
    BY <1>8, Alone, AloneNext DEF EndsRun, RunsJob
  <2>3. CASE i # j
    BY <1>3, <2>1, <2>2, <2>3, RepeatStays
  <2>4. CASE i = j
    <3> DEFINE over == (Repeat[j] > 0 /\ file[j].runCount + 1 >= Repeat[j]) \/ j \in Once
    <3>1. /\ file[j].status = "absent" => file'[j] = file[j]
          /\ file[j].status # "absent" =>
               /\ file'[j].status = IF over THEN "completed" ELSE file[j].status
               /\ file'[j].runCount = file[j].runCount + 1
      BY <2>1, FileRecords, MarkEffect DEF RequestInv
    <3>2. ~over => file[j].runCount + 1 < Limit(j)
      BY <1>1, <1>2, <2>4, RepeatType DEF Limit
    <3> HIDE DEF over
    <3>3. Bound(j)' = Bound(j) /\ ~Waits(j)
      <4>1. ~Pending(p, j)
        BY <1>8 DEF EndsRun, RunsJob, Pending, WorkInv, WorkOf, InRun, BeforeRun, WithJob
      <4>2. pc[p] \in Ticking
        BY <1>8 DEF EndsRun
      <4> QED BY <2>1, <4>1, <4>2, Alone DEF Bound, Limit
    <3>4. file[j].status # "completed" /\ runs[j] <= Bound(j)
      BY <1>3, <2>2, <2>4 DEF RepeatOf
    <3>5. file'[j].status # "absent" =>
            /\ runs[j] = file'[j].runCount + unrecorded[j]
            /\ file'[j].runCount <= Limit(j) + revived[j]
            /\ file'[j].status # "completed" => file'[j].runCount < Limit(j) + revived[j]
      <4>1. file'[j].status # "absent" => file[j].status # "absent"
        BY <3>1
      <4>2. file[j].status # "absent" => /\ runs[j] = file[j].runCount + unrecorded[j] + 1
                                         /\ file[j].runCount < Limit(j) + revived[j]
        BY <1>3, <2>2, <2>4, <3>4 DEF RepeatOf
      <4>3. /\ Limit(j) \in Nat /\ revived[j] \in Nat /\ unrecorded[j] \in Nat
            /\ file[j].runCount \in Nat
        BY <1>1
      <4>4. SUFFICES ASSUME file'[j].status # "absent"
                     PROVE  /\ runs[j] = file'[j].runCount + unrecorded[j]
                            /\ file'[j].runCount <= Limit(j) + revived[j]
                            /\ file'[j].status # "completed" =>
                                 file'[j].runCount < Limit(j) + revived[j]
        OBVIOUS
      <4>5. file'[j].runCount = file[j].runCount + 1 /\ (file'[j].status # "completed" => ~over)
        BY <3>1, <4>1, <4>4
      <4>6. runs[j] = file[j].runCount + unrecorded[j] + 1 /\ file[j].runCount < Limit(j) + revived[j]
        BY <4>1, <4>2, <4>4
      <4> QED BY <3>2, <4>3, <4>5, <4>6
    <3>6. file'[j].status # "absent" =>
            runs[j] = file'[j].runCount + unrecorded[j] + (IF Running(j)' THEN 1 ELSE 0)
      <4>1. file'[j].status # "absent" => file'[j].runCount \in Nat
        BY <1>1, <2>4, <3>1
      <4> QED BY <1>1, <2>2, <2>4, <3>5, <4>1
    <3> QED BY <2>1, <2>2, <2>4, <3>3, <3>4, <3>5, <3>6 DEF RepeatOf, Limit
  <2> QED BY <2>3, <2>4
<1>9. ASSUME NEW j \in Job, NEW c \in Commands, Edits(j, c) PROVE RepeatOf(i)'
  <2>1. /\ file'[j] = Command(file[j], j, c) /\ (i # j => file'[i] = file[i])
        /\ UNCHANGED <<runs, unrecorded>> /\ TickersStay
    BY <1>9, FileSaved DEF Edits
  <2>2. /\ i # j => revived'[i] = revived[i]
        /\ revived'[j] = revived[j] + (IF Revives(file[j], c) THEN 1 ELSE 0)
    BY <1>1, <1>9 DEF Edits, TypeInv, CountsTyped
  <2>3. (Running(i)' <=> Running(i)) /\ (Waits(i)' => Waits(i))
    BY <2>1, RunsStay
  <2>4. CASE i # j
    BY <1>3, <2>1, <2>2, <2>3, <2>4, RepeatStays
  <2>5. CASE i = j
    <3>1. /\ file'[j].status # "absent" => file[j].status # "absent" /\ file'[j].runCount = file[j].runCount
          /\ file'[j].status = "completed" => file[j].status = "completed"
          /\ file[j].status = "completed" => file'[j].status = "absent" \/ Revives(file[j], c)
      BY <2>1, FileRecords, CommandEffect DEF RequestInv
    <3>2. /\ Bound(j)' = Bound(j) + (IF Revives(file[j], c) THEN 1 ELSE 0) /\ Bound(j) \in Nat
          /\ Bound(j)' \in Nat
      BY <1>1, <2>1, <2>2 DEF Bound, Limit
    <3>3. runs[j] <= Bound(j)' /\ (Waits(j)' => runs[j] < Bound(j)')
      BY <1>1, <1>3, <2>3, <2>5, <3>2 DEF RepeatOf
    <3>4. Waits(j)' \/ Running(j)' => file'[j].status # "completed"
      BY <1>3, <2>3, <2>5, <3>1 DEF RepeatOf
    <3>5. file'[j].status # "absent" =>
            /\ runs[j] = file'[j].runCount + unrecorded[j] + (IF Running(j) THEN 1 ELSE 0)
            /\ file'[j].runCount <= Limit(j) + revived'[j]
            /\ file'[j].status # "completed" => file'[j].runCount < Limit(j) + revived'[j]
      BY <1>1, <1>3, <2>2, <2>5, <3>1 DEF RepeatOf
    <3> QED BY <2>1, <2>3, <2>5, <3>3, <3>4, <3>5 DEF RepeatOf, Limit
  <2> QED BY <2>4, <2>5
<1> QED BY <1>4, <1>5, <1>6, <1>7, <1>8, <1>9, Zenon DEF FileKinds

-----------------------------------------------------------------------------
(* The theorems.                                                             *)

LEMMA NextFile ==
  ASSUME TypeInv, TypeInv', LockInv, WorkInv, FileInv, [Next]_vars
  PROVE  FileInv'
<1>1. FileKinds
  BY NextFileKinds
<1>2. ~raced' => ~raced
  <2> USE DEF jobVars, lockVars, procVars, counts, history
  <2>1. ASSUME NEW p \in Ticker, Tick(p) \/ Throws(p) \/ Crash(p) \/ Restart(p)
        PROVE  ~raced' => ~raced
    BY <2>1
    DEF Tick, OpenTickLock, FindStaleTickLock, RemoveStaleTickLock, ReopenTickLock,
        WriteTickLock, EndTick, ListDue, OpenJobLock, SkipLockedJob, FindStaleJobLock,
        RemoveStaleJobLock, ReopenJobLock, WriteJobLock, AdvanceLoad, AdvanceSaveAndRun,
        RunLegacy, MarkLoad, MarkSave, ReleaseJobLock, Crash, Restart, Save, Throws,
        ThrowsBeforeRun, RunThrows, RecordThrows, RemoveTickLock, Release
  <2>2. ASSUME NEW p \in Editor, EditLoad(p) \/ EditSave(p) PROVE ~raced' => ~raced
    BY <2>2 DEF EditLoad, EditSave, Save
  <2>3. CASE \/ UNCHANGED vars \/ TickLockTimesOut
             \/ \E j \in Job : OccurrenceComesDue(j) \/ JobLockTimesOut(j)
    BY <2>3 DEF vars, TickLockTimesOut, OccurrenceComesDue, JobLockTimesOut
  <2> QED BY <2>1, <2>2, <2>3, Zenon DEF Next
<1> QED BY <1>1, <1>2, NextRuns, NextRequests, NextRepeat DEF FileInv

(* Every variable of the cron model keeps its type.                          *)
THEOREM CronTypeCorrect == Spec => []TypeOK
<1>1. Init => TypeInv
  BY InitType
<1>2. TypeInv /\ [Next]_vars => TypeInv'
  BY NextTyped
<1>3. TypeInv => TypeOK
  BY TypesHold
<1> QED BY <1>1, <1>2, <1>3, PTL DEF Spec

LEMMA CronInvariant ==
  ASSUME "slow" \notin Faults
  PROVE  Spec => [](TypeInv /\ LockInv /\ WorkInv /\ FileInv)
<1> DEFINE Inv == TypeInv /\ LockInv /\ WorkInv /\ FileInv
<1>1. Init => Inv
  BY InitType, InitLocks, InitWork, InitFile
<1>2. Inv /\ [Next]_vars => Inv'
  BY NextTyped, NextLocks, NextWork, NextFile
<1> QED BY <1>1, <1>2, PTL DEF Spec

(* As long as no lock of a living process reaches its timeout, and unless two
   processes have written over each other's files, a job runs at most once for
   each occurrence and for each request, and once more only for each run of it
   that threw where no job lock was held, whatever crashes and whoever ticks. *)
THEOREM AtMostOnceHolds ==
  ASSUME "slow" \notin Faults
  PROVE  Spec => []AtMostOncePerOccurrence
<1>1. TypeInv /\ LockInv /\ WorkInv /\ FileInv => AtMostOncePerOccurrence
  BY DEF FileInv, RunsInv, RequestInv, AtMostOncePerOccurrence
<1> QED BY <1>1, CronInvariant, PTL

(* Under the same conditions a job with a limit is not run more often than that,
   for an occurrence or on request, except for one for each run that a crash or an
   exception left unrecorded and one for each command that took it out of status
   completed.                                                                 *)
THEOREM RepeatLimitHolds ==
  ASSUME "slow" \notin Faults
  PROVE  Spec => []RepeatIsRespected
<1>1. TypeInv /\ LockInv /\ WorkInv /\ FileInv => RepeatIsRespected
  BY DEF FileInv, RepeatInv, RepeatOf, RepeatIsRespected, Bound
<1> QED BY <1>1, CronInvariant, PTL
=============================================================================
