-------------------------------- MODULE Cron --------------------------------
(***************************************************************************)
(* Scheduled jobs: the jobs file that every process reads and rewrites as  *)
(* a whole, the tick lock and the per-job lock files, the processes that   *)
(* tick, and the operator's commands.                                      *)
(*                                                                         *)
(* Time is counted in occurrences: clock[j] of job j have come due, and    *)
(* nextRunAt is the number of the next one (None when undefined).  A lock  *)
(* file holds its owner's pid and start time once that has been written.   *)
(* Every file operation is a step of its own.                              *)
(***************************************************************************)
EXTENDS Naturals, FiniteSets

CONSTANTS
  Job,
  Once,            \* jobs that run once; the others recur
  Repeat,          \* Repeat[j]: runs after which j is completed; 0 = no limit
  Ticker,          \* processes that tick: a supervisor, a command line
  Legacy,          \* tickers that may tick without per-job locks: a terminal, which
                   \* gives "cron tick" or, inside a session, "/cron tick"
  Supervisor,      \* tickers that tick for ever, may crash and are started again
  Editor,          \* processes of the operator's cron commands
  NoJob, NoLock,
  Faults,          \* "torn": a crash may leave an empty tick lock; "slow": the
                   \* lock of a living process may reach its timeout; "throw":
                   \* what a tick calls may throw
  MaxOccurrence, MaxEdits, MaxStarts,
  MaxThrows        \* exceptions of runs without a job lock, for each occurrence

ASSUME CronAssumption ==
  /\ Once \subseteq Job /\ Repeat \in [Job -> Nat]
  /\ Legacy \subseteq Ticker /\ Supervisor \subseteq Ticker
  /\ Legacy \intersect Supervisor = {} /\ Ticker \intersect Editor = {}
  /\ Faults \subseteq {"torn", "slow", "throw"}
  /\ MaxOccurrence \in Nat /\ MaxEdits \in Nat /\ MaxStarts \in Nat \ {0} /\ MaxThrows \in Nat
  /\ NoLock \notin [owner : Ticker, pid : 1..MaxStarts, written : BOOLEAN, old : BOOLEAN]

Process == Ticker \union Editor
None == 0
Absent == [status |-> "absent", next |-> None, requested |-> FALSE, runCount |-> 0]

NothingLoaded == [j \in Job |-> Absent]
NothingListed == [j \in Job |-> None]

VARIABLES
  clock,      \* occurrences of a job that have come due
  file,       \* jobs.json: the record of each job, or Absent
  snapshot,   \* what a process has loaded of it and will save over it
  tickLock,   \* .tick.lock
  jobLock,    \* the lock file of each job
  seen,       \* the lock a process has found stale
  pc, todo, current,  \* a ticker's place in tickCron, its due jobs, its job
  plain,      \* the tickers whose tick is one without per-job locks
  listed,     \* the occurrence for which each job was listed, until its run has
              \* ended; None for a request
  pid,        \* the incarnation of a ticker: its starts so far
  edits,      \* commands the operator has given
  runs, runsOf,  \* runs of a job, and those for each of its occurrences (history)
  requests, requestRuns, \* runs requested, and started for a request (history)
  revived,    \* commands that took a job out of status completed (history)
  unrecorded, \* runs of a job that ended, by a crash or by an exception, without
              \* a record (history)
  thrown,     \* of these the runs without a job lock that threw, for each
              \* occurrence, or for None (history)
  raced       \* a process has overwritten or removed what another one wrote
              \* since it looked (history)

jobVars == <<clock, file>>
lockVars == <<tickLock, jobLock>>
procVars == <<snapshot, seen, pc, todo, current, plain, listed, pid, edits>>
counts == <<runs, runsOf, requests, requestRuns, revived, unrecorded, thrown>>
history == <<counts, raced>>
vars == <<jobVars, lockVars, procVars, history>>

Occurrence == 1..MaxOccurrence

(* The jobs are created, and some of them paused.                           *)
Init ==
  /\ clock = [j \in Job |-> 0]
  /\ file \in [Job -> [status : {"active", "paused"}, next : {1}, requested : {FALSE}, runCount : {0}]]
  /\ snapshot = [p \in Process |-> NothingLoaded]
  /\ tickLock = NoLock
  /\ jobLock = [j \in Job |-> NoLock]
  /\ seen = [p \in Ticker |-> NoLock]
  /\ pc = [p \in Process |-> "idle"]
  /\ todo = [p \in Ticker |-> {}]
  /\ current = [p \in Ticker |-> NoJob]
  /\ plain = {}
  /\ listed = [p \in Ticker |-> NothingListed]
  /\ pid = [p \in Ticker |-> 1]
  /\ edits = 0
  /\ runs = [j \in Job |-> 0]
  /\ runsOf = [j \in Job |-> [k \in Occurrence |-> 0]]
  /\ requests = [j \in Job |-> 0]
  /\ requestRuns = [j \in Job |-> 0]
  /\ revived = [j \in Job |-> 0]
  /\ unrecorded = [j \in Job |-> 0]
  /\ thrown = [j \in Job |-> [k \in 0..MaxOccurrence |-> 0]]
  /\ raced = FALSE

-----------------------------------------------------------------------------
(* CronStore: every change loads the file, then renames a new one over it.  *)

Reached(j, n) == n # None /\ n <= clock[j]

(* due: active jobs that are requested or whose time has come.              *)
Due(jobs) ==
  {j \in Job : jobs[j].status = "active" /\ (jobs[j].requested \/ Reached(j, jobs[j].next))}

(* computeNextRun from now; a process sees no further than the bound.       *)
NextOccurrence(j) == clock[j] + 1

MutantAdvanceNextRun(r, j) == [r EXCEPT !.requested = FALSE]

AdvanceNextRun(r, j) ==
  IF r.status = "absent" THEN r
  ELSE LET exhausted == Repeat[j] > 0 /\ r.runCount >= Repeat[j] IN
       [r EXCEPT !.next = IF exhausted \/ j \in Once THEN None ELSE NextOccurrence(j),
                 !.requested = FALSE]

MutantMarkRunResult(r, j) ==
  IF r.status = "absent" THEN r
  ELSE LET count == r.runCount + 1
           over == (Repeat[j] > 0 /\ count > Repeat[j]) \/ j \in Once
       IN [status |-> IF over THEN "completed" ELSE r.status,
           next |-> CASE over -> None
                      [] ~over /\ r.next > clock[j] -> r.next
                      [] OTHER -> NextOccurrence(j),
           requested |-> FALSE,
           runCount |-> count]

MarkRunResult(r, j) ==
  IF r.status = "absent" THEN r
  ELSE LET count == r.runCount + 1
           over == (Repeat[j] > 0 /\ count >= Repeat[j]) \/ j \in Once
       IN [status |-> IF over THEN "completed" ELSE r.status,
           next |-> CASE over -> None
                      [] ~over /\ r.next > clock[j] -> r.next
                      [] OTHER -> NextOccurrence(j),
           requested |-> FALSE,
           runCount |-> count]

Load(p) == snapshot' = [snapshot EXCEPT ![p] = file]

Save(p, jobs) ==
  /\ file' = jobs
  /\ snapshot' = [snapshot EXCEPT ![p] = NothingLoaded]
  /\ raced' = (raced \/ file # snapshot[p])

-----------------------------------------------------------------------------
(* The operator's commands: pause, resume, run, remove.  A job resumed      *)
(* after its fixed time is due at once; that counts as a new occurrence.    *)

Commands == {"pause", "resume", "requestRun", "remove"}

Command(r, j, c) ==
  IF r.status = "absent" THEN r
  ELSE CASE c = "pause" -> [r EXCEPT !.status = "paused"]
         [] c = "resume" -> [r EXCEPT !.status = "active", !.next = NextOccurrence(j)]
         [] c = "requestRun" ->
              [r EXCEPT !.status = IF @ = "completed" THEN "active" ELSE @, !.requested = TRUE]
         [] c = "remove" -> Absent

(* A completed job is one no more, or may become active by a later command. *)
Revives(r, c) == r.status = "completed" /\ c # "remove"

EditLoad(p) ==
  /\ p \in Editor /\ pc[p] = "idle"
  /\ edits < MaxEdits
  /\ edits' = edits + 1
  /\ Load(p)
  /\ pc' = [pc EXCEPT ![p] = "edit"]
  /\ UNCHANGED <<jobVars, lockVars, seen, todo, current, listed, plain, pid, history>>

EditSave(p) ==
  /\ p \in Editor /\ pc[p] = "edit"
  /\ \E j \in Job, c \in Commands :
       /\ Save(p, [snapshot[p] EXCEPT ![j] = Command(@, j, c)])
       /\ requests' = [requests EXCEPT ![j] = @ + (IF c = "requestRun" THEN 1 ELSE 0)]
       /\ revived' = [revived EXCEPT ![j] = @ + (IF Revives(snapshot[p][j], c) THEN 1 ELSE 0)]
  /\ pc' = [pc EXCEPT ![p] = "idle"]
  /\ UNCHANGED <<clock, lockVars, seen, todo, current, listed, plain, pid, edits,
                 runs, runsOf, requestRuns, unrecorded, thrown>>

-----------------------------------------------------------------------------
(* Lock files.  open(path, "wx") creates an empty file; the content follows *)
(* in a second step.                                                        *)

Opened(p) == [owner |-> p, pid |-> pid[p], written |-> FALSE, old |-> FALSE]
Mine(lock, p) == lock # NoLock /\ lock.owner = p /\ lock.pid = pid[p]
Alive(lock) == lock.pid = pid[lock.owner] /\ pc[lock.owner] # "down"

Goto(p, label) == pc' = [pc EXCEPT ![p] = label]

(* withCronTickLock, readTickLockTimestamp: an unreadable lock is in use, a *)
(* readable one is reclaimed after its timeout.                             *)
TickLockIsStale == tickLock # NoLock /\ tickLock.written /\ tickLock.old

OpenTickLock(p) ==
  /\ pc[p] = "idle"
  /\ tickLock = NoLock
  /\ tickLock' = Opened(p)
  /\ Goto(p, "tick_opened")
  /\ UNCHANGED <<jobVars, jobLock, snapshot, seen, todo, current, listed, plain, pid, edits, history>>

FindStaleTickLock(p) ==
  /\ pc[p] = "idle"
  /\ TickLockIsStale
  /\ seen' = [seen EXCEPT ![p] = tickLock]
  /\ Goto(p, "tick_stale")
  /\ UNCHANGED <<jobVars, lockVars, snapshot, todo, current, listed, plain, pid, edits, history>>

RemoveStaleTickLock(p) ==
  /\ pc[p] = "tick_stale"
  /\ tickLock' = NoLock
  /\ raced' = (raced \/ tickLock \notin {NoLock, seen[p]})
  /\ seen' = [seen EXCEPT ![p] = NoLock]
  /\ Goto(p, "tick_removed")
  /\ UNCHANGED <<jobVars, jobLock, snapshot, todo, current, listed, plain, pid, edits,
                 counts>>

(* A second open that finds a lock again throws.                            *)
ReopenTickLock(p) ==
  /\ pc[p] = "tick_removed"
  /\ IF tickLock = NoLock
     THEN tickLock' = Opened(p) /\ Goto(p, "tick_opened")
     ELSE UNCHANGED tickLock /\ Goto(p, "idle")
  /\ UNCHANGED <<jobVars, jobLock, snapshot, seen, todo, current, listed, plain, pid, edits, history>>

WriteTickLock(p) ==
  /\ pc[p] = "tick_opened"
  /\ tickLock' = IF Mine(tickLock, p) THEN [tickLock EXCEPT !.written = TRUE] ELSE tickLock
  /\ Goto(p, "due")
  /\ UNCHANGED <<jobVars, jobLock, snapshot, seen, todo, current, listed, plain, pid, edits, history>>

(* Every tick ends by removing the lock file, whoever wrote it.             *)
RemoveTickLock(p) ==
  /\ tickLock' = NoLock
  /\ raced' = (raced \/ (tickLock # NoLock /\ ~Mine(tickLock, p)))

EndTick(p) ==
  /\ pc[p] = "loop"
  /\ todo[p] = {}
  /\ RemoveTickLock(p)
  /\ plain' = plain \ {p}
  /\ Goto(p, "idle")
  /\ UNCHANGED <<jobVars, jobLock, snapshot, seen, todo, current, listed, pid, edits,
                 counts>>

MutantJobLockIsStale(j) == jobLock[j] # NoLock /\ ~jobLock[j].written

(* CronJobLock: an unreadable lock, one past its timeout and one whose      *)
(* process is dead are all reclaimed.                                       *)
JobLockIsStale(j) ==
  /\ jobLock[j] # NoLock
  /\ (~jobLock[j].written \/ jobLock[j].old \/ ~Alive(jobLock[j]))

(* The due jobs are listed once, at the beginning of the tick, which uses   *)
(* job locks or, in an interactive session, does not.                       *)
ListDue(p) ==
  /\ pc[p] = "due"
  /\ todo' = [todo EXCEPT ![p] = Due(file)]
  /\ listed' = [listed EXCEPT ![p] =
       [j \in Job |-> IF j \in Due(file) /\ Reached(j, file[j].next) THEN file[j].next ELSE None]]
  /\ Goto(p, "loop")
  /\ \E own \in SUBSET ({p} \intersect Legacy) : plain' = plain \union own
  /\ UNCHANGED <<jobVars, lockVars, snapshot, seen, current, pid, edits, history>>

(* The loop takes the next job of its list.                                 *)
TakeJob(p, j, label) ==
  /\ pc[p] = "loop"
  /\ j \in todo[p]
  /\ todo' = [todo EXCEPT ![p] = @ \ {j}]
  /\ current' = [current EXCEPT ![p] = j]
  /\ Goto(p, label)

MutantNextJob(p) == Goto(p, "release") /\ current' = [current EXCEPT ![p] = NoJob]

NextJob(p) == Goto(p, "loop") /\ current' = [current EXCEPT ![p] = NoJob]

OpenJobLock(p) ==
  /\ p \notin plain
  /\ \E j \in Job :
       /\ TakeJob(p, j, "job_opened")
       /\ jobLock[j] = NoLock
       /\ jobLock' = [jobLock EXCEPT ![j] = Opened(p)]
  /\ UNCHANGED <<jobVars, tickLock, snapshot, seen, listed, plain, pid, edits, history>>

(* A fresh lock of a living process: the job is skipped.                    *)
SkipLockedJob(p) ==
  /\ p \notin plain
  /\ \E j \in Job :
       /\ pc[p] = "loop" /\ j \in todo[p]
       /\ jobLock[j] # NoLock /\ ~JobLockIsStale(j)
       /\ todo' = [todo EXCEPT ![p] = @ \ {j}]
       /\ listed' = [listed EXCEPT ![p][j] = None]
  /\ UNCHANGED <<jobVars, lockVars, snapshot, seen, pc, current, plain, pid, edits, history>>

FindStaleJobLock(p) ==
  /\ p \notin plain
  /\ \E j \in Job :
       /\ TakeJob(p, j, "job_stale")
       /\ JobLockIsStale(j)
       /\ seen' = [seen EXCEPT ![p] = jobLock[j]]
  /\ UNCHANGED <<jobVars, lockVars, snapshot, listed, plain, pid, edits, history>>

RemoveStaleJobLock(p) ==
  /\ pc[p] = "job_stale"
  /\ jobLock' = [jobLock EXCEPT ![current[p]] = NoLock]
  /\ raced' = (raced \/ jobLock[current[p]] \notin {NoLock, seen[p]})
  /\ seen' = [seen EXCEPT ![p] = NoLock]
  /\ Goto(p, "job_removed")
  /\ UNCHANGED <<jobVars, tickLock, snapshot, todo, current, listed, plain, pid, edits, counts>>

(* A second open that finds a lock again throws, which ends the tick.       *)
ReopenJobLock(p) ==
  /\ pc[p] = "job_removed"
  /\ IF jobLock[current[p]] = NoLock
     THEN /\ jobLock' = [jobLock EXCEPT ![current[p]] = Opened(p)]
          /\ Goto(p, "job_opened")
          /\ UNCHANGED <<todo, current, listed>>
     ELSE /\ todo' = [todo EXCEPT ![p] = {}]
          /\ listed' = [listed EXCEPT ![p] = NothingListed]
          /\ NextJob(p)
          /\ UNCHANGED jobLock
  /\ UNCHANGED <<jobVars, tickLock, snapshot, seen, plain, pid, edits, history>>

WriteJobLock(p) ==
  /\ pc[p] = "job_opened"
  /\ jobLock' = [jobLock EXCEPT ![current[p]] = IF Mine(@, p) THEN [@ EXCEPT !.written = TRUE] ELSE @]
  /\ Goto(p, "locked")
  /\ UNCHANGED <<jobVars, tickLock, snapshot, seen, todo, current, listed, plain, pid, edits, history>>

-----------------------------------------------------------------------------
(* A run of a job: nextRunAt is advanced before it, the result is recorded  *)
(* after it.                                                                *)

(* runJob begins, for the occurrence or the request it was listed for.      *)
CountRun(j, k) ==
  /\ runs' = [runs EXCEPT ![j] = @ + 1]
  /\ IF k = None
     THEN requestRuns' = [requestRuns EXCEPT ![j] = @ + 1] /\ UNCHANGED runsOf
     ELSE runsOf' = [runsOf EXCEPT ![j][k] = @ + 1] /\ UNCHANGED requestRuns

AdvanceLoad(p) ==
  /\ pc[p] = "locked"
  /\ Load(p)
  /\ Goto(p, "advance")
  /\ UNCHANGED <<jobVars, lockVars, seen, todo, current, listed, plain, pid, edits, history>>

AdvanceSaveAndRun(p) ==
  /\ pc[p] = "advance"
  /\ LET j == current[p] IN
       /\ Save(p, [snapshot[p] EXCEPT ![j] = AdvanceNextRun(@, j)])
       /\ CountRun(j, listed[p][j])
  /\ Goto(p, "running")
  /\ UNCHANGED <<clock, lockVars, seen, todo, current, plain, listed, pid, edits,
                 requests, revived, unrecorded, thrown>>

(* Without a job lock the job runs at once and nothing is advanced.         *)
RunLegacy(p) ==
  /\ p \in plain
  /\ \E j \in Job :
       /\ TakeJob(p, j, "running")
       /\ CountRun(j, listed[p][j])
  /\ UNCHANGED <<jobVars, lockVars, snapshot, seen, plain, listed, pid, edits,
                 requests, revived, unrecorded, thrown, raced>>

MarkLoad(p) ==
  /\ pc[p] = "running"
  /\ Load(p)
  /\ Goto(p, "mark")
  /\ UNCHANGED <<jobVars, lockVars, seen, todo, current, listed, plain, pid, edits, history>>

MarkSave(p) ==
  /\ pc[p] = "mark"
  /\ LET j == current[p] IN Save(p, [snapshot[p] EXCEPT ![j] = MarkRunResult(@, j)])
  /\ listed' = [listed EXCEPT ![p][current[p]] = None]
  /\ IF p \in plain THEN NextJob(p) ELSE Goto(p, "release") /\ UNCHANGED current
  /\ UNCHANGED <<clock, lockVars, seen, todo, plain, pid, edits, counts>>

(* release removes the lock file, whoever wrote it.                         *)
Release(p) ==
  /\ jobLock' = [jobLock EXCEPT ![current[p]] = NoLock]
  /\ raced' = (raced \/ (jobLock[current[p]] # NoLock /\ ~Mine(jobLock[current[p]], p)))

ReleaseJobLock(p) ==
  /\ pc[p] = "release"
  /\ Release(p)
  /\ NextJob(p)
  /\ UNCHANGED <<jobVars, tickLock, snapshot, seen, todo, listed, plain, pid, edits, counts>>

-----------------------------------------------------------------------------
(* Exceptions.  Each ends the tick, whose lock is removed.                  *)

AbandonJobs(p) ==
  /\ todo' = [todo EXCEPT ![p] = {}]
  /\ current' = [current EXCEPT ![p] = NoJob]
  /\ listed' = [listed EXCEPT ![p] = NothingListed]
  /\ snapshot' = [snapshot EXCEPT ![p] = NothingLoaded]

LeaveUnrecorded(p) == unrecorded' = [unrecorded EXCEPT ![current[p]] = @ + 1]

(* Before the run: the job lock stays behind, but the process, a supervisor *)
(* or a command, ends.                                                      *)
ThrowsBeforeRun(p) ==
  /\ pc[p] \in {"tick_opened", "due", "job_opened", "locked", "advance"}
  /\ pid[p] < MaxStarts
  /\ RemoveTickLock(p)
  /\ AbandonJobs(p)
  /\ Goto(p, "down")
  /\ UNCHANGED <<jobVars, jobLock, seen, plain, pid, edits, counts>>

(* Without a job lock nothing catches what runJob throws, or the recording: *)
(* nothing is recorded and nextRunAt stays.                                 *)
RunThrows(p) ==
  /\ p \in plain /\ pc[p] \in {"running", "mark"}
  /\ LET j == current[p]
         k == listed[p][j]
     IN /\ thrown[j][k] < MaxThrows
        /\ thrown' = [thrown EXCEPT ![j][k] = @ + 1]
  /\ LeaveUnrecorded(p)
  /\ AbandonJobs(p)
  /\ Goto(p, "loop")
  /\ UNCHANGED <<jobVars, lockVars, seen, plain, pid, edits,
                 runs, runsOf, requests, requestRuns, revived, raced>>

(* With one, what runJob throws is recorded as a failure; when the          *)
(* recording throws too, the lock is released.                              *)
RecordThrows(p) ==
  /\ p \notin plain /\ pc[p] \in {"running", "mark"}
  /\ LeaveUnrecorded(p)
  /\ Release(p)
  /\ AbandonJobs(p)
  /\ Goto(p, "loop")
  /\ UNCHANGED <<jobVars, tickLock, seen, plain, pid, edits,
                 runs, runsOf, requests, requestRuns, revived, thrown>>

-----------------------------------------------------------------------------
(* The environment.                                                         *)

OccurrenceComesDue(j) ==
  /\ clock[j] < MaxOccurrence
  /\ clock' = [clock EXCEPT ![j] = @ + 1]
  /\ UNCHANGED <<file, lockVars, procVars, history>>

(* The lock of a dead process reaches its timeout; that of a living one,    *)
(* which is never renewed, while a slow job runs.                           *)
Ageing(lock) ==
  /\ lock # NoLock
  /\ lock.written /\ ~lock.old
  /\ Alive(lock) => "slow" \in Faults /\ pc[lock.owner] = "running"

TickLockTimesOut ==
  /\ Ageing(tickLock)
  /\ tickLock' = [tickLock EXCEPT !.old = TRUE]
  /\ UNCHANGED <<jobVars, jobLock, procVars, history>>

JobLockTimesOut(j) ==
  /\ Ageing(jobLock[j])
  /\ jobLock' = [jobLock EXCEPT ![j].old = TRUE]
  /\ UNCHANGED <<jobVars, tickLock, procVars, history>>

Crash(p) ==
  /\ p \in Supervisor /\ pc[p] # "down"
  /\ pid[p] < MaxStarts
  /\ pc[p] = "tick_opened" => "torn" \in Faults
  /\ IF pc[p] \in {"running", "mark"} THEN LeaveUnrecorded(p) ELSE UNCHANGED unrecorded
  /\ AbandonJobs(p)
  /\ seen' = [seen EXCEPT ![p] = NoLock]
  /\ plain' = plain \ {p}
  /\ Goto(p, "down")
  /\ UNCHANGED <<jobVars, lockVars, pid, edits,
                 runs, runsOf, requests, requestRuns, revived, thrown, raced>>

Restart(p) ==
  /\ pc[p] = "down"
  /\ pid' = [pid EXCEPT ![p] = @ + 1]
  /\ Goto(p, "idle")
  /\ UNCHANGED <<jobVars, lockVars, snapshot, seen, todo, current, plain, listed, edits, history>>

Tick(p) ==
  \/ OpenTickLock(p) \/ FindStaleTickLock(p) \/ RemoveStaleTickLock(p) \/ ReopenTickLock(p)
  \/ WriteTickLock(p) \/ ListDue(p) \/ EndTick(p)
  \/ OpenJobLock(p) \/ SkipLockedJob(p) \/ FindStaleJobLock(p) \/ RemoveStaleJobLock(p)
  \/ ReopenJobLock(p) \/ WriteJobLock(p)
  \/ AdvanceLoad(p) \/ AdvanceSaveAndRun(p) \/ RunLegacy(p) \/ MarkLoad(p) \/ MarkSave(p)
  \/ ReleaseJobLock(p)

Throws(p) == "throw" \in Faults /\ (ThrowsBeforeRun(p) \/ RunThrows(p) \/ RecordThrows(p))

Next ==
  \/ \E p \in Ticker : Tick(p) \/ Throws(p) \/ Crash(p) \/ Restart(p)
  \/ \E p \in Editor : EditLoad(p) \/ EditSave(p)
  \/ \E j \in Job : OccurrenceComesDue(j) \/ JobLockTimesOut(j)
  \/ TickLockTimesOut

Spec == Init /\ [][Next]_vars

(* A supervisor ticks in its main loop, one that ended is started again, a  *)
(* tick ends, and the tick lock of a dead process grows old.                *)
FairSpec ==
  /\ Spec
  /\ \A p \in Ticker :
       /\ WF_vars(Tick(p) /\ (pc[p] # "idle" \/ p \in Supervisor))
       /\ p \in Supervisor => WF_vars(Restart(p))
  /\ WF_vars(TickLockTimesOut)

-----------------------------------------------------------------------------
Locks == {NoLock} \union [owner : Ticker, pid : 1..MaxStarts, written : BOOLEAN, old : BOOLEAN]
Jobs == [Job -> [status : {"absent", "active", "paused", "completed"},
                 next : 0..(MaxOccurrence + 1), requested : BOOLEAN, runCount : Nat]]

(* The values of the variables; a process has a current job while it runs   *)
(* one or holds its lock.                                                   *)
TypeOK ==
  /\ clock \in [Job -> 0..MaxOccurrence]
  /\ file \in Jobs /\ snapshot \in [Process -> Jobs]
  /\ tickLock \in Locks /\ jobLock \in [Job -> Locks] /\ seen \in [Ticker -> Locks]
  /\ todo \in [Ticker -> SUBSET Job]
  /\ current \in [Ticker -> Job \union {NoJob}]
  /\ plain \subseteq Legacy
  /\ \A p \in Ticker : pc[p] \in {"job_opened", "locked", "advance", "running", "mark", "release"}
                        => current[p] \in Job
  /\ listed \in [Ticker -> [Job -> 0..MaxOccurrence]]
  /\ pid \in [Ticker -> 1..MaxStarts]

(* Unless two processes have written over each other's files, a job runs    *)
(* once for each occurrence and once for each request, and once more only   *)
(* for each run of it that threw where no job lock was held: a crash        *)
(* before, during or after the run, the tick of another process, and what a *)
(* run with a job lock throws, repeat nothing.                              *)
AtMostOncePerOccurrence ==
  ~raced => \A j \in Job : /\ \A k \in Occurrence : runsOf[j][k] <= 1 + thrown[j][k]
                           /\ requestRuns[j] <= requests[j] + thrown[j][None]

(* A job with a limit, its repeat count or 1 for one that runs once, runs   *)
(* no more often than that, whether for an occurrence or on request, except *)
(* for the runs that ended without a record and one for each command that   *)
(* took it out of status completed.                                         *)
Limit(j) == IF j \in Once THEN 1 ELSE Repeat[j]

RepeatIsRespected ==
  ~raced => \A j \in Job : Limit(j) > 0 => runs[j] <= Limit(j) + unrecorded[j] + revived[j]

(* A due job does not stay due for ever: it is run, or a command takes it   *)
(* out of the schedule.  The locks that a crashed process left behind do    *)
(* not stop the next one.                                                   *)
DueJobsRun == \A j \in Job : (j \in Due(file)) ~> (j \notin Due(file))
=============================================================================
