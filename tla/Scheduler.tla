----------------------------- MODULE Scheduler -----------------------------
(***************************************************************************)
(* Scheduled jobs (tools/scheduler.py): records in the database, a         *)
(* timetable that APScheduler works through in threads of its own, a pool  *)
(* that runs the jobs, one run per folder at a time.  The server can be    *)
(* stopped and started again within the process.                           *)
(***************************************************************************)
EXTENDS Naturals, FiniteSets

CONSTANTS
    Jobs, Folders,
    MaxRuns         \* bound: times a job comes due, and starts of the server

ASSUME SchedulerAssumption == MaxRuns \in Nat

NoRecord == <<>>
Records == [folder : Folders, enabled : BOOLEAN]
Tasks == [id : 1 .. MaxRuns, folder : Folders, step : {"hand", "queued", "works"}]

VARIABLES
    records,        \* scheduled_jobs
    clock,          \* _scheduler: none or up
    timetable,      \* the jobs registered with it, each with its folder
    pool,           \* _executor: open or closed
    marked,         \* _running_directories
    tasks,          \* the runs a fire has begun, until they are over
    adding, removing,   \* requests in progress; one that adds has the job in hand
    fires, starts,
    born,           \* history: job ids are never used twice
    dropped         \* history: folders whose queued run was cancelled with the pool

requests == <<adding, removing, born>>
schedVars == <<records, clock, timetable, pool, marked, tasks, requests, fires, starts,
               dropped>>

SchedInit ==
    /\ records = [j \in Jobs |-> NoRecord] /\ clock = "none" /\ timetable = {}
    /\ pool = "open" /\ marked = {} /\ tasks = {} /\ adding = {} /\ removing = {}
    /\ fires = 0 /\ starts = 0 /\ born = {} /\ dropped = {}

Stored == {j \in Jobs : records[j] # NoRecord}

ToRegister == {<<j, records[j].folder>> : j \in {i \in Stored : records[i].enabled}}

\* init_scheduler, before any request is served.
StartClock ==
    /\ clock = "none" /\ starts < MaxRuns /\ starts' = starts + 1
    /\ clock' = "up" /\ pool' = "open" /\ timetable' = ToRegister
    /\ UNCHANGED <<records, marked, tasks, adding, removing, fires, born, dropped>>

\* shutdown, once the requests are answered: first the timetable ...
StopClock ==
    /\ clock = "up" /\ adding = {} /\ removing = {}
    /\ clock' = "none" /\ timetable' = {}
    /\ UNCHANGED <<records, pool, marked, tasks, requests, fires, starts, dropped>>

Queued == {t \in tasks : t.step = "queued"}

\* ... then the pool with what it has not begun (cancel_futures): those runs never
\* give back their folders.
StopPool ==
    /\ clock = "none" /\ pool = "open" /\ starts > 0 /\ pool' = "closed"
    /\ tasks' = tasks \ Queued
    /\ dropped' = dropped \cup {t.folder : t \in Queued}
    /\ UNCHANGED <<records, clock, timetable, marked, requests, fires, starts>>

-----------------------------------------------------------------------------
\* Mutant: a folder that is being worked on is no obstacle.
FreeAlways(d) == TRUE
Free(d) == d \notin marked

\* _fire in a thread of APScheduler.  (A fire that finds its folder taken returns
\* and is no step.)
Fire(d) ==
    /\ \E j \in Jobs : <<j, d>> \in timetable
    /\ fires < MaxRuns /\ fires' = fires + 1
    /\ Free(d) /\ marked' = marked \cup {d}
    /\ tasks' = tasks \cup {[id |-> fires', folder |-> d, step |-> "hand"]}
    /\ UNCHANGED <<records, clock, timetable, pool, requests, starts, dropped>>

Moved(t, step) == (tasks \ {t}) \cup {[t EXCEPT !.step = step]}

\* Mutant: a submit that fails leaves its mark.
RefusedMarked(d) == marked
Refused(d) == marked \ {d}

Submit(t) ==
    /\ t.step = "hand"
    /\ IF pool = "open" THEN tasks' = Moved(t, "queued") /\ UNCHANGED marked
       ELSE tasks' = tasks \ {t} /\ marked' = Refused(t.folder)
    /\ UNCHANGED <<records, clock, timetable, pool, requests, fires, starts, dropped>>

\* One of the workers takes the run.
Begin(t) ==
    /\ t.step = "queued" /\ tasks' = Moved(t, "works")
    /\ UNCHANGED <<records, clock, timetable, pool, marked, requests, fires, starts,
                   dropped>>

\* _run_job returns, however its runner ended.
End(t) ==
    /\ t.step = "works" /\ tasks' = tasks \ {t} /\ marked' = marked \ {t.folder}
    /\ UNCHANGED <<records, clock, timetable, pool, requests, fires, starts, dropped>>

-----------------------------------------------------------------------------
\* add_job: the record, then the timetable.
AddStore(j) ==
    /\ clock = "up" /\ j \notin born /\ born' = born \cup {j}
    /\ \E r \in Records :
          records' = [records EXCEPT ![j] = r] /\ adding' = adding \cup {<<j, r>>}
    /\ UNCHANGED <<clock, timetable, pool, marked, tasks, removing, fires, starts, dropped>>

\* A job that was removed meanwhile is registered as well.
AddRegister(j) ==
    /\ \E r \in Records :
          /\ <<j, r>> \in adding /\ adding' = adding \ {<<j, r>>}
          /\ IF r.enabled THEN timetable' = timetable \cup {<<j, r.folder>>}
             ELSE UNCHANGED timetable
    /\ UNCHANGED <<records, clock, pool, marked, tasks, removing, fires, starts, born,
                   dropped>>

\* remove_job: the timetable, then the record.
RemoveTake(j) ==
    /\ clock = "up" /\ j \in Stored \ removing
    /\ timetable' = {e \in timetable : e[1] # j} /\ removing' = removing \cup {j}
    /\ UNCHANGED <<records, clock, pool, marked, tasks, adding, fires, starts, born,
                   dropped>>

\* The database may raise, and the record comes back with the next start.
RemoveRecord(j) ==
    /\ j \in removing /\ removing' = removing \ {j}
    /\ records' \in {records, [records EXCEPT ![j] = NoRecord]}
    /\ UNCHANGED <<clock, timetable, pool, marked, tasks, adding, fires, starts, born,
                   dropped>>

SchedNext ==
    \/ StartClock \/ StopClock \/ StopPool
    \/ \E d \in Folders : Fire(d)
    \/ \E j \in Jobs : AddStore(j) \/ AddRegister(j) \/ RemoveTake(j) \/ RemoveRecord(j)
    \/ \E t \in tasks : Submit(t) \/ Begin(t) \/ End(t)

SchedSpec == SchedInit /\ [][SchedNext]_schedVars

-----------------------------------------------------------------------------
\* Types; nothing comes due while the clock is off.
SchedTypeOK ==
    /\ records \in [Jobs -> Records \cup {NoRecord}]
    /\ timetable \subseteq Jobs \X Folders /\ (clock = "none" => timetable = {})
    /\ marked \subseteq Folders /\ dropped \subseteq marked
    /\ tasks \subseteq Tasks /\ fires \in Nat /\ adding \subseteq Jobs \X Records

\* Two runs never work on one folder, whichever jobs name it, however fires and
\* submits interleave, and although runs outlive a stop of the server.
OneRunPerFolder == \A t, u \in tasks : t.folder = u.folder => t = u

\* A folder that counts as busy has a run that will give it back: else its jobs
\* never run again.  (What a stop cancelled in the queue is the exception.)
BusyHasRun == marked \ dropped \subseteq {t.folder : t \in tasks}
=============================================================================
