------------------------------ MODULE CronService ------------------------------
(***************************************************************************)
(* The cron service: a table of jobs with its file, the operations the    *)
(* cron tool and the partner manager call on it, and the scheduler, one   *)
(* task that runs due jobs one after the other and sleeps in between.     *)
(* Time is a counter that only goes forward; every interval and cron      *)
(* expression is next due one tick after it was computed.  A save may     *)
(* raise, and then leaves the old file.  execute_job is what the          *)
(* scheduler waits for while a job runs.                                  *)
(***************************************************************************)
EXTENDS Integers, Sequences, FiniteSets

CONSTANTS
    MaxJobs,    \* bound: jobs ever made
    MaxTime,    \* bound: jobs are made before it, and asked for up to it
    MaxSleep    \* _MAX_SLEEP_SECONDS

ASSUME CronAssumption == {MaxJobs, MaxTime, MaxSleep} \subseteq Nat

VARIABLES
    now,
    made,       \* jobs made so far: 1..made
    job,        \* CronJob objects
    jobs,       \* keys of _jobs, which keeps the order in which they were made
    disk,       \* the file: job -> next run, 0 for a job that is not in it
    loop,       \* the scheduler: "down", "dead", "sleep", "run"
    todo,       \* jobs the tick has not come to yet
    tickAt,     \* its now
    running,    \* the job it waits for
    alarm,      \* when the sleep ends
    wake,       \* _wake
    starts,     \* history: how often a job was started, up to twice
    cancelled   \* history: jobs a call has removed and saved

table == <<made, job, jobs, disk>>
scheduler == <<loop, todo, tickAt, running, alarm, wake>>
history == <<starts, cancelled>>
vars == <<now, table, scheduler, history>>

Jobs == 1..MaxJobs
EndOfTime == MaxTime + MaxSleep
NoJob == [kind |-> "at", deletes |-> FALSE, next |-> 0]
Up == loop \in {"sleep", "run"}

Init ==
    /\ now = 0 /\ made = 0 /\ job = [j \in Jobs |-> NoJob]
    /\ jobs = {} /\ disk = [j \in Jobs |-> 0]
    /\ loop = "down" /\ todo = <<>> /\ tickAt = 0 /\ running = 0 /\ alarm = 0 /\ wake = FALSE
    /\ starts = [j \in Jobs |-> 0] /\ cancelled = {}

-----------------------------------------------------------------------------
(* The table                                                               *)

\* _save of the keys ids of the objects objs.
Saves(ids, objs) == disk' = [j \in Jobs |-> IF j \in ids THEN objs[j].next ELSE 0]
SaveRaises == UNCHANGED disk

\* compute_next_run of an interval or a cron expression
NextRun == now + 1

\* What validate_schedule lets through, armed: a one-shot lies in the future.
Armed ==
    [kind : {"at"}, deletes : {TRUE}, next : (now + 1)..MaxTime]
      \cup [kind : {"every"}, deletes : BOOLEAN, next : {NextRun}]

\* add_job; the wake-up comes after the save.
AddJob ==
    /\ loop # "down" /\ now < MaxTime /\ made < MaxJobs /\ made' = made + 1
    /\ \E new \in Armed : job' = [job EXCEPT ![made + 1] = new]
    /\ jobs' = jobs \cup {made + 1}
    /\ \/ Saves(jobs', job') /\ wake' = TRUE
       \/ SaveRaises /\ UNCHANGED wake
    /\ UNCHANGED <<now, loop, todo, tickAt, running, alarm, history>>

\* cancel_job of one job, remove_owner_jobs of all jobs of an owner.
RemoveJobs(ids) ==
    /\ loop # "down" /\ ids \subseteq jobs /\ ids # {}
    /\ jobs' = jobs \ ids
    /\ \/ Saves(jobs', job) /\ wake' = TRUE /\ cancelled' = cancelled \cup ids
       \/ SaveRaises /\ UNCHANGED <<wake, cancelled>>
    /\ UNCHANGED <<now, made, job, loop, todo, tickAt, running, alarm, starts>>

-----------------------------------------------------------------------------
(* The scheduler                                                           *)

\* _seconds_until_next_due, the clear of _wake, and the wait.
Sleeps(ids, objs) ==
    LET due == {objs[j].next : j \in ids} \cup {now + MaxSleep}
    IN  /\ loop' = "sleep" /\ wake' = FALSE
        /\ \E d \in due : /\ \A e \in due : d <= e
                         /\ alarm' = IF d < now THEN now ELSE d
        /\ todo' = <<>> /\ running' = 0
        /\ UNCHANGED starts

\* _tick from the jobs in list on: the first due one is started, whether or not
\* it is still in the table, or the scheduler sleeps.
Scan(list, at, ids, objs) ==
    LET due == {i \in 1..Len(list) : objs[list[i]].next <= at}
    IN  \/ \E i \in due :
             /\ \A k \in due : i <= k
             /\ loop' = "run" /\ running' = list[i]
             /\ todo' = SubSeq(list, i + 1, Len(list))
             /\ starts' = [starts EXCEPT ![list[i]] = IF @ = 2 THEN 2 ELSE @ + 1]
             /\ UNCHANGED <<wake, alarm>>
        \/ due = {} /\ Sleeps(ids, objs)

\* The copy of the jobs that _tick goes through, in the order they were made.
Listed(ids) ==
    {s \in [1..Cardinality(ids) -> ids] : \A i, k \in 1..Cardinality(ids) : i < k => s[i] < s[k]}

\* A turn of _loop.
Tick ==
    /\ loop = "sleep" /\ (wake \/ now >= alarm)
    /\ tickAt' = now
    /\ \E list \in Listed(jobs) : Scan(list, now, jobs, job)
    /\ UNCHANGED <<now, table, cancelled>>

\* Mutant: the job that ran is written back.
WrittenBack(j) ==
    IF job[j].deletes \/ job[j].kind = "at" THEN jobs \ {j} ELSE jobs \cup {j}

\* The table after the run of j.
After(j) ==
    IF job[j].deletes \/ job[j].kind = "at" THEN jobs \ {j} ELSE jobs

\* The rest of _run_job; if its save raises, _loop gives up the tick.
Recorded ==
    LET j == running
        objs == IF job[j].deletes \/ job[j].kind = "at" THEN job
                ELSE [job EXCEPT ![j].next = NextRun]
    IN  /\ jobs' = After(j) /\ job' = objs
        /\ \/ Saves(After(j), objs) /\ Scan(todo, tickAt, After(j), objs)
           \/ SaveRaises /\ Sleeps(After(j), objs)

\* Mutant: the exception of a job reaches _loop.
Uncaught == Sleeps(jobs, job) /\ UNCHANGED <<jobs, job, disk>>

\* A job that raises is one that ended, with status error.
Caught == Recorded

RunReturns == loop = "run" /\ Recorded /\ UNCHANGED <<now, made, tickAt, cancelled>>
RunRaises == loop = "run" /\ Caught /\ UNCHANGED <<now, made, tickAt, cancelled>>

\* The server stops or crashes: the table goes with it, and the running job.
Crash ==
    /\ loop # "down"
    /\ loop' = "down" /\ jobs' = {} /\ todo' = <<>> /\ running' = 0 /\ wake' = FALSE /\ alarm' = 0
    /\ tickAt' = 0
    /\ UNCHANGED <<now, made, job, disk, history>>

\* Mutant: one-shots that came due are kept.
NoneExpired(loaded) == {}

\* The one-shots start drops.
Expired(loaded) == {j \in loaded : job[j].kind = "at" /\ disk[j] <= now}

\* _load
Loaded == {j \in Jobs : disk[j] # 0}

\* start: the first tick comes at once.  If its save raises, the
\* server goes on without a scheduler.
Start ==
    LET dropped == Expired(Loaded)
    IN  /\ loop = "down"
        /\ jobs' = Loaded \ dropped
        /\ job' = [j \in Jobs |-> IF j \in Loaded THEN [job[j] EXCEPT !.next = disk[j]]
                                  ELSE job[j]]
        /\ \/ /\ IF dropped = {} THEN UNCHANGED disk ELSE Saves(jobs', job')
              /\ loop' = "sleep" /\ alarm' = now
           \/ /\ dropped # {} /\ SaveRaises
              /\ loop' = "dead" /\ UNCHANGED alarm
        /\ UNCHANGED <<now, made, todo, tickAt, running, wake, history>>

TimePasses ==
    /\ now < EndOfTime /\ now' = now + 1
    /\ UNCHANGED <<table, scheduler, history>>

-----------------------------------------------------------------------------
Schedule == Tick \/ RunReturns \/ RunRaises

Next ==
    \/ AddJob \/ \E ids \in SUBSET jobs : RemoveJobs(ids)
    \/ Schedule \/ Crash \/ Start \/ TimePasses

Spec == Init /\ [][Next]_vars

\* The loop runs the scheduler, jobs end, time goes on.
FairSpec == Spec /\ WF_vars(Schedule) /\ WF_vars(TimePasses)

-----------------------------------------------------------------------------
TypeOK ==
    /\ now \in 0..EndOfTime /\ made \in 0..MaxJobs
    /\ job \in [Jobs -> [kind : {"at", "every"}, deletes : BOOLEAN, next : 0..(EndOfTime + 1)]]
    /\ jobs \subseteq 1..made /\ disk \in [Jobs -> 0..(EndOfTime + 1)]
    /\ loop \in {"down", "dead", "sleep", "run"} /\ todo \in Seq(1..made)
    /\ tickAt \in 0..now /\ running \in 0..made /\ alarm \in 0..(EndOfTime + MaxSleep)
    /\ wake \in BOOLEAN /\ starts \in [Jobs -> 0..2] /\ cancelled \subseteq 1..made

\* A one-shot is started at most once, whatever fails or crashes while it runs
\* or before its removal is on disk (the pop of _run_job, the drop of start).
OneShotRunsOnce == \A j \in Jobs : job[j].kind = "at" => starts[j] <= 1

\* A job whose cancellation was reported does not come back, neither from the
\* run that was under way nor from the file (cancel_job, _run_job, _load).
CancelledStaysGone == \A j \in cancelled : j \notin jobs /\ disk[j] = 0

\* A job that is due is started, removed, or the scheduler is gone: a new job
\* wakes a sleeping scheduler, and a job that fails does not hold up the others.
DueJobsRun ==
    \A j \in Jobs :
      Up /\ j \in jobs /\ job[j].next <= now
        ~> ~Up \/ j \notin jobs \/ running = j \/ job[j].next > now
=============================================================================
