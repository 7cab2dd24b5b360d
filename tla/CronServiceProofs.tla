--------------------------- MODULE CronServiceProofs ---------------------------
(***************************************************************************)
(* What the cron service promises of a job, for any number of jobs, any   *)
(* horizon and any longest sleep: a one-shot is started at most once, and *)
(* a job whose cancellation was reported never comes back.                *)
(*                                                                         *)
(* The argument for one-shots: from its start on, a one-shot is due for   *)
(* ever (its next run is never computed again), no tick will come to it   *)
(* again (the list of a tick names a job once), and it is in the table    *)
(* only while it runs; and what the file says of it is the due time start *)
(* drops it for, whichever of the saves raised.                           *)
(***************************************************************************)
EXTENDS CronService, FiniteSetTheorems, SequenceTheorems, TLAPS

JobType == [kind : {"at", "every"}, deletes : BOOLEAN, next : 0..(EndOfTime + 1)]

\* The parts of TypeOK the table is made of, and what the file may hold.
TableOK ==
    /\ now \in 0..EndOfTime /\ made \in 0..MaxJobs
    /\ job \in [Jobs -> JobType] /\ jobs \subseteq 1..made
    /\ disk \in [Jobs -> 0..(EndOfTime + 1)] /\ cancelled \subseteq 1..made
    /\ \A j \in Jobs : disk[j] # 0 => j \in 1..made

SchedulerOK ==
    /\ loop \in {"down", "dead", "sleep", "run"} /\ todo \in Seq(1..made)
    /\ tickAt \in 0..now /\ running \in 0..made /\ alarm \in 0..(EndOfTime + MaxSleep)
    /\ wake \in BOOLEAN /\ starts \in [Jobs -> 0..2]
    /\ loop = "run" => running \in 1..made

LEMMA TypeParts == TableOK /\ SchedulerOK => TypeOK
BY DEF TableOK, SchedulerOK, TypeOK, JobType

LEMMA BoundsAreNatural == {MaxJobs, MaxTime, MaxSleep, EndOfTime} \subseteq Nat
BY CronAssumption DEF EndOfTime

-----------------------------------------------------------------------------
(* What one call of the helpers does.                                      *)

(* The scheduler goes to sleep, or starts one of the due jobs of the list. *)
LEMMA ScanFacts ==
    ASSUME NEW list \in Seq(1..made), NEW at, NEW ids, NEW objs, Scan(list, at, ids, objs)
    PROVE  \/ Sleeps(ids, objs)
           \/ \E i \in 1..Len(list) :
                /\ objs[list[i]].next <= at
                /\ loop' = "run" /\ running' = list[i]
                /\ todo' = SubSeq(list, i + 1, Len(list))
                /\ starts' = [starts EXCEPT ![list[i]] = IF @ = 2 THEN 2 ELSE @ + 1]
                /\ UNCHANGED <<wake, alarm>>
BY DEF Scan

LEMMA SleepsTypes ==
    ASSUME TableOK, SchedulerOK, NEW ids \in SUBSET Jobs, NEW objs \in [Jobs -> JobType],
           Sleeps(ids, objs)
    PROVE  /\ loop' = "sleep" /\ todo' = <<>> /\ running' = 0 /\ wake' \in BOOLEAN
           /\ alarm' \in 0..(EndOfTime + MaxSleep) /\ starts' = starts
<1> DEFINE due == {objs[j].next : j \in ids} \cup {now + MaxSleep}
<1>1. PICK d \in due : /\ \A e \in due : d <= e
                       /\ alarm' = IF d < now THEN now ELSE d
  BY DEF Sleeps
<1>2. now \in Nat /\ now <= EndOfTime /\ EndOfTime \in Nat /\ MaxSleep \in Nat
  BY BoundsAreNatural DEF TableOK
<1>3. \A e \in due : e \in Nat
  BY <1>2 DEF JobType
<1>4. d <= now + MaxSleep
  BY <1>1
<1>5. alarm' \in 0..(EndOfTime + MaxSleep)
  <2>1. d \in Nat
    BY <1>3
  <2> HIDE DEF due
  <2> QED
    BY <1>1, <1>2, <1>4, <2>1
<1> QED
  BY <1>5 DEF Sleeps

LEMMA ScanTypes ==
    ASSUME TableOK, SchedulerOK, NEW list \in Seq(1..made), NEW at,
           NEW ids \in SUBSET Jobs, NEW objs \in [Jobs -> JobType], Scan(list, at, ids, objs)
    PROVE  /\ loop' \in {"sleep", "run"} /\ todo' \in Seq(1..made) /\ running' \in 0..made
           /\ wake' \in BOOLEAN /\ alarm' \in 0..(EndOfTime + MaxSleep)
           /\ starts' \in [Jobs -> 0..2] /\ (loop' = "run" => running' \in 1..made)
<1>1. CASE Sleeps(ids, objs)
  <2>1. <<>> \in Seq(1..made) /\ 0 \in 0..made
    BY DEF TableOK
  <2>2. /\ loop' = "sleep" /\ todo' = <<>> /\ running' = 0 /\ wake' \in BOOLEAN
        /\ alarm' \in 0..(EndOfTime + MaxSleep) /\ starts' = starts
    BY <1>1, SleepsTypes
  <2> QED
    BY <2>1, <2>2 DEF SchedulerOK
<1>2. ASSUME NEW i \in 1..Len(list), loop' = "run", running' = list[i],
             todo' = SubSeq(list, i + 1, Len(list)),
             starts' = [starts EXCEPT ![list[i]] = IF @ = 2 THEN 2 ELSE @ + 1],
             UNCHANGED <<wake, alarm>>
      PROVE  /\ loop' \in {"sleep", "run"} /\ todo' \in Seq(1..made) /\ running' \in 0..made
             /\ wake' \in BOOLEAN /\ alarm' \in 0..(EndOfTime + MaxSleep)
             /\ starts' \in [Jobs -> 0..2] /\ (loop' = "run" => running' \in 1..made)
  <2>1. list[i] \in 1..made /\ 1..made \subseteq Jobs /\ made \in Nat
    BY BoundsAreNatural DEF TableOK, Jobs
  <2>2. todo' \in Seq(1..made)
    <3>1. ASSUME NEW k \in (i + 1)..Len(list) PROVE list[k] \in 1..made
      <4>1. k \in 1..Len(list)
        OBVIOUS
      <4> QED
        BY <2>1, <4>1
    <3>2. i + 1 \in Int /\ Len(list) \in Int
      OBVIOUS
    <3>3. SubSeq(list, i + 1, Len(list)) \in Seq(1..made)
      BY <3>1, <3>2, SubSeqProperties
    <3> QED
      BY <1>2, <3>3
  <2>3. starts' \in [Jobs -> 0..2]
    <3>1. \A n \in 0..2 : (IF n = 2 THEN 2 ELSE n + 1) \in 0..2
      OBVIOUS
    <3>2. starts \in [Jobs -> 0..2] /\ list[i] \in Jobs
      BY <2>1 DEF SchedulerOK
    <3>3. starts' = [starts EXCEPT ![list[i]] = IF starts[list[i]] = 2 THEN 2 ELSE starts[list[i]] + 1]
      BY <1>2
    <3> QED
      BY <3>1, <3>2, <3>3
  <2> QED
    BY <1>2, <2>1, <2>2, <2>3 DEF SchedulerOK
<1> QED
  BY <1>1, <1>2, ScanFacts

LEMMA SeqOfLarger == ASSUME NEW S, NEW T, S \subseteq T, NEW s \in Seq(S) PROVE s \in Seq(T)
<1>1. Len(s) \in Nat /\ s \in [1..Len(s) -> S]
  OBVIOUS
<1>2. s \in [1..Len(s) -> T]
  BY <1>1
<1> QED
  BY <1>1, <1>2

(* The list of a tick names every job of the table once.                   *)
LEMMA ListedIsSequence ==
    ASSUME NEW ids, Cardinality(ids) \in Nat, NEW list \in Listed(ids)
    PROVE  /\ list \in Seq(ids) /\ Len(list) = Cardinality(ids)
           /\ \A i, k \in 1..Len(list) : i < k => list[i] < list[k]
<1>1. list \in [1..Cardinality(ids) -> ids]
  BY DEF Listed
<1>2. list \in Seq(ids) /\ Len(list) = Cardinality(ids)
  BY <1>1
<1> QED
  BY <1>2 DEF Listed

(* What _save writes.                                                      *)
LEMMA SavesFacts ==
    ASSUME NEW ids, NEW objs \in [Jobs -> JobType], Saves(ids, objs)
    PROVE  /\ disk' \in [Jobs -> 0..(EndOfTime + 1)]
           /\ \A j \in Jobs : disk'[j] = IF j \in ids THEN objs[j].next ELSE 0
<1>1. 0 \in 0..(EndOfTime + 1)
  BY BoundsAreNatural
<1>2. \A j \in Jobs : objs[j].next \in 0..(EndOfTime + 1)
  BY DEF JobType
<1> QED
  BY <1>1, <1>2 DEF Saves

LEMMA ArmedTypes == TableOK => Armed \subseteq JobType
<1> SUFFICES ASSUME TableOK, NEW new \in Armed PROVE new \in JobType
  OBVIOUS
<1>1. now \in Nat /\ now <= EndOfTime /\ EndOfTime \in Nat /\ MaxTime \in Nat /\ MaxTime <= EndOfTime
  BY BoundsAreNatural DEF TableOK, EndOfTime
<1>2. (now + 1)..MaxTime \subseteq 0..(EndOfTime + 1) /\ NextRun \in 0..(EndOfTime + 1)
  BY <1>1 DEF NextRun
<1> QED
  BY <1>2 DEF Armed, JobType

\* No job changes its kind, no one-shot its time.
OneShotsKeepTime ==
    \A j \in Jobs : job'[j].kind = job[j].kind /\ (job[j].kind = "at" => job'[j] = job[j])

(* What a run leaves behind when it ends.                                  *)
LEMMA RecordedFacts ==
    ASSUME TableOK, SchedulerOK, loop = "run", Recorded
    PROVE  /\ jobs' \subseteq jobs /\ (job[running].kind = "at" => running \notin jobs')
           /\ job' \in [Jobs -> JobType]
           /\ OneShotsKeepTime
           /\ disk' = disk \/ Saves(jobs', job')
           /\ Scan(todo, tickAt, jobs', job') \/ Sleeps(jobs', job')
<1> DEFINE objs == IF job[running].deletes \/ job[running].kind = "at" THEN job
                   ELSE [job EXCEPT ![running].next = NextRun]
<1>1. /\ jobs' = After(running) /\ job' = objs
      /\ \/ Saves(After(running), objs) /\ Scan(todo, tickAt, After(running), objs)
         \/ SaveRaises /\ Sleeps(After(running), objs)
  BY DEF Recorded
<1>2. jobs' \subseteq jobs /\ (job[running].kind = "at" => running \notin jobs')
  BY <1>1 DEF After
<1>3. running \in Jobs /\ NextRun \in 0..(EndOfTime + 1)
  BY BoundsAreNatural DEF TableOK, SchedulerOK, Jobs, NextRun
<1>4. objs \in [Jobs -> JobType]
  BY <1>3 DEF TableOK, JobType
<1>5. \A j \in Jobs : objs[j].kind = job[j].kind /\ (job[j].kind = "at" => objs[j] = job[j])
  BY <1>3 DEF TableOK, JobType
<1> HIDE DEF objs
<1>6. OneShotsKeepTime
  BY <1>1, <1>5 DEF OneShotsKeepTime
<1> QED
  BY <1>1, <1>2, <1>4, <1>6 DEF SaveRaises

-----------------------------------------------------------------------------
(* Type correctness.                                                       *)

LEMMA AddTypes == ASSUME TableOK, SchedulerOK, AddJob PROVE TableOK' /\ SchedulerOK'
<1>1. PICK new \in Armed : job' = [job EXCEPT ![made + 1] = new]
  BY DEF AddJob
<1>2. /\ made' = made + 1 /\ made + 1 \in Jobs /\ made' \in 0..MaxJobs
      /\ 1..made \subseteq 1..made' /\ made + 1 \in 1..made' /\ 0..made \subseteq 0..made'
  BY BoundsAreNatural DEF AddJob, TableOK, Jobs
<1>3. job' \in [Jobs -> JobType]
  BY <1>1, <1>2, ArmedTypes DEF TableOK
<1>4. jobs' = jobs \cup {made + 1} /\ jobs' \subseteq 1..made'
  BY <1>2 DEF AddJob, TableOK
<1>5. disk' \in [Jobs -> 0..(EndOfTime + 1)] /\ \A j \in Jobs : disk'[j] # 0 => j \in 1..made'
  <2>1. CASE Saves(jobs', job')
    BY <1>3, <1>4, <2>1, SavesFacts
  <2>2. CASE SaveRaises
    BY <1>2, <2>2 DEF SaveRaises, TableOK
  <2> QED
    BY <2>1, <2>2 DEF AddJob
<1>6. todo \in Seq(1..made')
  BY <1>2, SeqOfLarger DEF SchedulerOK
<1>7. wake' \in BOOLEAN
  BY DEF AddJob, SchedulerOK
<1>8. UNCHANGED <<now, loop, todo, tickAt, running, alarm, starts, cancelled>>
  BY DEF AddJob, history
<1> QED
  BY <1>2, <1>3, <1>4, <1>5, <1>6, <1>7, <1>8 DEF TableOK, SchedulerOK

LEMMA RemoveTypes ==
    ASSUME TableOK, SchedulerOK, NEW ids \in SUBSET jobs, RemoveJobs(ids)
    PROVE  TableOK' /\ SchedulerOK'
<1>1. /\ jobs' = jobs \ ids /\ UNCHANGED <<now, made, job, loop, todo, tickAt, running, alarm, starts>>
      /\ cancelled' \in {cancelled, cancelled \cup ids} /\ wake' \in {wake, TRUE}
  BY DEF RemoveJobs
<1>2. disk' \in [Jobs -> 0..(EndOfTime + 1)] /\ \A j \in Jobs : disk'[j] # 0 => j \in 1..made
  <2>1. CASE Saves(jobs', job)
    <3>1. job \in [Jobs -> JobType]
      BY DEF TableOK
    <3>2. /\ disk' \in [Jobs -> 0..(EndOfTime + 1)]
          /\ \A j \in Jobs : disk'[j] = IF j \in jobs' THEN job[j].next ELSE 0
      BY <2>1, <3>1, SavesFacts
    <3> QED
      BY <1>1, <3>2 DEF TableOK
  <2>2. CASE SaveRaises
    BY <2>2 DEF SaveRaises, TableOK
  <2> QED
    BY <2>1, <2>2 DEF RemoveJobs
<1>3. cancelled' \subseteq 1..made /\ jobs' \subseteq 1..made
  BY <1>1 DEF TableOK
<1> QED
  BY <1>1, <1>2, <1>3 DEF TableOK, SchedulerOK

LEMMA TickTypes == ASSUME TableOK, SchedulerOK, Tick PROVE TableOK' /\ SchedulerOK'
<1>1. PICK list \in Listed(jobs) : Scan(list, now, jobs, job)
  BY DEF Tick
<1>2. jobs \subseteq 1..made /\ jobs \in SUBSET Jobs /\ made \in Nat
  BY BoundsAreNatural DEF TableOK, Jobs
<1>3. list \in Seq(1..made)
  <2>1. IsFiniteSet(jobs)
    <3>1. IsFiniteSet(1..made)
      BY <1>2, FS_Interval
    <3> QED
      BY <1>2, <3>1, FS_Subset
  <2>2. list \in Seq(jobs)
    BY <2>1, FS_CardinalityType, ListedIsSequence
  <2> QED
    BY <1>2, <2>2, SeqOfLarger
<1>4. /\ loop' \in {"sleep", "run"} /\ todo' \in Seq(1..made) /\ running' \in 0..made
      /\ wake' \in BOOLEAN /\ alarm' \in 0..(EndOfTime + MaxSleep)
      /\ starts' \in [Jobs -> 0..2] /\ (loop' = "run" => running' \in 1..made)
  BY <1>1, <1>2, <1>3, ScanTypes DEF TableOK
<1>5. UNCHANGED <<now, made, job, jobs, disk, cancelled>> /\ tickAt' = now
  BY DEF Tick, table
<1>6. now \in 0..now
  BY BoundsAreNatural DEF TableOK
<1> QED
  BY <1>4, <1>5, <1>6 DEF TableOK, SchedulerOK

LEMMA RunEndTypes ==
    ASSUME TableOK, SchedulerOK, RunReturns \/ RunRaises PROVE TableOK' /\ SchedulerOK'
<1>1. loop = "run" /\ Recorded /\ UNCHANGED <<now, made, tickAt, cancelled>>
  BY DEF RunReturns, RunRaises, Caught
<1>2. /\ jobs' \subseteq jobs /\ job' \in [Jobs -> JobType]
      /\ disk' = disk \/ Saves(jobs', job')
      /\ Scan(todo, tickAt, jobs', job') \/ Sleeps(jobs', job')
  BY <1>1, RecordedFacts
<1>3. jobs' \subseteq 1..made /\ jobs' \in SUBSET Jobs /\ todo \in Seq(1..made)
  BY <1>2, BoundsAreNatural DEF TableOK, Jobs, SchedulerOK
<1>4. disk' \in [Jobs -> 0..(EndOfTime + 1)] /\ \A j \in Jobs : disk'[j] # 0 => j \in 1..made
  BY <1>2, <1>3, SavesFacts DEF TableOK
<1>5. /\ loop' \in {"sleep", "run"} /\ todo' \in Seq(1..made) /\ running' \in 0..made
      /\ wake' \in BOOLEAN /\ alarm' \in 0..(EndOfTime + MaxSleep)
      /\ starts' \in [Jobs -> 0..2] /\ (loop' = "run" => running' \in 1..made)
  <2>1. CASE Scan(todo, tickAt, jobs', job')
    BY <1>2, <1>3, <2>1, ScanTypes
  <2>2. CASE Sleeps(jobs', job')
    <3>1. <<>> \in Seq(1..made) /\ 0 \in 0..made
      BY DEF TableOK
    <3>2. /\ loop' = "sleep" /\ todo' = <<>> /\ running' = 0 /\ wake' \in BOOLEAN
          /\ alarm' \in 0..(EndOfTime + MaxSleep) /\ starts' = starts
      BY <1>2, <1>3, <2>2, SleepsTypes
    <3> QED
      BY <3>1, <3>2 DEF SchedulerOK
  <2> QED
    BY <1>2, <2>1, <2>2
<1> QED
  BY <1>1, <1>2, <1>3, <1>4, <1>5 DEF TableOK, SchedulerOK

LEMMA StartTypes == ASSUME TableOK, SchedulerOK, Start PROVE TableOK' /\ SchedulerOK'
<1>1. /\ jobs' = Loaded \ Expired(Loaded)
      /\ job' = [j \in Jobs |-> IF j \in Loaded THEN [job[j] EXCEPT !.next = disk[j]] ELSE job[j]]
      /\ disk' = disk \/ Saves(jobs', job')
      /\ loop' \in {"sleep", "dead"} /\ alarm' \in {now, alarm}
      /\ UNCHANGED <<now, made, todo, tickAt, running, wake, starts, cancelled>>
  BY DEF Start, SaveRaises, history
<1>2. job' \in [Jobs -> JobType]
  BY <1>1 DEF TableOK, JobType
<1>3. jobs' \subseteq 1..made
  BY <1>1 DEF Loaded, TableOK
<1>4. disk' \in [Jobs -> 0..(EndOfTime + 1)] /\ \A j \in Jobs : disk'[j] # 0 => j \in 1..made
  BY <1>1, <1>2, <1>3, SavesFacts DEF TableOK
<1>5. alarm' \in 0..(EndOfTime + MaxSleep)
  BY <1>1, BoundsAreNatural DEF TableOK, SchedulerOK
<1> QED
  BY <1>1, <1>2, <1>3, <1>4, <1>5 DEF TableOK, SchedulerOK

LEMMA CrashTypes == ASSUME TableOK, SchedulerOK, Crash PROVE TableOK' /\ SchedulerOK'
<1>1. <<>> \in Seq(1..made) /\ 0 \in 0..made /\ 0 \in 0..now /\ 0 \in 0..(EndOfTime + MaxSleep)
  BY BoundsAreNatural DEF TableOK
<1> QED
  BY <1>1 DEF Crash, TableOK, SchedulerOK, history

LEMMA TimeTypes == ASSUME TableOK, SchedulerOK, TimePasses PROVE TableOK' /\ SchedulerOK'
<1>1. now' \in 0..EndOfTime /\ tickAt \in 0..now'
  BY BoundsAreNatural DEF TimePasses, TableOK, SchedulerOK
<1> QED
  BY <1>1 DEF TimePasses, TableOK, SchedulerOK, table, scheduler, history

LEMMA TypesHold == Spec => [](TableOK /\ SchedulerOK)
<1>1. Init => TableOK /\ SchedulerOK
  <2>1. 0 \in 0..EndOfTime /\ 0 \in 0..MaxJobs /\ 0 \in 0..(EndOfTime + 1)
        /\ 0 \in 0..(EndOfTime + MaxSleep) /\ <<>> \in Seq(1..0)
    BY BoundsAreNatural
  <2>2. NoJob \in JobType
    BY <2>1 DEF NoJob, JobType
  <2>3. ASSUME Init PROVE TableOK
    BY <2>1, <2>2, <2>3 DEF Init, TableOK
  <2>4. ASSUME Init PROVE SchedulerOK
    <3>1. made = 0 /\ todo = <<>> /\ now = 0
      BY <2>4 DEF Init
    <3>2. todo \in Seq(1..made)
      BY <2>1, <3>1
    <3>3. tickAt \in 0..now /\ running \in 0..made /\ alarm \in 0..(EndOfTime + MaxSleep)
      BY <2>1, <2>4, <3>1 DEF Init
    <3>4. starts \in [Jobs -> 0..2] /\ loop = "down"
      BY <2>4 DEF Init
    <3>5. wake \in BOOLEAN
      BY <2>4 DEF Init
    <3> QED
      BY <3>2, <3>3, <3>4, <3>5 DEF SchedulerOK
  <2> QED
    BY <2>3, <2>4
<1>2. TableOK /\ SchedulerOK /\ [Next]_vars => TableOK' /\ SchedulerOK'
  <2>1. TableOK /\ SchedulerOK /\ UNCHANGED vars => TableOK' /\ SchedulerOK'
    BY DEF vars, table, scheduler, history, TableOK, SchedulerOK
  <2> QED
    BY <2>1, AddTypes, RemoveTypes, TickTypes, RunEndTypes, StartTypes, CrashTypes, TimeTypes
    DEF Next, Schedule
<1> QED
  BY <1>1, <1>2, PTL DEF Spec

(* Table, file and scheduler hold what they may.                           *)
THEOREM TypeCorrect == Spec => []TypeOK
BY TypesHold, TypeParts, PTL

-----------------------------------------------------------------------------
(* Cancelled jobs.                                                         *)

(* A job that a call has removed, and reported as removed, never comes     *)
(* back into the table nor into the file, whether it was running, to run   *)
(* next or waiting, and whatever crashes.                                  *)
THEOREM CancelledStaysGoneHolds == Spec => []CancelledStaysGone
<1>1. Init => CancelledStaysGone
  BY DEF Init, CancelledStaysGone
<1>2. ASSUME TableOK, SchedulerOK, CancelledStaysGone, [Next]_vars PROVE CancelledStaysGone'
  <2>1. cancelled \subseteq Jobs /\ made + 1 \notin cancelled
    BY <1>2, BoundsAreNatural DEF TableOK, Jobs
  <2>2. ASSUME UNCHANGED <<jobs, disk, cancelled>> PROVE CancelledStaysGone'
    BY <2>2, <1>2 DEF CancelledStaysGone
  <2>3. CASE AddJob
    <3>1. jobs' = jobs \cup {made + 1} /\ cancelled' = cancelled
      BY <2>3 DEF AddJob, history
    <3>2. disk' = disk \/ \A j \in Jobs : j \notin jobs' => disk'[j] = 0
      BY <2>3 DEF AddJob, Saves, SaveRaises
    <3> QED
      BY <1>2, <2>1, <3>1, <3>2 DEF CancelledStaysGone
  <2>4. ASSUME NEW ids \in SUBSET jobs, RemoveJobs(ids) PROVE CancelledStaysGone'
    <3>1. CASE Saves(jobs', job) /\ cancelled' = cancelled \cup ids
      <4>1. jobs' = jobs \ ids /\ ids \subseteq Jobs
        BY <1>2, <2>4, BoundsAreNatural DEF RemoveJobs, TableOK, Jobs
      <4>2. \A j \in Jobs : j \notin jobs' => disk'[j] = 0
        BY <3>1 DEF Saves
      <4> QED
        BY <1>2, <2>1, <3>1, <4>1, <4>2 DEF CancelledStaysGone
    <3>2. CASE SaveRaises /\ cancelled' = cancelled
      BY <1>2, <2>4, <3>2 DEF RemoveJobs, SaveRaises, CancelledStaysGone
    <3> QED
      BY <2>4, <3>1, <3>2 DEF RemoveJobs
  <2>5. CASE Tick
    BY <2>2, <2>5 DEF Tick, table
  <2>6. CASE RunReturns \/ RunRaises
    <3>1. loop = "run" /\ Recorded /\ cancelled' = cancelled
      BY <2>6 DEF RunReturns, RunRaises, Caught
    <3>2. jobs' \subseteq jobs /\ (disk' = disk \/ Saves(jobs', job'))
      BY <1>2, <3>1, RecordedFacts
    <3>3. disk' = disk \/ \A j \in Jobs : j \notin jobs' => disk'[j] = 0
      BY <3>2 DEF Saves
    <3> QED
      BY <1>2, <2>1, <3>1, <3>2, <3>3 DEF CancelledStaysGone
  <2>7. CASE Start
    <3>1. /\ jobs' \subseteq Loaded /\ cancelled' = cancelled
          /\ disk' = disk \/ Saves(jobs', job')
      BY <2>7 DEF Start, SaveRaises, history
    <3>2. disk' = disk \/ \A j \in Jobs : j \notin jobs' => disk'[j] = 0
      BY <3>1 DEF Saves
    <3> QED
      BY <1>2, <2>1, <3>1, <3>2 DEF CancelledStaysGone, Loaded
  <2>8. CASE Crash
    BY <1>2, <2>8 DEF Crash, CancelledStaysGone, history
  <2>9. CASE TimePasses
    BY <2>2, <2>9 DEF TimePasses, table, history
  <2>10. CASE UNCHANGED vars
    BY <2>2, <2>10 DEF vars, table, history
  <2> QED
    BY <1>2, <2>3, <2>4, <2>5, <2>6, <2>7, <2>8, <2>9, <2>10 DEF Next, Schedule
<1> QED
  BY <1>1, <1>2, TypesHold, PTL DEF Spec

-----------------------------------------------------------------------------
(* The invariant.                                                          *)

\* A one-shot is in the file with the time it was made for.
FileAgrees ==
    \A j \in Jobs : job[j].kind = "at" /\ disk[j] # 0 => disk[j] = job[j].next

NotStartedBeforeMade == \A j \in Jobs : j > made => starts[j] = 0

TodoHasEachOnce == \A i, k \in 1..Len(todo) : i < k => todo[i] < todo[k]

\* A one-shot that was started, was started once, for good.
Spent(j) ==
    /\ starts[j] = 1 /\ job[j].next <= now
    /\ \A i \in 1..Len(todo) : todo[i] # j
    /\ j \in jobs => loop = "run" /\ running = j

StartedIsSpent == \A j \in Jobs : job[j].kind = "at" /\ starts[j] # 0 => Spent(j)

OneShotInv ==
    FileAgrees /\ NotStartedBeforeMade /\ TodoHasEachOnce /\ StartedIsSpent

(* The rest of a list after its i-th entry.                                *)
LEMMA RestOfList ==
    ASSUME NEW S, NEW list \in Seq(S), NEW i \in 1..Len(list)
    PROVE  LET rest == SubSeq(list, i + 1, Len(list))
           IN  /\ Len(rest) = Len(list) - i
               /\ \A k \in 1..Len(rest) : rest[k] = list[i + k] /\ i + k \in (i + 1)..Len(list)
<1>1. i + 1 \in Int /\ Len(list) \in Int /\ i \in Int
  OBVIOUS
<1>2. \A k \in (i + 1)..Len(list) : list[k] \in S
  OBVIOUS
<1> QED
  BY <1>1, <1>2, SubSeqProperties

(* A scan of jobs that names no one-shot already started spends the one it *)
(* starts, if any, and no other.                                           *)
LEMMA ScanSpends ==
    ASSUME TableOK, SchedulerOK, NotStartedBeforeMade, UNCHANGED <<now, made>>,
           NEW list \in Seq(1..made), NEW at \in Int, at <= now,
           \A i, k \in 1..Len(list) : i < k => list[i] < list[k],
           jobs' \in SUBSET Jobs, job' \in [Jobs -> JobType],
           Scan(list, at, jobs', job') \/ Sleeps(jobs', job'),
           \A j \in Jobs : job'[j].kind = "at" /\ starts[j] # 0 =>
             /\ starts[j] = 1 /\ job'[j].next <= now /\ j \notin jobs'
             /\ \A i \in 1..Len(list) : list[i] # j
    PROVE  NotStartedBeforeMade' /\ TodoHasEachOnce' /\ StartedIsSpent'
<1>1. CASE Sleeps(jobs', job')
  <2>1. todo' = <<>> /\ starts' = starts
    BY <1>1, SleepsTypes
  <2>2. Len(todo') = 0
    BY <2>1
  <2> QED
    BY <2>1, <2>2 DEF NotStartedBeforeMade, TodoHasEachOnce, StartedIsSpent, Spent
<1>2. ASSUME NEW i \in 1..Len(list), job'[list[i]].next <= at,
             loop' = "run", running' = list[i], todo' = SubSeq(list, i + 1, Len(list)),
             starts' = [starts EXCEPT ![list[i]] = IF @ = 2 THEN 2 ELSE @ + 1]
      PROVE  NotStartedBeforeMade' /\ TodoHasEachOnce' /\ StartedIsSpent'
  <2> DEFINE j0 == list[i]
  <2>1. j0 \in Jobs /\ ~(j0 > made) /\ Len(list) \in Nat /\ made \in Nat
    BY BoundsAreNatural, SMTT(20) DEF TableOK, Jobs
  <2>2. /\ Len(todo') = Len(list) - i
        /\ \A k \in 1..Len(todo') : todo'[k] = list[i + k] /\ i + k \in (i + 1)..Len(list)
    BY <1>2, RestOfList
  <2>3. \A k \in 1..Len(todo') : /\ todo'[k] # j0
                                 /\ \E n \in 1..Len(list) : todo'[k] = list[n]
    <3> SUFFICES ASSUME NEW k \in 1..Len(todo')
                 PROVE  todo'[k] # j0 /\ \E n \in 1..Len(list) : todo'[k] = list[n]
      OBVIOUS
    <3>1. i + k \in 1..Len(list) /\ i < i + k /\ todo'[k] = list[i + k]
      BY <2>1, <2>2
    <3>2. list[i] < list[i + k] /\ list[i] \in Int /\ list[i + k] \in Int
      BY <2>1, <3>1
    <3> QED
      BY <3>1, <3>2
  <2>4. TodoHasEachOnce'
    <3> SUFFICES ASSUME NEW k \in 1..Len(todo'), NEW n \in 1..Len(todo'), k < n
                 PROVE  todo'[k] < todo'[n]
      BY DEF TodoHasEachOnce
    <3>1. i + k \in 1..Len(list) /\ i + n \in 1..Len(list) /\ i + k < i + n
      BY <2>1, <2>2
    <3> QED
      BY <2>2, <3>1
  <2>5. \A j \in Jobs : j # j0 => starts'[j] = starts[j]
    BY <1>2 DEF SchedulerOK
  <2>6. starts[j0] = 0 => starts'[j0] = 1
    BY <1>2, <2>1 DEF SchedulerOK
  <2>7. StartedIsSpent'
    <3> SUFFICES ASSUME NEW j \in Jobs, job'[j].kind = "at", starts'[j] # 0
                 PROVE  Spent(j)'
      BY DEF StartedIsSpent
    <3>1. CASE j = j0
      <4>1. starts[j] = 0
        BY <3>1
      <4>2. job'[j].next <= now
        <5>1. job'[j].next \in Int /\ now \in Int
          BY BoundsAreNatural DEF JobType, TableOK
        <5> QED
          BY <1>2, <3>1, <5>1
      <4> QED
        BY <1>2, <2>3, <2>6, <3>1, <4>1, <4>2 DEF Spent
    <3>2. CASE j # j0
      <4>1. starts[j] # 0
        BY <2>5, <3>2
      <4>2. \A k \in 1..Len(todo') : todo'[k] # j
        BY <2>3, <4>1
      <4> QED
        BY <2>5, <3>2, <4>1, <4>2 DEF Spent
    <3> QED
      BY <3>1, <3>2
  <2>8. NotStartedBeforeMade'
    BY <2>1, <2>5 DEF NotStartedBeforeMade
  <2> QED
    BY <2>4, <2>7, <2>8
<1> QED
  BY <1>1, <1>2, ScanFacts

LEMMA TickSpends == ASSUME TableOK, SchedulerOK, OneShotInv, Tick PROVE OneShotInv'
<1>1. /\ loop = "sleep" /\ UNCHANGED <<now, made, job, jobs, disk>>
  BY DEF Tick, table
<1>2. PICK list \in Listed(jobs) : Scan(list, now, jobs, job)
  BY DEF Tick
<1>3. jobs \subseteq 1..made /\ jobs \in SUBSET Jobs /\ made \in Nat /\ now \in Int
  BY BoundsAreNatural DEF TableOK, Jobs
<1>4. /\ list \in Seq(jobs)
      /\ \A i, k \in 1..Len(list) : i < k => list[i] < list[k]
  <2>1. IsFiniteSet(1..made)
    BY <1>3, FS_Interval
  <2>2. IsFiniteSet(jobs)
    BY <1>3, <2>1, FS_Subset
  <2> QED
    BY <2>2, FS_CardinalityType, ListedIsSequence
<1>5. list \in Seq(1..made)
  BY <1>3, <1>4, SeqOfLarger
<1>6. \A j \in Jobs : job[j].kind = "at" /\ starts[j] # 0 =>
        /\ starts[j] = 1 /\ job[j].next <= now /\ j \notin jobs
        /\ \A i \in 1..Len(list) : list[i] # j
  <2>1. \A j \in Jobs : job[j].kind = "at" /\ starts[j] # 0 =>
          starts[j] = 1 /\ job[j].next <= now /\ j \notin jobs
    BY <1>1 DEF OneShotInv, StartedIsSpent, Spent
  <2>2. \A i \in 1..Len(list) : list[i] \in jobs
    BY <1>4
  <2> QED
    BY <2>1, <2>2
<1>7. NotStartedBeforeMade' /\ TodoHasEachOnce' /\ StartedIsSpent'
  <2>1. job \in [Jobs -> JobType] /\ NotStartedBeforeMade /\ now <= now
    BY <1>3 DEF TableOK, OneShotInv
  <2> QED
    BY <1>1, <1>2, <1>3, <1>4, <1>5, <1>6, <2>1, ScanSpends
<1>8. FileAgrees'
  BY <1>1 DEF OneShotInv, FileAgrees
<1> QED
  BY <1>7, <1>8 DEF OneShotInv

(* A job that ends spends nothing: a one-shot leaves the table with it.    *)
LEMMA RunEndSpends ==
    ASSUME TableOK, SchedulerOK, OneShotInv, RunReturns \/ RunRaises PROVE OneShotInv'
<1>1. loop = "run" /\ Recorded /\ UNCHANGED <<now, made, tickAt, cancelled>>
  BY DEF RunReturns, RunRaises, Caught
<1>2. /\ jobs' \subseteq jobs /\ (job[running].kind = "at" => running \notin jobs')
      /\ job' \in [Jobs -> JobType]
      /\ OneShotsKeepTime
      /\ disk' = disk \/ Saves(jobs', job')
      /\ Scan(todo, tickAt, jobs', job') \/ Sleeps(jobs', job')
  BY <1>1, RecordedFacts
<1>3. jobs' \in SUBSET Jobs /\ todo \in Seq(1..made) /\ tickAt \in Int /\ tickAt <= now
  BY <1>2, BoundsAreNatural DEF TableOK, Jobs, SchedulerOK
<1>4. \A j \in Jobs : job'[j].kind = "at" /\ starts[j] # 0 =>
        /\ starts[j] = 1 /\ job'[j].next <= now /\ j \notin jobs'
        /\ \A i \in 1..Len(todo) : todo[i] # j
  <2> SUFFICES ASSUME NEW j \in Jobs, job'[j].kind = "at", starts[j] # 0
               PROVE  /\ starts[j] = 1 /\ job'[j].next <= now /\ j \notin jobs'
                      /\ \A i \in 1..Len(todo) : todo[i] # j
    OBVIOUS
  <2>1. job[j].kind = "at" /\ job'[j] = job[j]
    BY <1>2 DEF OneShotsKeepTime
  <2>2. Spent(j)
    BY <2>1 DEF OneShotInv, StartedIsSpent
  <2>3. j \notin jobs'
    BY <1>2, <2>1, <2>2 DEF Spent
  <2> QED
    BY <2>1, <2>2, <2>3 DEF Spent
<1>5. NotStartedBeforeMade' /\ TodoHasEachOnce' /\ StartedIsSpent'
  <2>1. NotStartedBeforeMade /\ \A i, k \in 1..Len(todo) : i < k => todo[i] < todo[k]
    BY DEF OneShotInv, TodoHasEachOnce
  <2>2. Scan(todo, tickAt, jobs', job') \/ Sleeps(jobs', job')
    BY <1>2
  <2>3. job' \in [Jobs -> JobType] /\ UNCHANGED <<now, made>>
    BY <1>1, <1>2
  <2> QED
    BY <1>3, <1>4, <2>1, <2>2, <2>3, ScanSpends
<1>6. FileAgrees'
  <2>1. CASE disk' = disk
    BY <1>2, <2>1 DEF OneShotsKeepTime, OneShotInv, FileAgrees
  <2>2. CASE Saves(jobs', job')
    BY <1>2, <2>2, SavesFacts DEF FileAgrees
  <2> QED
    BY <1>2, <2>1, <2>2
<1> QED
  BY <1>5, <1>6 DEF OneShotInv

LEMMA AddSpends == ASSUME TableOK, SchedulerOK, OneShotInv, AddJob PROVE OneShotInv'
<1>1. PICK new \in Armed : job' = [job EXCEPT ![made + 1] = new]
  BY DEF AddJob
<1>2. /\ made' = made + 1 /\ made + 1 \in Jobs /\ made \in Nat
      /\ jobs' = jobs \cup {made + 1} /\ disk[made + 1] = 0 /\ starts[made + 1] = 0
      /\ UNCHANGED <<now, loop, todo, running, starts>>
  BY BoundsAreNatural DEF AddJob, TableOK, Jobs, history, OneShotInv, NotStartedBeforeMade
<1>3. \A j \in Jobs : j # made + 1 => job'[j] = job[j]
  BY <1>1 DEF TableOK
<1>4. NotStartedBeforeMade' /\ TodoHasEachOnce'
  BY <1>2 DEF OneShotInv, NotStartedBeforeMade, TodoHasEachOnce, Jobs
<1>5. StartedIsSpent'
  BY <1>2, <1>3 DEF OneShotInv, StartedIsSpent, Spent
<1>6. FileAgrees'
  <2>1. CASE Saves(jobs', job')
    <3>1. job' \in [Jobs -> JobType]
      BY <1>1, <1>2, ArmedTypes DEF TableOK
    <3> QED
      BY <2>1, <3>1, SavesFacts DEF FileAgrees
  <2>2. CASE SaveRaises
    BY <1>2, <1>3, <2>2 DEF SaveRaises, OneShotInv, FileAgrees
  <2> QED
    BY <2>1, <2>2 DEF AddJob
<1> QED
  BY <1>4, <1>5, <1>6 DEF OneShotInv

LEMMA RemoveSpends ==
    ASSUME TableOK, SchedulerOK, OneShotInv, NEW ids \in SUBSET jobs, RemoveJobs(ids)
    PROVE  OneShotInv'
<1>1. /\ jobs' \subseteq jobs /\ UNCHANGED <<now, made, job, loop, todo, running, starts>>
      /\ disk' = disk \/ Saves(jobs', job)
  BY DEF RemoveJobs, SaveRaises
<1>2. FileAgrees'
  <2>1. CASE disk' = disk
    BY <1>1, <2>1 DEF OneShotInv, FileAgrees
  <2>2. CASE Saves(jobs', job)
    BY <1>1, <2>2, SavesFacts DEF FileAgrees, TableOK
  <2> QED
    BY <1>1, <2>1, <2>2
<1> QED
  BY <1>1, <1>2 DEF OneShotInv, NotStartedBeforeMade, TodoHasEachOnce, StartedIsSpent, Spent

(* A restart loads the one-shots that are still due to run, and no other.  *)
LEMMA StartSpends == ASSUME TableOK, SchedulerOK, OneShotInv, Start PROVE OneShotInv'
<1>1. /\ loop = "down" /\ jobs' = Loaded \ Expired(Loaded)
      /\ job' = [j \in Jobs |-> IF j \in Loaded THEN [job[j] EXCEPT !.next = disk[j]] ELSE job[j]]
      /\ disk' = disk \/ Saves(jobs', job')
      /\ UNCHANGED <<now, made, todo, running, starts>>
  BY DEF Start, SaveRaises, history
<1>2. \A j \in Jobs : /\ job'[j].kind = job[j].kind
                      /\ job[j].kind = "at" => job'[j] = job[j]
  <2> SUFFICES ASSUME NEW j \in Jobs
               PROVE  job'[j].kind = job[j].kind /\ (job[j].kind = "at" => job'[j] = job[j])
    OBVIOUS
  <2>1. job[j] \in JobType
    BY DEF TableOK
  <2>2. CASE j \in Loaded
    <3>1. job[j].kind = "at" => disk[j] = job[j].next
      BY <2>2 DEF Loaded, OneShotInv, FileAgrees
    <3>2. job'[j] = [job[j] EXCEPT !.next = disk[j]]
      BY <1>1, <2>2
    <3> QED
      BY <2>1, <3>1, <3>2 DEF JobType
  <2>3. CASE j \notin Loaded
    BY <1>1, <2>3
  <2> QED
    BY <2>2, <2>3
<1>3. job' \in [Jobs -> JobType]
  BY <1>1 DEF TableOK, JobType
<1>4. FileAgrees'
  <2>1. CASE disk' = disk
    BY <1>2, <2>1 DEF OneShotInv, FileAgrees
  <2>2. CASE Saves(jobs', job')
    BY <1>3, <2>2, SavesFacts DEF FileAgrees
  <2> QED
    BY <1>1, <2>1, <2>2
<1>5. StartedIsSpent'
  <2> SUFFICES ASSUME NEW j \in Jobs, job'[j].kind = "at", starts'[j] # 0 PROVE Spent(j)'
    BY DEF StartedIsSpent
  <2>1. Spent(j) /\ job'[j] = job[j] /\ job[j].kind = "at"
    BY <1>1, <1>2 DEF OneShotInv, StartedIsSpent
  <2>2. j \notin jobs'
    <3>1. j \in Loaded => disk[j] = job[j].next
      BY <2>1 DEF Loaded, OneShotInv, FileAgrees
    <3> QED
      BY <1>1, <2>1, <3>1 DEF Spent, Expired
  <2> QED
    BY <1>1, <2>1, <2>2 DEF Spent
<1> QED
  BY <1>1, <1>4, <1>5 DEF OneShotInv, NotStartedBeforeMade, TodoHasEachOnce

LEMMA CrashSpends == ASSUME OneShotInv, Crash PROVE OneShotInv'
<1>1. /\ jobs' = {} /\ todo' = <<>> /\ UNCHANGED <<now, made, job, disk, starts>>
  BY DEF Crash, history
<1>2. Len(todo') = 0
  BY <1>1
<1> QED
  BY <1>1, <1>2 DEF OneShotInv, FileAgrees, NotStartedBeforeMade, TodoHasEachOnce, StartedIsSpent, Spent

LEMMA TimeSpends == ASSUME TableOK, OneShotInv, TimePasses PROVE OneShotInv'
<1>1. /\ UNCHANGED <<made, job, jobs, disk, loop, todo, running, starts>>
      /\ now' = now + 1 /\ now \in Nat
  BY BoundsAreNatural DEF TimePasses, table, scheduler, history, TableOK
<1>2. \A j \in Jobs : job[j].next \in Int
  BY BoundsAreNatural DEF TableOK, JobType
<1>3. StartedIsSpent'
  <2> SUFFICES ASSUME NEW j \in Jobs, job[j].kind = "at", starts[j] # 0 PROVE Spent(j)'
    BY <1>1 DEF StartedIsSpent
  <2>1. Spent(j)
    BY DEF OneShotInv, StartedIsSpent
  <2> QED
    BY <1>1, <1>2, <2>1 DEF Spent
<1> QED
  BY <1>1, <1>3 DEF OneShotInv, FileAgrees, NotStartedBeforeMade, TodoHasEachOnce

(* A one-shot is started at most once, whichever saves raise and wherever  *)
(* the server crashes: between its start and its end, between its end and  *)
(* the save, or while it starts up again.                                  *)
THEOREM OneShotRunsOnceHolds == Spec => []OneShotRunsOnce
<1>1. Init => OneShotInv
  BY DEF Init, OneShotInv, FileAgrees, NotStartedBeforeMade, TodoHasEachOnce, StartedIsSpent
<1>2. TableOK /\ SchedulerOK /\ OneShotInv /\ [Next]_vars => OneShotInv'
  <2>1. OneShotInv /\ UNCHANGED vars => OneShotInv'
    BY DEF vars, table, scheduler, history, OneShotInv, FileAgrees, NotStartedBeforeMade,
           TodoHasEachOnce, StartedIsSpent, Spent
  <2> QED
    BY <2>1, AddSpends, RemoveSpends, TickSpends, RunEndSpends, StartSpends, CrashSpends, TimeSpends
    DEF Next, Schedule
<1>3. OneShotInv /\ SchedulerOK => OneShotRunsOnce
  BY DEF OneShotInv, StartedIsSpent, Spent, OneShotRunsOnce, SchedulerOK
<1> QED
  BY <1>1, <1>2, <1>3, TypesHold, PTL DEF Spec
=============================================================================
