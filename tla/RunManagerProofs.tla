--------------------------- MODULE RunManagerProofs ---------------------------
(***************************************************************************)
(* The registry and the event streams of RunManager, for any documents,   *)
(* clients and limits.  Registry: eviction stops at an active run, so the *)
(* active run of a document can always be found.  Streams: the ring is a  *)
(* window over the numbered events, and a cursor never lies behind what   *)
(* its client already has, however the window has moved.                  *)
(***************************************************************************)
EXTENDS RunManager, SequenceTheorems, WellFoundedInduction, TLAPS

RunType == [status : {"none", "queued", "running"} \cup Terminal, key : Keys,
            cancel : BOOLEAN, emitted : Nat, ended : Nat]

RegistryOK == order \in Seq(Runs) /\ active \in [Keys -> 0..MaxRuns] /\ run \in [Runs -> RunType]

-----------------------------------------------------------------------------
(* Minima and maxima of two numbers.                                       *)

LEMMA MaxOfTwo ==
    ASSUME NEW a \in Int, NEW b \in Int
    PROVE  Max({a, b}) = IF a >= b THEN a ELSE b
<1>1. PICK m \in {a, b} : a <= m /\ b <= m
  OBVIOUS
<1>2. \A x \in {a, b} : (\A y \in {a, b} : x >= y) => x = m
  BY <1>1
<1>3. \A y \in {a, b} : m >= y
  BY <1>1
<1>4. Max({a, b}) \in {a, b} /\ \A y \in {a, b} : Max({a, b}) >= y
  BY <1>3 DEF Max
<1> QED
  BY <1>4

LEMMA MinOfTwo ==
    ASSUME NEW a \in Int, NEW b \in Int
    PROVE  Min({a, b}) = IF a <= b THEN a ELSE b
<1>1. PICK m \in {a, b} : a >= m /\ b >= m
  OBVIOUS
<1>2. \A y \in {a, b} : m <= y
  BY <1>1
<1>3. Min({a, b}) \in {a, b} /\ \A y \in {a, b} : Min({a, b}) <= y
  BY <1>2 DEF Min
<1> QED
  BY <1>3

-----------------------------------------------------------------------------
(* The registry.                                                           *)

LEMMA NoRunType == NoRun \in RunType
<1>1. (CHOOSE k \in Keys : TRUE) \in Keys
  BY RunManagerAssumption
<1> QED
  BY <1>1 DEF NoRun, RunType

LEMMA MinIsLeast ==
    ASSUME NEW S \in SUBSET Nat, S # {}
    PROVE  Min(S) \in S /\ \A y \in S : Min(S) <= y
<1>1. PICK x \in S : \A y \in S : ~(<<y, x>> \in OpToRel(<, Nat))
  BY NatLessThanWellFounded, WFMin
<1>2. \A y \in S : ~(y < x)
  BY <1>1 DEF OpToRel
<1>3. \A y \in S : x <= y
  BY <1>2
<1> QED
  BY <1>3 DEF Min

(* What is evicted is neither active nor the run that is being started.    *)
LEMMA EvictFacts ==
    ASSUME NEW ids \in Seq(Runs), ids # <<>>
    PROVE  \E gone \in 0..(Len(ids) - 1) :
             /\ Evict(ids) = SubSeq(ids, gone + 1, Len(ids))
             /\ \A i \in 1..gone : ~Active(ids[i])
<1> DEFINE surplus == Max({0, Len(ids) - MaxHistory})
           stops == {i \in 1..surplus : Active(ids[i]) \/ i = Len(ids)}
           gone == IF stops = {} THEN surplus ELSE Min(stops) - 1
<1>1. Len(ids) \in Nat \ {0} /\ MaxHistory \in Nat
  BY RunManagerAssumption
<1>2. surplus = IF 0 >= Len(ids) - MaxHistory THEN 0 ELSE Len(ids) - MaxHistory
  BY <1>1, MaxOfTwo
<1>3. surplus \in 0..Len(ids)
  BY <1>1, <1>2
<1>4. Evict(ids) = SubSeq(ids, gone + 1, Len(ids))
  BY DEF Evict
<1> HIDE DEF surplus
<1>5. CASE stops = {}
  <2>1. surplus # Len(ids)
    BY <1>1, <1>3, <1>5
  <2>2. surplus \in 0..(Len(ids) - 1) /\ gone = surplus
    BY <1>1, <1>3, <1>5, <2>1
  <2>3. \A i \in 1..gone : ~Active(ids[i])
    BY <1>5, <2>2
  <2> QED
    BY <1>4, <2>2, <2>3
<1>6. CASE stops # {}
  <2>1. stops \in SUBSET Nat
    OBVIOUS
  <2>2. Min(stops) \in stops /\ \A y \in stops : Min(stops) <= y
    <3> HIDE DEF stops
    <3> QED
      BY <1>6, <2>1, MinIsLeast
  <2>3. PICK m \in stops : m = Min(stops) /\ \A y \in stops : m <= y
    BY <2>2
  <2>4. gone = m - 1
    BY <1>6, <2>3
  <2>5. m \in 1..surplus
    OBVIOUS
  <2>6. gone \in 0..(Len(ids) - 1)
    BY <1>1, <1>3, <2>4, <2>5
  <2>7. ASSUME NEW i \in 1..gone PROVE ~Active(ids[i])
    <3>1. i \in 1..surplus /\ i < m
      BY <1>3, <2>4, <2>5
    <3>2. i \notin stops
      BY <2>3, <3>1
    <3> QED
      BY <3>1, <3>2
  <2> HIDE DEF gone
  <2> QED
    BY <1>4, <2>6, <2>7
<1> QED
  BY <1>5, <1>6

LEMMA StartKeepsRegistry ==
    ASSUME RegistryOK, OneActiveRun, NEW r \in Runs, NEW k \in Keys, Start(r, k)
    PROVE  RegistryOK' /\ OneActiveRun'
<1> DEFINE z == [NoRun EXCEPT !.status = "queued", !.key = k]
<1>0. PICK ids : ids = Append(order, r)
  OBVIOUS
<1>1. /\ order \in Seq(Runs) /\ active \in [Keys -> 0..MaxRuns] /\ run \in [Runs -> RunType]
      /\ MaxRuns \in Nat
  BY RunManagerAssumption DEF RegistryOK
<1>2. z \in RunType /\ z.status = "queued" /\ z.key = k
  BY NoRunType DEF RunType
<1> HIDE DEF z
<1>3. run' = [run EXCEPT ![r] = z] /\ order' = Evict(ids) /\ active' = [active EXCEPT ![k] = r]
  BY <1>0 DEF Start, z
<1>4. /\ ids \in Seq(Runs) /\ Len(ids) = Len(order) + 1 /\ Len(order) \in Nat
      /\ ids[Len(ids)] = r /\ \A i \in 1..Len(order) : ids[i] = order[i]
  BY <1>0, <1>1
<1>5. PICK gone \in 0..(Len(ids) - 1) :
        order' = SubSeq(ids, gone + 1, Len(ids)) /\ \A i \in 1..gone : ~Active(ids[i])
  <2>1. ids # <<>>
    BY <1>4
  <2> QED
    BY <1>3, <1>4, <2>1, EvictFacts
<1>6. /\ order' \in Seq(Runs) /\ Len(order') = Len(ids) - gone
      /\ \A i \in 1..(Len(ids) - gone) : order'[i] = ids[gone + i]
  <2>1. \A i \in (gone + 1)..Len(ids) : ids[i] \in Runs
    BY <1>4, <1>5
  <2>2. gone + 1 \in Int /\ Len(ids) \in Int /\ gone + 1 <= Len(ids) + 1
    BY <1>4, <1>5
  <2>3. /\ order' \in Seq(Runs) /\ Len(order') = Len(ids) - (gone + 1) + 1
        /\ \A i \in 1..(Len(ids) - (gone + 1) + 1) : order'[i] = ids[(gone + 1) + i - 1]
    BY <1>5, <2>1, <2>2, SubSeqProperties
  <2> QED
    BY <1>4, <1>5, <2>3
<1>7. RegistryOK'
  <2>1. r \in 0..MaxRuns
    BY <1>1 DEF Runs
  <2> QED
    BY <1>1, <1>2, <1>3, <1>6, <2>1 DEF RegistryOK
<1>8. run'[r] = z /\ \A q \in Runs : q # r => run'[q] = run[q]
  BY <1>1, <1>3
<1>9. \A i \in (gone + 1)..Len(ids) : Registered(ids[i])'
  <2> SUFFICES ASSUME NEW i \in (gone + 1)..Len(ids) PROVE \E j \in 1..Len(order') : order'[j] = ids[i]
    BY DEF Registered
  <2>1. i - gone \in 1..(Len(ids) - gone) /\ gone + (i - gone) = i
    BY <1>4, <1>5
  <2> QED
    BY <1>6, <2>1
<1>10. ASSUME NEW q \in Runs, Active(q)' PROVE active'[run'[q].key] = q /\ Registered(q)'
  <2>1. CASE q = r
    <3>1. Registered(r)'
      BY <1>4, <1>5, <1>9
    <3> QED
      BY <1>1, <1>2, <1>3, <1>8, <2>1, <3>1
  <2>2. CASE q # r
    <3>1. Active(q) /\ run'[q].key = run[q].key
      BY <1>8, <1>10, <2>2 DEF Active
    <3>2. active[run[q].key] = q /\ Registered(q)
      BY <3>1 DEF OneActiveRun
    <3>3. run[q].key # k
      BY <3>1, <3>2, RunManagerAssumption DEF Start, Busy, Runs
    <3>4. PICK i \in 1..Len(order) : order[i] = q
      BY <3>2 DEF Registered
    <3>5. ids[i] = q /\ i \in 1..Len(ids)
      BY <1>4, <3>4
    <3>6. i \in (gone + 1)..Len(ids)
      BY <1>4, <1>5, <3>1, <3>5
    <3> QED
      BY <1>1, <1>3, <1>9, <3>1, <3>2, <3>3, <3>5, <3>6
  <2> QED
    BY <2>1, <2>2
<1> QED
  BY <1>7, <1>10 DEF OneActiveRun

(* A step of r that is no start, or of a stream.                           *)
LEMMA RunKeepsRegistry ==
    ASSUME RegistryOK, OneActiveRun, NEW r \in Runs, NEW z \in RunType,
           run' = [run EXCEPT ![r] = z], order' = order, z.key = run[r].key,
           \/ /\ active' = active
              /\ z.status \in {"queued", "running"} => Active(r)
           \/ /\ active' = [active EXCEPT ![run[r].key] = 0] /\ Active(r)
              /\ z.status \in Terminal
    PROVE  RegistryOK' /\ OneActiveRun'
<1>1. /\ active \in [Keys -> 0..MaxRuns] /\ run \in [Runs -> RunType] /\ run[r].key \in Keys
  BY DEF RegistryOK, RunType
<1>2. run'[r] = z /\ \A q \in Runs : q # r => run'[q] = run[q]
  BY <1>1
<1>3. RegistryOK'
  <2>1. 0 \in 0..MaxRuns
    BY RunManagerAssumption
  <2> QED
    BY <1>1, <2>1 DEF RegistryOK
<1>4. ASSUME NEW q \in Runs, Active(q)' PROVE active'[run'[q].key] = q /\ Registered(q)'
  <2>1. Active(q) /\ run'[q].key = run[q].key
    BY <1>2, <1>4 DEF Active, Terminal
  <2>2. active[run[q].key] = q /\ Registered(q)
    BY <2>1 DEF OneActiveRun
  <2>3. active'[run[q].key] = q
    <3>1. CASE active' = active
      BY <2>2, <3>1
    <3>2. CASE active' = [active EXCEPT ![run[r].key] = 0] /\ Active(r) /\ z.status \in Terminal
      <4>1. q # r
        BY <1>2, <1>4, <3>2 DEF Active, Terminal
      <4>2. run[q].key # run[r].key
        BY <2>2, <3>2, <4>1 DEF OneActiveRun
      <4> QED
        BY <1>1, <2>2, <3>2, <4>2
    <3> QED
      BY <3>1, <3>2
  <2> QED
    BY <2>1, <2>2, <2>3 DEF Registered
<1> QED
  BY <1>3, <1>4 DEF OneActiveRun

\* A run that was never started has emitted nothing, only a running one is being
\* cancelled; events are never taken back.
LifeOK ==
    \A r \in Runs : /\ run[r].status = "none" => run[r].emitted = 0
                    /\ run[r].cancel => run[r].status = "running"
Grows == \A r \in Runs : run'[r].emitted >= run[r].emitted

(* The steps of runs, for the registry and for those who read their ring.  *)
RunStep ==
    \/ \E r \in Runs : \E k \in Keys : Start(r, k)
    \/ \E r \in Runs : Task(r) \/ Cancel(r) \/ UndoApplied(r)

LEMMA RunStepFacts ==
    ASSUME RegistryOK, OneActiveRun, LifeOK, RunStep
    PROVE  /\ RegistryOK' /\ OneActiveRun' /\ LifeOK' /\ Grows
           /\ UNCHANGED <<at, of, cursor, batch, got>>
           /\ woken \subseteq Followers => woken' \subseteq Followers
<1>1. ASSUME NEW r \in Runs, NEW k \in Keys, Start(r, k)
      PROVE  /\ RegistryOK' /\ OneActiveRun' /\ LifeOK' /\ Grows
             /\ UNCHANGED followVars
  <2>1. RegistryOK' /\ OneActiveRun' /\ UNCHANGED followVars
    BY <1>1, StartKeepsRegistry DEF Start
  <2>2. PICK z : z = [NoRun EXCEPT !.status = "queued", !.key = k]
    OBVIOUS
  <2>3. z.status = "queued" /\ z.emitted = 0 /\ z.cancel = FALSE
    BY <2>2 DEF NoRun
  <2>4. run'[r] = z /\ \A q \in Runs : q # r => run'[q] = run[q]
    BY <1>1, <2>2 DEF Start, RegistryOK
  <2>5. run[r].emitted = 0
    BY <1>1 DEF Start, LifeOK
  <2>6. \A q \in Runs : run[q].emitted \in Nat
    BY DEF RegistryOK, RunType
  <2>7. LifeOK'
    BY <2>3, <2>4 DEF LifeOK
  <2>8. Grows
    BY <2>3, <2>4, <2>5, <2>6 DEF Grows
  <2> QED
    BY <2>1, <2>7, <2>8
<1>2. ASSUME NEW r \in Runs, NEW z \in RunType, run' = [run EXCEPT ![r] = z],
             order' = order, z.key = run[r].key, run[r].status # "none", z.status # "none",
             z.cancel => z.status = "running", z.emitted >= run[r].emitted,
             \/ /\ active' = active
                /\ z.status \in {"queued", "running"} => Active(r)
             \/ /\ active' = [active EXCEPT ![run[r].key] = 0] /\ Active(r)
                /\ z.status \in Terminal
      PROVE  RegistryOK' /\ OneActiveRun' /\ LifeOK' /\ Grows
  <2>1. RegistryOK' /\ OneActiveRun'
    BY <1>2, RunKeepsRegistry
  <2>2. run'[r] = z /\ \A q \in Runs : q # r => run'[q] = run[q]
    BY <1>2 DEF RegistryOK
  <2>3. \A q \in Runs : run[q].emitted \in Nat
    BY DEF RegistryOK, RunType
  <2>4. LifeOK' /\ Grows
    BY <1>2, <2>2, <2>3 DEF LifeOK, Grows
  <2> QED
    BY <2>1, <2>4
<1>3. ASSUME NEW r \in Runs, NEW x \in RunType, Emits(r, x), x.emitted = run[r].emitted,
             order' = order, x.key = run[r].key, run[r].status # "none", x.status # "none",
             x.cancel => x.status = "running",
             \/ /\ active' = active
                /\ x.status \in {"queued", "running"} => Active(r)
             \/ /\ active' = [active EXCEPT ![run[r].key] = 0] /\ Active(r)
                /\ x.status \in Terminal
      PROVE  /\ RegistryOK' /\ OneActiveRun' /\ LifeOK' /\ Grows
             /\ UNCHANGED <<at, of, cursor, batch, got>>
             /\ woken \subseteq Followers => woken' \subseteq Followers
  <2>1. PICK z : z = [x EXCEPT !.emitted = @ + 1]
    OBVIOUS
  <2>2. /\ z \in RunType /\ z.key = x.key /\ z.status = x.status
        /\ z.cancel = x.cancel /\ z.emitted >= run[r].emitted
    BY <1>3, <2>1 DEF RunType
  <2>3. run' = [run EXCEPT ![r] = z] /\ UNCHANGED <<at, of, cursor, batch, got>>
    BY <1>3, <2>1 DEF Emits
  <2>4. woken \subseteq Followers => woken' \subseteq Followers
    BY <1>3 DEF Emits, Wakes
  <2>5. RegistryOK' /\ OneActiveRun' /\ LifeOK' /\ Grows
    BY <1>2, <1>3, <2>2, <2>3
  <2> QED
    BY <2>3, <2>4, <2>5
<1>4. ASSUME NEW r \in Runs, Begin(r)
      PROVE  /\ RegistryOK' /\ OneActiveRun' /\ LifeOK' /\ Grows
             /\ UNCHANGED <<at, of, cursor, batch, got>>
             /\ woken \subseteq Followers => woken' \subseteq Followers
  <2>1. run[r] \in RunType /\ run[r].status = "queued"
    BY <1>4 DEF RegistryOK, Begin
  <2>2. PICK x : x = [run[r] EXCEPT !.status = "running"]
    OBVIOUS
  <2>3. /\ x \in RunType /\ x.status = "running" /\ x.key = run[r].key
        /\ x.emitted = run[r].emitted
    BY <2>1, <2>2 DEF RunType
  <2>4. Emits(r, x) /\ UNCHANGED <<order, active>>
    BY <1>4, <2>2 DEF Begin
  <2> QED
    BY <1>3, <2>1, <2>3, <2>4 DEF Active
<1>5. ASSUME NEW r \in Runs, Progress(r) \/ UndoApplied(r)
      PROVE  /\ RegistryOK' /\ OneActiveRun' /\ LifeOK' /\ Grows
             /\ UNCHANGED <<at, of, cursor, batch, got>>
             /\ woken \subseteq Followers => woken' \subseteq Followers
  <2>1. run[r] \in RunType /\ run[r].status # "none"
    BY <1>5 DEF RegistryOK, Progress, UndoApplied, Terminal
  <2>2. Emits(r, run[r]) /\ UNCHANGED <<order, active>>
    BY <1>5 DEF Progress, UndoApplied
  <2>3. run[r].cancel => run[r].status = "running"
    BY DEF LifeOK
  <2> QED
    BY <1>3, <2>1, <2>2, <2>3 DEF Active
<1>6. ASSUME NEW r \in Runs, NEW status \in Terminal, Ends(r, status), run[r].status = "running"
      PROVE  /\ RegistryOK' /\ OneActiveRun' /\ LifeOK' /\ Grows
             /\ UNCHANGED <<at, of, cursor, batch, got>>
             /\ woken \subseteq Followers => woken' \subseteq Followers
  <2>1. run[r] \in RunType
    BY DEF RegistryOK
  <2>2. PICK x : x = [run[r] EXCEPT !.status = status, !.cancel = FALSE,
                                    !.ended = run[r].emitted + 1]
    OBVIOUS
  <2>3. x \in RunType
    <3>1. run[r].emitted + 1 \in Nat
      BY <2>1 DEF RunType
    <3>2. status \in {"none", "queued", "running"} \cup Terminal
      OBVIOUS
    <3> HIDE DEF Terminal
    <3> QED
      BY <2>1, <2>2, <3>1, <3>2 DEF RunType
  <2>5. /\ x.status = status /\ x.key = run[r].key /\ x.emitted = run[r].emitted
        /\ x.cancel = FALSE
    BY <2>1, <2>2 DEF RunType
  <2>4. /\ Emits(r, x) /\ order' = order
        /\ active' = [active EXCEPT ![run[r].key] = 0]
    BY <1>6, <2>2 DEF Ends
  <2> QED
    BY <1>3, <1>6, <2>3, <2>4, <2>5 DEF Active, Terminal
<1>7. ASSUME NEW r \in Runs, Cancel(r)
      PROVE  RegistryOK' /\ OneActiveRun' /\ LifeOK' /\ Grows /\ UNCHANGED followVars
  <2>1. run[r] \in RunType /\ run[r].status = "running" /\ UNCHANGED <<order, active, followVars>>
    BY <1>7 DEF RegistryOK, Cancel
  <2>2. PICK z : z = [run[r] EXCEPT !.cancel = TRUE]
    OBVIOUS
  <2>3. /\ z \in RunType /\ z.key = run[r].key /\ z.status = "running"
        /\ z.emitted = run[r].emitted /\ run[r].emitted \in Nat
    BY <2>1, <2>2 DEF RunType
  <2>4. run' = [run EXCEPT ![r] = z]
    BY <1>7, <2>2 DEF Cancel
  <2>5. z.emitted >= run[r].emitted
    BY <2>3
  <2> QED
    BY <1>2, <2>1, <2>3, <2>4, <2>5 DEF Active
<1> QED
  <2>1. \A r \in Runs : Finishes(r) \/ Cancelled(r) =>
          run[r].status = "running" /\ \E status \in Terminal : Ends(r, status)
    BY DEF Finishes, Cancelled, Terminal, LifeOK
  <2> QED
    BY <1>1, <1>4, <1>5, <1>6, <1>7, <2>1 DEF RunStep, Task, followVars

\* The registry, whatever the streams do.
LEMMA RegistryStep ==
    ASSUME RegistryOK, OneActiveRun, LifeOK, [Next]_vars
    PROVE  /\ RegistryOK' /\ OneActiveRun' /\ LifeOK'
           /\ \/ RunStep
              \/ UNCHANGED runVars /\ \E f \in Followers : \E r \in Runs : Attach(f, r) \/ Follow(f)
              \/ UNCHANGED vars
<1>1. CASE RunStep
  BY <1>1, RunStepFacts
<1>2. ASSUME NEW f \in Followers, NEW r \in Runs, Attach(f, r) \/ Follow(f)
      PROVE  UNCHANGED runVars
  BY <1>2 DEF Attach, Follow, Sent, Wakened
<1>3. ASSUME UNCHANGED runVars PROVE RegistryOK' /\ OneActiveRun' /\ LifeOK'
  BY <1>3 DEF runVars, RegistryOK, OneActiveRun, LifeOK, Active, Registered
<1>4. CASE UNCHANGED vars
  BY <1>3, <1>4 DEF vars
<1>5. ASSUME NEW f \in Followers, Follow(f) PROVE \E r \in Runs : Attach(f, r) \/ Follow(f)
  <2>1. 1 \in Runs
    BY RunManagerAssumption DEF Runs
  <2> QED
    BY <1>5, <2>1
<1> QED
  BY <1>1, <1>2, <1>3, <1>4, <1>5 DEF Next, RunStep

LEMMA RegistryInit == Init => RegistryOK /\ OneActiveRun /\ LifeOK
<1> SUFFICES ASSUME Init PROVE RegistryOK /\ OneActiveRun /\ LifeOK
  OBVIOUS
<1>1. NoRun.status = "none" /\ NoRun.emitted = 0 /\ NoRun.cancel = FALSE
  BY DEF NoRun
<1>2. RegistryOK
  <2>1. 0 \in 0..MaxRuns
    BY RunManagerAssumption
  <2> QED
    BY <2>1, NoRunType DEF Init, RegistryOK
<1>3. OneActiveRun /\ LifeOK
  BY <1>1 DEF Init, OneActiveRun, LifeOK, Active
<1> QED
  BY <1>2, <1>3

(* An active run of a document is registered and is the only one.          *)
THEOREM OneActiveRunHolds == Spec => []OneActiveRun
<1>1. Init => RegistryOK /\ OneActiveRun /\ LifeOK
  BY RegistryInit
<1>2. RegistryOK /\ OneActiveRun /\ LifeOK /\ [Next]_vars
        => (RegistryOK /\ OneActiveRun /\ LifeOK)'
  BY RegistryStep
<1> QED
  BY <1>1, <1>2, PTL DEF Spec

-----------------------------------------------------------------------------
(* The streams.  D events are dropped and L are in the ring; a cursor c     *)
(* stands for emission D + c, and never falls behind what the client has.   *)

Rising(s) == \A i, j \in 1..Len(s) : i < j => s[i] < s[j]

\* A client with g may be served from position c.
Ready(f, D, L, c, g) ==
    /\ c <= L
    /\ Rising(g)
    /\ \A i \in 1..Len(g) : g[i] <= D + c
    /\ f \in Legacy /\ D = 0 => Len(g) = c /\ \A i \in 1..Len(g) : g[i] = i

\* The stream of f is at w, with cursor c and batch b.
Sending(f, D, L, w, c, b, g) ==
    /\ w = "off" => g = <<>>
    /\ c <= L
    /\ Rising(g)
    /\ \A i \in 1..Len(g) : g[i] <= D + c
    /\ f \in Legacy /\ D = 0 =>
         /\ \A i \in 1..Len(g) : g[i] = i
         /\ w \in {"send", "wait"} => Len(g) = c
         /\ w = "send" => \A j \in 1..Len(b) : b[j] = c + j
    /\ w = "send" =>
         /\ c + Len(b) <= L
         /\ Rising(b)
         /\ \A j \in 1..Len(b) : b[j] <= D + c + Len(b)
         /\ \A i \in 1..Len(g), j \in 1..Len(b) : g[i] < b[j]

FollowOK ==
    /\ at \in [Followers -> {"off", "send", "wait", "over"}] /\ of \in [Followers -> Runs]
    /\ cursor \in [Followers -> Nat] /\ batch \in [Followers -> Seq(Nat)]
    /\ got \in [Followers -> Seq(Nat)] /\ woken \subseteq Followers

Streams ==
    \A f \in Followers :
      Sending(f, Dropped(of[f]), Length(of[f]), at[f], cursor[f], batch[f], got[f])

LEMMA RingFacts ==
    ASSUME RegistryOK, NEW r \in Runs
    PROVE  /\ run[r].emitted \in Nat /\ MaxEvents \in Nat \ {0}
           /\ Length(r) = IF run[r].emitted <= MaxEvents THEN run[r].emitted ELSE MaxEvents
           /\ Length(r) \in 0..MaxEvents
           /\ Dropped(r) = run[r].emitted - Length(r) /\ Dropped(r) \in Nat
<1>1. run[r].emitted \in Nat /\ MaxEvents \in Nat \ {0}
  BY RunManagerAssumption DEF RegistryOK, RunType
<1>2. Length(r) = IF run[r].emitted <= MaxEvents THEN run[r].emitted ELSE MaxEvents
  BY <1>1, MinOfTwo DEF Length
<1>3. Dropped(r) = run[r].emitted - Length(r)
  BY DEF Dropped
<1> QED
  BY <1>1, <1>2, <1>3

\* An emission only moves the window forward.
LEMMA GrowStream ==
    ASSUME NEW f, NEW D \in Nat, NEW L \in Nat, NEW D2 \in Nat, NEW L2 \in Nat, D <= D2, L <= L2,
           NEW w, NEW c \in Nat, NEW b \in Seq(Nat), NEW g \in Seq(Nat),
           Sending(f, D, L, w, c, b, g)
    PROVE  Sending(f, D2, L2, w, c, b, g)
<1>1. Len(b) \in Nat /\ Len(g) \in Nat
  OBVIOUS
<1>2. \A i \in 1..Len(g) : g[i] \in Nat /\ g[i] <= D + c
  BY DEF Sending
<1>3. \A i \in 1..Len(g) : g[i] <= D2 + c
  BY <1>1, <1>2
<1>4. ASSUME w = "send"
      PROVE  /\ c + Len(b) <= L2 /\ Rising(b)
             /\ \A j \in 1..Len(b) : b[j] <= D2 + c + Len(b)
             /\ \A i \in 1..Len(g), j \in 1..Len(b) : g[i] < b[j]
  <2>1. /\ c + Len(b) <= L /\ Rising(b)
        /\ \A j \in 1..Len(b) : b[j] \in Nat /\ b[j] <= D + c + Len(b)
        /\ \A i \in 1..Len(g), j \in 1..Len(b) : g[i] < b[j]
    BY <1>4 DEF Sending
  <2>2. c + Len(b) <= L2 /\ \A j \in 1..Len(b) : b[j] <= D2 + c + Len(b)
    BY <1>1, <2>1
  <2> QED
    BY <2>1, <2>2
<1>5. f \in Legacy /\ D2 = 0 =>
         /\ \A i \in 1..Len(g) : g[i] = i
         /\ w \in {"send", "wait"} => Len(g) = c
         /\ w = "send" => \A j \in 1..Len(b) : b[j] = c + j
  <2>1. D2 = 0 => D = 0
    OBVIOUS
  <2> QED
    BY <2>1 DEF Sending
<1>6. (w = "off" => g = <<>>) /\ c <= L2 /\ Rising(g)
  BY DEF Sending
<1> QED
  BY <1>3, <1>4, <1>5, <1>6 DEF Sending

\* One look at the ring: a slice to send, or none.
LEMMA LookStream ==
    ASSUME NEW f, NEW D \in Nat, NEW L \in Nat, NEW c \in Nat, NEW g \in Seq(Nat),
           Ready(f, D, L, c, g), NEW w, NEW b,
           \/ w = "send" /\ b = [i \in 1..(L - c) |-> D + c + i]
           \/ w \in {"wait", "over"} /\ b = <<>>
    PROVE  b \in Seq(Nat) /\ Sending(f, D, L, w, c, b, g)
<1>1. Len(g) \in Nat /\ \A i \in 1..Len(g) : g[i] \in Nat
  OBVIOUS
<1>2. CASE w = "send" /\ b = [i \in 1..(L - c) |-> D + c + i]
  <2>1. L - c \in Nat
    BY DEF Ready
  <2>2. b \in Seq(Nat) /\ Len(b) = L - c /\ \A j \in 1..Len(b) : b[j] = D + c + j
    BY <1>2, <2>1
  <2>3. c + Len(b) <= L /\ \A j \in 1..Len(b) : b[j] <= D + c + Len(b)
    BY <2>1, <2>2
  <2>4. Rising(b)
    BY <2>1, <2>2 DEF Rising
  <2>5. \A i \in 1..Len(g), j \in 1..Len(b) : g[i] < b[j]
    <3>1. \A i \in 1..Len(g) : g[i] \in Nat /\ g[i] <= D + c
      BY <1>1 DEF Ready
    <3>2. \A j \in 1..Len(b) : b[j] > D + c
      BY <2>1, <2>2
    <3>3. \A j \in 1..Len(b) : b[j] \in Nat
      BY <2>2, SMTT(20)
    <3>4. ASSUME NEW i \in 1..Len(g), NEW j \in 1..Len(b) PROVE g[i] < b[j]
      <4>1. PICK x, y \in Nat : x = g[i] /\ y = b[j]
        BY <3>1, <3>3
      <4>2. x <= D + c /\ y > D + c
        BY <3>1, <3>2, <4>1
      <4>3. x < y
        BY <4>2
      <4> QED
        BY <4>1, <4>3
    <3> QED
      BY <3>4
  <2>6. D = 0 => \A j \in 1..Len(b) : b[j] = c + j
    BY <2>2
  <2> QED
    BY <1>2, <2>2, <2>3, <2>4, <2>5, <2>6 DEF Ready, Sending
<1>3. CASE w \in {"wait", "over"} /\ b = <<>>
  BY <1>3 DEF Ready, Sending
<1> QED
  BY <1>2, <1>3

\* What has been sent: the cursor goes past the batch, to the end of the ring in a
\* resumable stream.
LEMMA SentStream ==
    ASSUME NEW f, NEW D \in Nat, NEW L \in Nat, NEW c \in Nat, NEW c2 \in Nat,
           NEW b \in Seq(Nat), NEW g \in Seq(Nat), NEW h,
           Sending(f, D, L, "send", c, b, g), h = g \o b,
           c2 = c + Len(b) \/ (f \notin Legacy /\ c2 = L)
    PROVE  h \in Seq(Nat) /\ Ready(f, D, L, c2, h)
<1>1. /\ Len(g) \in Nat /\ Len(b) \in Nat /\ h \in Seq(Nat) /\ Len(h) = Len(g) + Len(b)
      /\ \A i \in 1..Len(h) : h[i] = IF i <= Len(g) THEN g[i] ELSE b[i - Len(g)]
  BY ConcatProperties
<1>2. /\ c + Len(b) <= L /\ Rising(g) /\ Rising(b)
      /\ \A i \in 1..Len(g) : g[i] \in Nat /\ g[i] <= D + c
      /\ \A j \in 1..Len(b) : b[j] \in Nat /\ b[j] <= D + c + Len(b)
      /\ \A i \in 1..Len(g), j \in 1..Len(b) : g[i] < b[j]
  BY SMTT(20) DEF Sending
<1>3. c + Len(b) <= c2 /\ c2 <= L
  BY <1>1, <1>2
<1>4. \A i \in 1..Len(h) :
        \/ i \in 1..Len(g) /\ h[i] = g[i]
        \/ (i - Len(g)) \in 1..Len(b) /\ i > Len(g) /\ h[i] = b[i - Len(g)]
  BY <1>1
<1>5. ASSUME NEW i \in 1..Len(h) PROVE h[i] <= D + c2
  <2>1. CASE i \in 1..Len(g) /\ h[i] = g[i]
    <3>1. g[i] \in Nat /\ g[i] <= D + c
      BY <1>2, <2>1
    <3> QED
      BY <1>1, <1>3, <2>1, <3>1
  <2>2. CASE (i - Len(g)) \in 1..Len(b) /\ h[i] = b[i - Len(g)]
    <3>1. b[i - Len(g)] \in Nat /\ b[i - Len(g)] <= D + c + Len(b)
      BY <1>2, <2>2
    <3> QED
      BY <1>1, <1>3, <2>2, <3>1
  <2> QED
    BY <1>4, <2>1, <2>2
<1>6. Rising(h)
  <2> SUFFICES ASSUME NEW i \in 1..Len(h), NEW j \in 1..Len(h), i < j PROVE h[i] < h[j]
    BY DEF Rising
  <2>1. CASE j \in 1..Len(g) /\ h[j] = g[j]
    <3>1. i \in 1..Len(g) /\ h[i] = g[i]
      BY <1>1, <2>1
    <3> QED
      BY <1>2, <2>1, <3>1 DEF Rising
  <2>2. CASE (j - Len(g)) \in 1..Len(b) /\ j > Len(g) /\ h[j] = b[j - Len(g)]
    <3>1. CASE i \in 1..Len(g) /\ h[i] = g[i]
      BY <1>2, <2>2, <3>1
    <3>2. CASE (i - Len(g)) \in 1..Len(b) /\ h[i] = b[i - Len(g)]
      <4>1. i - Len(g) < j - Len(g)
        BY <1>1
      <4> QED
        BY <1>2, <2>2, <3>2, <4>1 DEF Rising
    <3> QED
      BY <1>4, <3>1, <3>2
  <2> QED
    BY <1>4, <2>1, <2>2
<1>7. ASSUME f \in Legacy, D = 0 PROVE Len(h) = c2 /\ \A i \in 1..Len(h) : h[i] = i
  <2>1. /\ \A i \in 1..Len(g) : g[i] = i
        /\ Len(g) = c /\ \A j \in 1..Len(b) : b[j] = c + j
    BY <1>7 DEF Sending
  <2>2. c2 = c + Len(b)
    BY <1>7
  <2>3. ASSUME NEW i \in 1..Len(h) PROVE h[i] = i
    <3>1. CASE i \in 1..Len(g) /\ h[i] = g[i]
      BY <2>1, <3>1
    <3>2. CASE (i - Len(g)) \in 1..Len(b) /\ h[i] = b[i - Len(g)]
      <4>1. b[i - Len(g)] = c + (i - Len(g))
        BY <2>1, <3>2
      <4> QED
        BY <1>1, <2>1, <3>2, <4>1
    <3> QED
      BY <1>4, <3>1, <3>2
  <2> QED
    BY <1>1, <2>1, <2>2, <2>3
<1> QED
  BY <1>1, <1>3, <1>5, <1>6, <1>7 DEF Ready

(* The stream of f is served again from c, or is over.                     *)
LEMMA StreamMoves ==
    ASSUME RegistryOK, FollowOK, Streams, NEW f \in Followers, NEW r \in Runs,
           NEW c \in Nat, NEW g \in Seq(Nat), Ready(f, Dropped(r), Length(r), c, g),
           UNCHANGED runVars,
           of' = [of EXCEPT ![f] = r], got' = [got EXCEPT ![f] = g],
           \/ Look(f, r, c)
           \/ /\ at' = [at EXCEPT ![f] = "over"] /\ woken' = woken \ {f}
              /\ cursor' = [cursor EXCEPT ![f] = c] /\ batch' = [batch EXCEPT ![f] = <<>>]
    PROVE  FollowOK' /\ Streams'
<1>1. \A q \in Runs : Length(q)' = Length(q) /\ Dropped(q)' = Dropped(q)
  BY DEF runVars, Length, Dropped
<1>2. Length(r) \in Nat /\ Dropped(r) \in Nat
  BY RingFacts
<1>3. PICK w, b :
        /\ at' = [at EXCEPT ![f] = w] /\ batch' = [batch EXCEPT ![f] = b]
        /\ \/ w = "send" /\ b = [i \in 1..(Length(r) - c) |-> Dropped(r) + c + i]
           \/ w \in {"wait", "over"} /\ b = <<>>
  BY DEF Look, Slice
<1>4. cursor' = [cursor EXCEPT ![f] = c] /\ woken' = woken \ {f}
  BY DEF Look
<1>5. b \in Seq(Nat) /\ Sending(f, Dropped(r), Length(r), w, c, b, g)
  BY <1>2, <1>3, LookStream
<1>6. FollowOK'
  BY <1>3, <1>4, <1>5 DEF FollowOK
<1>7. ASSUME NEW e \in Followers
      PROVE  Sending(e, Dropped(of[e]), Length(of[e]), at[e], cursor[e], batch[e], got[e])'
  <2>1. CASE e = f
    <3>1. of'[e] = r /\ at'[e] = w /\ cursor'[e] = c /\ batch'[e] = b /\ got'[e] = g
      BY <1>3, <1>4, <2>1 DEF FollowOK
    <3> QED
      BY <1>1, <1>5, <2>1, <3>1 DEF Sending
  <2>2. CASE e # f
    <3>1. /\ of'[e] = of[e] /\ at'[e] = at[e] /\ cursor'[e] = cursor[e]
          /\ batch'[e] = batch[e] /\ got'[e] = got[e] /\ of[e] \in Runs
      BY <1>3, <1>4, <2>2 DEF FollowOK
    <3>2. Sending(e, Dropped(of[e]), Length(of[e]), at[e], cursor[e], batch[e], got[e])
      BY DEF Streams
    <3> QED
      BY <1>1, <3>1, <3>2 DEF Sending
  <2> QED
    BY <2>1, <2>2
<1> QED
  BY <1>6, <1>7 DEF Streams

LEMMA StreamInit == Init => FollowOK /\ Streams
<1> SUFFICES ASSUME Init PROVE FollowOK /\ Streams
  OBVIOUS
<1>1. 1 \in Runs /\ RegistryOK
  BY RunManagerAssumption, RegistryInit DEF Runs
<1>2. FollowOK
  BY <1>1 DEF Init, FollowOK
<1>3. ASSUME NEW f \in Followers
      PROVE  Sending(f, Dropped(of[f]), Length(of[f]), at[f], cursor[f], batch[f], got[f])
  <2>1. of[f] = 1 /\ at[f] = "off" /\ cursor[f] = 0 /\ batch[f] = <<>> /\ got[f] = <<>>
    BY DEF Init
  <2>2. Length(1) \in Nat /\ Dropped(1) \in Nat
    BY <1>1, RingFacts
  <2> QED
    BY <2>1, <2>2 DEF Sending, Rising
<1> QED
  BY <1>2, <1>3 DEF Streams

LEMMA RunStepKeepsStreams ==
    ASSUME RegistryOK, OneActiveRun, LifeOK, FollowOK, Streams, RunStep
    PROVE  FollowOK' /\ Streams'
<1>1. /\ RegistryOK' /\ Grows /\ UNCHANGED <<at, of, cursor, batch, got>>
      /\ woken \subseteq Followers => woken' \subseteq Followers
  BY RunStepFacts
<1>2. FollowOK'
  BY <1>1 DEF FollowOK
<1>3. ASSUME NEW f \in Followers
      PROVE  Sending(f, Dropped(of[f]), Length(of[f]), at[f], cursor[f], batch[f], got[f])'
  <2>1. /\ of[f] \in Runs /\ cursor[f] \in Nat /\ batch[f] \in Seq(Nat) /\ got[f] \in Seq(Nat)
    BY DEF FollowOK
  <2>2. PICK r \in Runs : r = of[f]
    BY <2>1
  <2>3. /\ run[r].emitted \in Nat /\ MaxEvents \in Nat
        /\ Length(r) = IF run[r].emitted <= MaxEvents THEN run[r].emitted ELSE MaxEvents
        /\ Dropped(r) = run[r].emitted - Length(r) /\ Length(r) \in Nat /\ Dropped(r) \in Nat
    BY RingFacts
  <2>4. /\ run'[r].emitted \in Nat
        /\ Length(r)' = IF run'[r].emitted <= MaxEvents THEN run'[r].emitted ELSE MaxEvents
        /\ Dropped(r)' = run'[r].emitted - Length(r)' /\ Length(r)' \in Nat /\ Dropped(r)' \in Nat
    <3>1. RegistryOK'
      BY <1>1
    <3>2. run'[r].emitted \in Nat /\ MaxEvents \in Nat
      BY <2>3, <3>1 DEF RegistryOK, RunType
    <3>3. Length(r)' = Min({run'[r].emitted, MaxEvents})
      BY DEF Length
    <3>4. Length(r)' = IF run'[r].emitted <= MaxEvents THEN run'[r].emitted ELSE MaxEvents
      BY <3>2, <3>3, MinOfTwo
    <3>5. Dropped(r)' = run'[r].emitted - Length(r)'
      BY DEF Dropped
    <3> QED
      BY <3>2, <3>4, <3>5
  <2>5. run'[r].emitted >= run[r].emitted
    BY <1>1 DEF Grows
  <2>6. Length(r) <= Length(r)' /\ Dropped(r) <= Dropped(r)'
    BY <2>3, <2>4, <2>5
  <2>7. Sending(f, Dropped(r), Length(r), at[f], cursor[f], batch[f], got[f])
    BY <2>2 DEF Streams
  <2>8. Sending(f, Dropped(r)', Length(r)', at[f], cursor[f], batch[f], got[f])
    BY <2>1, <2>3, <2>4, <2>6, <2>7, GrowStream
  <2> QED
    BY <1>1, <2>2, <2>8 DEF Sending, Length, Dropped
<1> QED
  BY <1>2, <1>3 DEF Streams

LEMMA StreamStepKeepsStreams ==
    ASSUME RegistryOK, FollowOK, Streams, NEW f \in Followers, UNCHANGED runVars,
           (\E r \in Runs : Attach(f, r)) \/ Follow(f)
    PROVE  FollowOK' /\ Streams'
<1>0. /\ of[f] \in Runs /\ cursor[f] \in Nat /\ batch[f] \in Seq(Nat) /\ got[f] \in Seq(Nat)
      /\ of = [of EXCEPT ![f] = of[f]] /\ got = [got EXCEPT ![f] = got[f]]
  BY DEF FollowOK
<1>1. PICK D, L : D = Dropped(of[f]) /\ L = Length(of[f])
  OBVIOUS
<1>2. D \in Nat /\ L \in Nat
  BY <1>0, <1>1, RingFacts
<1>3. Sending(f, D, L, at[f], cursor[f], batch[f], got[f])
  BY <1>1 DEF Streams
<1>4. ASSUME NEW r \in Runs, Attach(f, r) PROVE FollowOK' /\ Streams'
  <2>1. got[f] = <<>> /\ of' = [of EXCEPT ![f] = r] /\ got' = got /\ Look(f, r, 0)
    BY <1>3, <1>4 DEF Attach, Sending
  <2>2. Length(r) \in Nat /\ Dropped(r) \in Nat
    BY RingFacts
  <2>3. Ready(f, Dropped(r), Length(r), 0, got[f])
    BY <2>1, <2>2 DEF Ready, Rising
  <2> QED
    BY <1>0, <2>1, <2>3, StreamMoves
<1>5. ASSUME NEW c \in Nat, NEW g \in Seq(Nat), Ready(f, D, L, c, g),
             of' = of, got' = [got EXCEPT ![f] = g], Look(f, of[f], c) \/ Proceed(f, c)
      PROVE  FollowOK' /\ Streams'
  <2>1. \/ Look(f, of[f], c)
        \/ /\ at' = [at EXCEPT ![f] = "over"] /\ woken' = woken \ {f}
           /\ cursor' = [cursor EXCEPT ![f] = c] /\ batch' = [batch EXCEPT ![f] = <<>>]
    BY <1>5 DEF Proceed
  <2>2. of' = [of EXCEPT ![f] = of[f]]
    BY <1>0, <1>5
  <2> QED
    BY <1>0, <1>1, <1>5, <2>1, <2>2, StreamMoves
<1>6. CASE Sent(f)
  <2>1. /\ at[f] = "send" /\ of' = of /\ Proceed(f, Advanced(f))
        /\ got' = [got EXCEPT ![f] = got[f] \o batch[f]]
    BY <1>6 DEF Sent
  <2>2. Advanced(f) = cursor[f] + Len(batch[f]) \/ (f \notin Legacy /\ Advanced(f) = L)
    <3>1. CASE f \in Replayers
      <4>1. Advanced(f) = Max({cursor[f], L})
        BY <1>1, <3>1 DEF Advanced
      <4>2. Advanced(f) = L
        BY <1>0, <1>2, <1>3, <4>1, MaxOfTwo DEF Sending
      <4> QED
        BY <3>1, <4>2, RunManagerAssumption
    <3>2. CASE f \notin Replayers
      BY <3>2 DEF Advanced
    <3> QED
      BY <3>1, <3>2
  <2>3. Advanced(f) \in Nat
    BY <1>0, <1>2, <2>2
  <2>4. Sending(f, D, L, "send", cursor[f], batch[f], got[f])
    BY <1>3, <2>1
  <2>5. PICK h : h = got[f] \o batch[f]
    OBVIOUS
  <2>6. h \in Seq(Nat) /\ Ready(f, D, L, Advanced(f), h)
    BY <1>0, <1>2, <2>2, <2>3, <2>4, <2>5, SentStream
  <2> QED
    BY <1>5, <2>1, <2>3, <2>5, <2>6
<1>7. CASE Wakened(f)
  <2>1. /\ at[f] = "wait" /\ of' = of /\ got' = [got EXCEPT ![f] = got[f]]
        /\ Look(f, of[f], cursor[f]) \/ Proceed(f, cursor[f])
    BY <1>0, <1>7 DEF Wakened
  <2>2. Ready(f, D, L, cursor[f], got[f])
    BY <1>3, <2>1 DEF Sending, Ready
  <2> QED
    BY <1>0, <1>5, <2>1, <2>2
<1> QED
  BY <1>4, <1>6, <1>7 DEF Follow

\* The inductive invariant of the whole.
RunInv == RegistryOK /\ OneActiveRun /\ LifeOK /\ FollowOK /\ Streams

LEMMA RunInvStep == RunInv /\ [Next]_vars => RunInv'
<1> SUFFICES ASSUME RunInv, [Next]_vars PROVE RunInv'
  OBVIOUS
<1>1. /\ RegistryOK' /\ OneActiveRun' /\ LifeOK'
      /\ \/ RunStep
         \/ UNCHANGED runVars /\ \E f \in Followers : \E r \in Runs : Attach(f, r) \/ Follow(f)
         \/ UNCHANGED vars
  BY RegistryStep DEF RunInv
<1>2. CASE RunStep
  BY <1>1, <1>2, RunStepKeepsStreams DEF RunInv
<1>3. CASE UNCHANGED runVars /\ \E f \in Followers : \E r \in Runs : Attach(f, r) \/ Follow(f)
  BY <1>1, <1>3, StreamStepKeepsStreams DEF RunInv
<1>4. CASE UNCHANGED vars
  <2>1. FollowOK'
    BY <1>4 DEF RunInv, vars, followVars, FollowOK
  <2>2. Streams'
    BY <1>4 DEF RunInv, vars, runVars, followVars, Streams, Sending, Dropped, Length
  <2> QED
    BY <1>1, <2>1, <2>2 DEF RunInv
<1> QED
  BY <1>1, <1>2, <1>3, <1>4

LEMMA RunInvHolds == Spec => []RunInv
<1>1. Init => RunInv
  BY RegistryInit, StreamInit DEF RunInv
<1> QED
  BY <1>1, RunInvStep, PTL DEF Spec

\* The registry, the runs and the streams have their types; a cursor is a position
\* in the ring.
THEOREM TypeCorrect == Spec => []TypeOK
<1>1. ASSUME RunInv PROVE TypeOK
  <2>1. ASSUME NEW f \in Followers PROVE cursor[f] \in 0..MaxEvents
    <3>1. of[f] \in Runs /\ cursor[f] \in Nat
      BY <1>1 DEF RunInv, FollowOK
    <3>2. Length(of[f]) \in 0..MaxEvents /\ MaxEvents \in Nat
      BY <1>1, <3>1, RingFacts DEF RunInv
    <3>3. cursor[f] <= Length(of[f])
      BY <1>1 DEF RunInv, Streams, Sending
    <3> QED
      BY <3>1, <3>2, <3>3
  <2>2. cursor \in [Followers -> 0..MaxEvents]
    BY <1>1, <2>1 DEF RunInv, FollowOK
  <2> QED
    BY <1>1, <2>2 DEF RunInv, FollowOK, RegistryOK, RunType, TypeOK
<1> QED
  BY <1>1, RunInvHolds, PTL

\* No stream sends an event twice or goes back, however often the ring has dropped
\* and renumbered its events.
THEOREM NoRepeatHolds == Spec => []NoRepeat
<1>1. ASSUME RunInv PROVE NoRepeat
  <2> SUFFICES ASSUME NEW f \in Followers, NEW i \in 1..(Len(got[f]) - 1)
               PROVE  got[f][i] < got[f][i + 1]
    BY DEF NoRepeat
  <2>1. Len(got[f]) \in Nat /\ Rising(got[f])
    BY <1>1 DEF RunInv, FollowOK, Streams, Sending
  <2>2. i \in 1..Len(got[f]) /\ i + 1 \in 1..Len(got[f]) /\ i < i + 1
    BY <2>1
  <2> QED
    BY <2>1, <2>2 DEF Rising
<1> QED
  BY <1>1, RunInvHolds, PTL

\* Until the ring overflows, the client of a legacy stream has a prefix of the
\* events of its run.
THEOREM LegacyHasPrefixHolds == Spec => []LegacyHasPrefix
<1>1. ASSUME RunInv PROVE LegacyHasPrefix
  <2> SUFFICES ASSUME NEW f \in Legacy, Dropped(of[f]) = 0
               PROVE  got[f] = [i \in 1..Len(got[f]) |-> i]
    BY DEF LegacyHasPrefix
  <2>1. f \in Followers
    BY DEF Followers
  <2>2. got[f] \in Seq(Nat)
    BY <1>1, <2>1 DEF RunInv, FollowOK
  <2>3. \A i \in 1..Len(got[f]) : got[f][i] = i
    BY <1>1, <2>1 DEF RunInv, Streams, Sending
  <2> QED
    BY <2>2, <2>3
<1> QED
  BY <1>1, RunInvHolds, PTL
=============================================================================
