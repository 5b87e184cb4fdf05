----------------------------- MODULE Osal_proofs -----------------------------
(***************************************************************************)
(* Proofs about the OSAL.                                                  *)
(*                                                                         *)
(* Its loop, messages and timers: for any number of tasks, events,         *)
(* messages and timers and any bound on the calls, the variables keep      *)
(* their types, no message waits without its task's event being set, no    *)
(* event of a task has two timers, and the kernel implements TaskServices. *)
(*                                                                         *)
(* Its heap: for every size of the heap, of its bucket, header and         *)
(* smallest block, and for every set of requests, the blocks tile the      *)
(* heap, no block that was handed out is joined or cut, ff1 is never past  *)
(* a free block, a request fails only when no run of free blocks would do, *)
(* and the heap implements the allocator that its callers rely on.         *)
(***************************************************************************)
EXTENDS Osal, OsalMemory, SequenceTheorems, WellFoundedInduction, TLAPS

(* What is left of a sequence when one of its elements is taken out. *)
LEMMA RemoveAtFacts ==
  ASSUME NEW S, NEW s \in Seq(S), NEW i \in 1 .. Len(s)
  PROVE  /\ RemoveAt(s, i) \in Seq(S) /\ Len(RemoveAt(s, i)) = Len(s) - 1
         /\ \A j \in 1 .. Len(s) - 1 :
               RemoveAt(s, i)[j] = IF j < i THEN s[j] ELSE s[j + 1]
<1> DEFINE a == SubSeq(s, 1, i - 1)
           b == SubSeq(s, i + 1, Len(s))
<1>1. /\ a \in Seq(S) /\ Len(a) = i - 1 /\ \A j \in 1 .. i - 1 : a[j] = s[j]
  OBVIOUS
<1>2. /\ b \in Seq(S) /\ Len(b) = Len(s) - i /\ \A j \in 1 .. Len(s) - i : b[j] = s[i + j]
  OBVIOUS
<1> HIDE DEF a, b
<1>3. /\ a \o b \in Seq(S) /\ Len(a \o b) = Len(a) + Len(b)
      /\ \A j \in 1 .. Len(a) + Len(b) : (a \o b)[j] = IF j <= Len(a) THEN a[j] ELSE b[j - Len(a)]
  BY <1>1, <1>2, ConcatProperties
<1>4. Len(a \o b) = Len(s) - 1  BY <1>1, <1>2, <1>3
<1>5. ASSUME NEW j \in 1 .. Len(s) - 1
      PROVE  (a \o b)[j] = IF j < i THEN s[j] ELSE s[j + 1]
  <2>1. CASE j < i
    BY <2>1, <1>1, <1>2, <1>3
  <2>2. CASE ~ (j < i)
    <3>1. PICK k \in 1 .. Len(s) - i : k = j - (i - 1) /\ i + k = j + 1  BY <2>2
    <3>2. (a \o b)[j] = b[k]
      <4>1. j \in 1 .. Len(a) + Len(b) /\ ~ (j <= Len(a)) /\ j - Len(a) = k
        BY <2>2, <3>1, <1>1, <1>2
      <4>2. (a \o b)[j] = b[j - Len(a)]  BY <4>1, <1>3
      <4> QED  BY <4>1, <4>2
    <3>3. b[k] = s[i + k]  BY <1>2
    <3> QED  BY <2>2, <3>1, <3>2, <3>3
  <2> QED  BY <2>1, <2>2
<1> QED  BY <1>3, <1>4, <1>5 DEF RemoveAt, a, b

(* What is in it, and that nothing is in it twice. *)
LEMMA RemoveAtSet ==
  ASSUME NEW S, NEW s \in Seq(S), NEW i \in 1 .. Len(s), IsInjective(s)
  PROVE  /\ ToSet(RemoveAt(s, i)) = ToSet(s) \ {s[i]} /\ IsInjective(RemoveAt(s, i))
<1> DEFINE r == RemoveAt(s, i)
           place(j) == IF j < i THEN j ELSE j + 1
<1>1. r \in Seq(S) /\ Len(r) = Len(s) - 1 /\ \A j \in 1 .. Len(s) - 1 : r[j] = s[place(j)]
  BY RemoveAtFacts
<1> HIDE DEF r
<1>2. DOMAIN r = 1 .. Len(s) - 1 /\ DOMAIN s = 1 .. Len(s) /\ Len(s) \in Nat  BY <1>1
<1>3. \A j \in 1 .. Len(s) - 1 : place(j) \in (1 .. Len(s)) \ {i}  OBVIOUS
<1>4. \A k \in (1 .. Len(s)) \ {i} : \E j \in 1 .. Len(s) - 1 : place(j) = k
  <2> TAKE k \in (1 .. Len(s)) \ {i}
  <2>1. CASE k < i
    <3>1. k \in 1 .. Len(s) - 1 /\ place(k) = k  BY <2>1
    <3> QED  BY <3>1
  <2>2. CASE k > i
    <3>1. k - 1 \in 1 .. Len(s) - 1 /\ place(k - 1) = k  BY <2>2
    <3> QED  BY <3>1
  <2> QED  BY <2>1, <2>2
<1>5. \A j, k \in 1 .. Len(s) - 1 : place(j) = place(k) => j = k  OBVIOUS
<1>6. \A j, k \in 1 .. Len(s) : s[j] = s[k] => j = k  BY <1>2 DEF IsInjective
<1>7. IsInjective(r)
  <2> SUFFICES ASSUME NEW j \in 1 .. Len(s) - 1, NEW k \in 1 .. Len(s) - 1, r[j] = r[k]
               PROVE  j = k
    BY <1>2 DEF IsInjective
  <2> QED  BY <1>1, <1>3, <1>5, <1>6
<1>8. ToSet(r) = ToSet(s) \ {s[i]}
  <2>1. \A j \in 1 .. Len(s) - 1 : r[j] \in ToSet(s) \ {s[i]}
    BY <1>1, <1>2, <1>3, <1>6 DEF ToSet
  <2>2. \A k \in (1 .. Len(s)) \ {i} : \E j \in 1 .. Len(s) - 1 : r[j] = s[k]
    BY <1>1, <1>4
  <2>3. ToSet(r) \subseteq ToSet(s) \ {s[i]}  BY <1>2, <2>1 DEF ToSet
  <2>4. ASSUME NEW x \in ToSet(s) \ {s[i]} PROVE x \in ToSet(r)
    <3>1. PICK k \in 1 .. Len(s) : x = s[k]  BY <1>2 DEF ToSet
    <3>2. k # i  BY <3>1
    <3>3. PICK j \in 1 .. Len(s) - 1 : r[j] = s[k]  BY <2>2, <3>2
    <3> QED  BY <1>2, <3>1, <3>3 DEF ToSet
  <2> QED  BY <2>3, <2>4
<1> QED  BY <1>7, <1>8 DEF r

(* The same of a sequence that something is added to. *)
LEMMA AppendSet ==
  ASSUME NEW S, NEW s \in Seq(S), NEW m \in S, IsInjective(s), m \notin ToSet(s)
  PROVE  /\ Append(s, m) \in Seq(S)
         /\ ToSet(Append(s, m)) = ToSet(s) \cup {m} /\ IsInjective(Append(s, m))
<1> DEFINE r == Append(s, m)
<1>1. /\ r \in Seq(S) /\ Len(r) = Len(s) + 1 /\ \A j \in 1 .. Len(s) : r[j] = s[j]
      /\ r[Len(s) + 1] = m
  OBVIOUS
<1> HIDE DEF r
<1>2. DOMAIN r = 1 .. Len(s) + 1 /\ DOMAIN s = 1 .. Len(s) /\ Len(s) \in Nat  BY <1>1
<1>3. \A j \in 1 .. Len(s) : s[j] # m  BY <1>2 DEF ToSet
<1>4. IsInjective(r)  BY <1>1, <1>2, <1>3 DEF IsInjective
<1>5. ToSet(r) = ToSet(s) \cup {m}
  <2>1. \A j \in 1 .. Len(s) + 1 : r[j] \in ToSet(s) \cup {m}
    BY <1>1, <1>2 DEF ToSet
  <2>2. \A x \in ToSet(s) \cup {m} : \E j \in 1 .. Len(s) + 1 : r[j] = x
    BY <1>1, <1>2 DEF ToSet
  <2> QED  BY <1>2, <2>1, <2>2 DEF ToSet
<1> QED  BY <1>1, <1>4, <1>5 DEF r

--------------------------------------------------------------------------------
(* A message waits only while its task's event is set, its sender is about to set it, or
   its task is receiving. *)
Signalled ==
    /\ \A m \in ToSet(queue) : \/ SysEventMsg \in tasksEvents[dest[m]]
                               \/ sent = dest[m]
                               \/ dest[m] = idx /\ pc = "receive"
    /\ pc \in {"receive", "message"} => SysEventMsg \in events

IInv == TypeOK /\ Signalled /\ OneTimerPerEvent

(* OneTimerPerEvent in terms of the records. *)
LEMMA OneTimer ==
  OneTimerPerEvent <=>
    \A i, j \in DOMAIN timers :
        /\ timers[i].task \in Tasks /\ timers[i].event \in AppEvents
        /\ timers[i].task = timers[j].task /\ timers[i].event = timers[j].event
        => i = j
BY DEF OneTimerPerEvent, Live

(* IInv holds initially. *)
LEMMA InitIInv == Init => IInv
<1> SUFFICES ASSUME Init PROVE IInv  OBVIOUS
<1> USE OsalAssumption DEF OsalAssumption, Init, Tasks, Events, NoTask
<1>1. KernelTypes  BY DEF KernelTypes
<1>2. ToSet(queue) = {} /\ IsInjective(queue)  BY DEF ToSet, IsInjective
<1>3. MessageTypes  BY <1>2 DEF MessageTypes
<1>4. TimerTypes  BY DEF TimerTypes
<1>5. Signalled  BY <1>2 DEF Signalled
<1>6. OneTimerPerEvent  BY DEF OneTimerPerEvent, Live
<1> QED  BY <1>1, <1>3, <1>4, <1>5, <1>6 DEF IInv, TypeOK

(* A timer that is started or stopped. *)
LEMMA TimerCalls ==
  ASSUME IInv, NEW t \in Tasks, NEW e \in AppEvents,
         \/ \E n \in Timeouts, reload \in BOOLEAN : AddTimer(t, e, n, reload)
         \/ StopTimer(t, e)
  PROVE  /\ timers' \in Seq(TimerRecords) /\ Len(timers') + Len(expired) <= MaxTimers
         /\ Len(timers) <= Len(timers') /\ OneTimerPerEvent'
<1> USE OsalAssumption DEF OsalAssumption
<1>1. timers \in Seq(TimerRecords) /\ Len(timers) + Len(expired) <= MaxTimers
      /\ Len(expired) \in Nat
  BY DEF IInv, TypeOK, TimerTypes
<1>2. DOMAIN timers = 1 .. Len(timers) /\ Len(timers) \in Nat
      /\ \A i \in DOMAIN timers : timers[i] \in TimerRecords
  BY <1>1
<1>3. \A i, j \in DOMAIN timers :
         /\ timers[i].task \in Tasks /\ timers[i].event \in AppEvents
         /\ timers[i].task = timers[j].task /\ timers[i].event = timers[j].event
         => i = j
  BY OneTimer DEF IInv
<1> DEFINE Goal == /\ timers' \in Seq(TimerRecords) /\ Len(timers') + Len(expired) <= MaxTimers
                   /\ Len(timers) <= Len(timers') /\ OneTimerPerEvent'
<1>4. ASSUME NEW f \in [DOMAIN timers -> TimerRecords], timers' = f,
             \A i \in DOMAIN timers : /\ f[i].task = timers[i].task
                                      /\ f[i].event \in {timers[i].event, Deleted}
      PROVE  Goal
  <2>2. timers' \in Seq(TimerRecords) /\ Len(timers') = Len(timers)
    BY <1>2, <1>4, SeqDef, LenProperties
  <2>3. \A i, j \in DOMAIN timers' :
           /\ timers'[i].task \in Tasks /\ timers'[i].event \in AppEvents
           /\ timers'[i].task = timers'[j].task /\ timers'[i].event = timers'[j].event
           => i = j
    BY <1>2, <1>3, <1>4 DEF Deleted
  <2>4. OneTimerPerEvent'  BY <2>3 DEF OneTimerPerEvent, Live
  <2> QED  BY <2>2, <2>4, <1>1, <1>2
<1>5. ASSUME NEW x \in TimerRecords, x.task = t, x.event = e, Live(t, e) = {},
             timers' = Append(timers, x), Len(timers) + Len(expired) < MaxTimers
      PROVE  Goal
  <2>2. /\ timers' \in Seq(TimerRecords) /\ Len(timers') = Len(timers) + 1
        /\ DOMAIN timers' = 1 .. Len(timers) + 1
        /\ \A i \in DOMAIN timers : timers'[i] = timers[i]
        /\ timers'[Len(timers) + 1] = x
    BY <1>1, <1>2, <1>5, AppendProperties
  <2>3. \A i \in DOMAIN timers : ~ (timers[i].task = t /\ timers[i].event = e)
    BY <1>5 DEF Live
  <2>4. \A i, j \in DOMAIN timers' :
           /\ timers'[i].task \in Tasks /\ timers'[i].event \in AppEvents
           /\ timers'[i].task = timers'[j].task /\ timers'[i].event = timers'[j].event
           => i = j
    BY <1>2, <1>3, <1>5, <2>2, <2>3
  <2>5. OneTimerPerEvent'  BY <2>4 DEF OneTimerPerEvent, Live
  <2> QED  BY <1>1, <1>2, <1>5, <2>2, <2>5
<1>6. ASSUME NEW n \in Timeouts, NEW reload \in BOOLEAN, AddTimer(t, e, n, reload)
      PROVE  Goal
  <2>1. n \in Nat /\ (IF reload THEN n ELSE 0) \in Nat  OBVIOUS
  <2>2. CASE Live(t, e) # {}
    <3> DEFINE f == [i \in DOMAIN timers |->
                       IF i \in Live(t, e)
                       THEN [timers[i] EXCEPT !.timeout = n, !.reload = IF reload THEN n ELSE @]
                       ELSE timers[i]]
    <3>1. timers' = f  BY <1>6, <2>2 DEF AddTimer
    <3>2. \A i \in DOMAIN timers : f[i] \in TimerRecords /\ f[i].task = timers[i].task
                                   /\ f[i].event \in {timers[i].event, Deleted}
      BY <1>2, <2>1 DEF TimerRecords
    <3>3. f \in [DOMAIN timers -> TimerRecords]  BY <3>2
    <3> HIDE DEF f
    <3> QED  BY <1>4, <3>1, <3>2, <3>3
  <2>3. CASE Live(t, e) = {}
    <3> DEFINE x == [task |-> t, event |-> e, timeout |-> n, reload |-> IF reload THEN n ELSE 0]
    <3>1. timers' = Append(timers, x) /\ Len(timers) + Len(expired) < MaxTimers
      BY <1>6, <2>3 DEF AddTimer
    <3>2. x \in TimerRecords /\ x.task = t /\ x.event = e  BY <2>1 DEF TimerRecords
    <3> HIDE DEF x
    <3> QED  BY <1>5, <2>3, <3>1, <3>2
  <2> QED  BY <2>2, <2>3
<1>7. CASE StopTimer(t, e)
  <2> DEFINE f == [i \in DOMAIN timers |->
                     IF i \in Live(t, e) THEN [timers[i] EXCEPT !.event = Deleted] ELSE timers[i]]
  <2>1. timers' = f  BY <1>7 DEF StopTimer
  <2>2. \A i \in DOMAIN timers : f[i] \in TimerRecords /\ f[i].task = timers[i].task
                                 /\ f[i].event \in {timers[i].event, Deleted}
    BY <1>2 DEF TimerRecords
  <2>3. f \in [DOMAIN timers -> TimerRecords]  BY <2>2
  <2> HIDE DEF f
  <2> QED  BY <1>4, <2>1, <2>2, <2>3
<1> QED  BY <1>6, <1>7

(* A step that takes away no event leaves every message signalled. *)
LEMMA EventsAdded ==
  ASSUME MessageTypes, Signalled, UNCHANGED <<queue, dest, sent>>,
         \A t \in Tasks : tasksEvents[t] \subseteq tasksEvents'[t],
         pc # "receive" \/ (pc' = pc /\ idx' = idx),
         pc' \in {"receive", "message"} => SysEventMsg \in events'
  PROVE  Signalled'
<1>1. \A m \in ToSet(queue) : dest[m] \in Tasks  BY DEF MessageTypes
<1> QED  BY <1>1 DEF Signalled

(* The messages and the timers in a step that leaves them alone. *)
LEMMA MessagesKept ==
  ASSUME MessageTypes, UNCHANGED msgVars PROVE MessageTypes'
BY DEF MessageTypes, msgVars, IsInjective, ToSet

(* The timers in such a step. *)
LEMMA TimersKept ==
  ASSUME TimerTypes, OneTimerPerEvent, UNCHANGED timerVars,
         (pc' = "expire") <=> (pc = "expire"),
         walk' \in 0 .. Len(timers), elapsed' \in 0 .. MaxElapsed
  PROVE  TimerTypes' /\ OneTimerPerEvent'
<1>1. timers' = timers /\ expired' = expired  BY DEF timerVars
<1>2. TimerTypes'
  <2>1. Len(expired) = IF pc' = "expire" THEN 1 ELSE 0  BY DEF TimerTypes
  <2> QED  BY <1>1, <2>1 DEF TimerTypes
<1>3. OneTimerPerEvent'  BY <1>1 DEF OneTimerPerEvent, Live
<1> QED  BY <1>2, <1>3

(* osalTimeUpdate and the end of osalTimerUpdate. *)
LEMMA UpdateStep ==
  ASSUME IInv, TimePasses \/ NoTimePassed \/ WalkEnds PROVE IInv'
<1> USE OsalAssumption DEF OsalAssumption, IInv, TypeOK
<1>1. /\ UNCHANGED <<tasksEvents, msgVars, timerVars, idx, events, calls>>
      /\ pc \in {"update", "walk"} /\ pc' \in {"scan", "walk"}
  BY DEF TimePasses, TimeUpdate, NoTimePassed, WalkEnds
<1>2. walk' \in 0 .. Len(timers) /\ elapsed' \in 0 .. MaxElapsed
  BY DEF TimePasses, TimeUpdate, NoTimePassed, WalkEnds, TimerTypes
<1>3. KernelTypes'  BY <1>1 DEF KernelTypes
<1>4. MessageTypes'  BY <1>1, MessagesKept
<1>5. TimerTypes' /\ OneTimerPerEvent'  BY <1>1, <1>2, TimersKept
<1>6. Signalled'  BY <1>1, EventsAdded DEF msgVars
<1> QED  BY <1>3, <1>4, <1>5, <1>6

(* osalTimerUpdate looks at a timer. *)
LEMMA WalkTimerStep ==
  ASSUME IInv, WalkTimer PROVE IInv'
<1> USE OsalAssumption DEF OsalAssumption, IInv, TypeOK
<1>1. /\ timers \in Seq(TimerRecords) /\ Len(timers) \in Nat /\ DOMAIN timers = 1 .. Len(timers)
      /\ walk \in 1 .. Len(timers) /\ Len(expired) = 0 /\ Len(timers) <= MaxTimers
      /\ elapsed \in Nat
  BY DEF WalkTimer, TimerTypes
<1>2. Timer \in TimerRecords  BY <1>1 DEF Timer
<1>3. /\ Timer.task \in Tasks /\ Timer.timeout \in Nat /\ Timer.reload \in Nat
      /\ Timer.event \in AppEvents \cup {Deleted} /\ Left \in Nat
  BY <1>1, <1>2 DEF TimerRecords, Left
<1>4. /\ UNCHANGED <<msgVars, elapsed, idx, events, calls>>
      /\ pc = "walk" /\ pc' \in {"walk", "expire"}
  BY DEF WalkTimer
<1>5. /\ tasksEvents' \in [Tasks -> SUBSET Events]
      /\ \A t \in Tasks : tasksEvents[t] \subseteq tasksEvents'[t]
  BY <1>3 DEF WalkTimer, SetEvent, KernelTypes, Reloads, Events
<1>6. KernelTypes'  BY <1>4, <1>5 DEF KernelTypes
<1>7. MessageTypes'  BY <1>4, MessagesKept
<1>8. Signalled'  BY <1>4, <1>5, EventsAdded DEF msgVars
<1>9. TimerTypes' /\ OneTimerPerEvent'
  <2>1. CASE TakenOut
    <3> DEFINE x == [Timer EXCEPT !.timeout = Left]
               place(j) == IF j < walk THEN j ELSE j + 1
    <3>1. /\ timers' = RemoveAt(timers, walk) /\ expired' = <<x>> /\ pc' = "expire"
          /\ walk' = IF walk < Len(timers) THEN walk ELSE 0
      BY <2>1 DEF WalkTimer
    <3>2. x \in TimerRecords  BY <1>2, <1>3 DEF TimerRecords
    <3> HIDE DEF x
    <3>3. expired' \in Seq(TimerRecords) /\ Len(expired') = 1  BY <3>1, <3>2
    <3>12. /\ timers \in Seq(TimerRecords) /\ walk \in 1 .. Len(timers)  BY <1>1
    <3>13. /\ RemoveAt(timers, walk) \in Seq(TimerRecords)
           /\ Len(RemoveAt(timers, walk)) = Len(timers) - 1
           /\ \A j \in 1 .. Len(timers) - 1 :
                 RemoveAt(timers, walk)[j] = IF j < walk THEN timers[j] ELSE timers[j + 1]
      BY <3>12, RemoveAtFacts, Zenon
    <3>4. /\ timers' \in Seq(TimerRecords) /\ Len(timers') = Len(timers) - 1
          /\ \A j \in 1 .. Len(timers) - 1 :
                timers'[j] = IF j < walk THEN timers[j] ELSE timers[j + 1]
      BY <3>1, <3>13
    <3>11. \A j \in 1 .. Len(timers) - 1 : timers'[j] = timers[place(j)]  BY <3>4
    <3>5. DOMAIN timers' = 1 .. Len(timers) - 1  BY <3>4
    <3>6. \A j, k \in 1 .. Len(timers) - 1 : /\ place(j) \in 1 .. Len(timers)
                                             /\ place(j) = place(k) => j = k
      BY <1>1
    <3>7. TimerTypes'
      BY <1>1, <1>4, <3>1, <3>3, <3>4 DEF TimerTypes
    <3>8. \A i, j \in DOMAIN timers :
             /\ timers[i].task \in Tasks /\ timers[i].event \in AppEvents
             /\ timers[i].task = timers[j].task /\ timers[i].event = timers[j].event
             => i = j
      BY OneTimer
    <3> HIDE DEF place
    <3>9. \A i, j \in DOMAIN timers' :
             /\ timers'[i].task \in Tasks /\ timers'[i].event \in AppEvents
             /\ timers'[i].task = timers'[j].task /\ timers'[i].event = timers'[j].event
             => i = j
      BY <1>1, <3>5, <3>6, <3>8, <3>11
    <3>10. OneTimerPerEvent'  BY <3>9 DEF OneTimerPerEvent, Live
    <3> QED  BY <3>7, <3>10
  <2>2. CASE ~ TakenOut
    <3> DEFINE n == IF Reloads THEN Timer.reload ELSE Left
               f == [timers EXCEPT ![walk].timeout = n]
    <3>1. /\ timers' = f /\ walk' = (IF walk < Len(timers) THEN walk + 1 ELSE 0)
          /\ expired' = expired /\ pc' = pc
      BY <2>2 DEF WalkTimer
    <3>2. n \in Nat  BY <1>3
    <3> HIDE DEF n
    <3>3. /\ f \in [1 .. Len(timers) -> TimerRecords]
          /\ \A i \in DOMAIN timers : /\ f[i].task = timers[i].task
                                      /\ f[i].event = timers[i].event
      <4>1. \A i \in 1 .. Len(timers) : timers[i] \in TimerRecords  BY <1>1
      <4>2. \A i \in 1 .. Len(timers) :
               /\ f[i] = IF i = walk THEN [timers[i] EXCEPT !.timeout = n] ELSE timers[i]
               /\ f[i] \in TimerRecords
               /\ f[i].task = timers[i].task /\ f[i].event = timers[i].event
        BY <1>1, <3>2, <4>1 DEF TimerRecords
      <4>3. f = [i \in 1 .. Len(timers) |-> f[i]]  BY <1>1
      <4> QED  BY <1>1, <4>2, <4>3
    <3> HIDE DEF f
    <3>4. timers' \in Seq(TimerRecords) /\ Len(timers') = Len(timers)
          /\ DOMAIN timers' = DOMAIN timers
      BY <1>1, <3>1, <3>3, SeqDef, LenProperties
    <3>5. TimerTypes'  BY <1>1, <1>4, <3>1, <3>4 DEF TimerTypes
    <3>6. OneTimerPerEvent'  BY <3>1, <3>3, <3>4 DEF OneTimerPerEvent, Live
    <3> QED  BY <3>5, <3>6
  <2> QED  BY <2>1, <2>2
<1> QED  BY <1>6, <1>7, <1>8, <1>9

(* The event of a timer that was taken out. *)
LEMMA ExpireStep ==
  ASSUME IInv, Expire PROVE IInv'
<1> USE OsalAssumption DEF OsalAssumption, IInv, TypeOK
<1>1. /\ UNCHANGED <<msgVars, timers, walk, elapsed, idx, events, calls>>
      /\ pc = "expire" /\ pc' = "walk" /\ expired' = << >>
      /\ timers \in Seq(TimerRecords) /\ Len(timers) \in Nat
      /\ expired \in Seq(TimerRecords) /\ Len(expired) = 1 /\ Len(timers) + 1 <= MaxTimers
  BY DEF Expire, TimerTypes
<1>2. Head(expired) \in TimerRecords
  <2>1. expired # << >> /\ expired \in Seq(TimerRecords)  BY <1>1
  <2> QED  BY <2>1, HeadTailProperties
<1>3. /\ Head(expired).task \in Tasks /\ Head(expired).event \in AppEvents \cup {Deleted}
  BY <1>2 DEF TimerRecords
<1>4. /\ tasksEvents' \in [Tasks -> SUBSET Events]
      /\ \A t \in Tasks : tasksEvents[t] \subseteq tasksEvents'[t]
  BY <1>3 DEF Expire, SetEvent, KernelTypes, Events
<1>5. KernelTypes'  BY <1>1, <1>4 DEF KernelTypes
<1>6. MessageTypes'  BY <1>1, MessagesKept
<1>7. Signalled'  BY <1>1, <1>4, EventsAdded DEF msgVars
<1>8. TimerTypes'  BY <1>1 DEF TimerTypes
<1>9. OneTimerPerEvent'  BY <1>1 DEF OneTimerPerEvent, Live
<1> QED  BY <1>5, <1>6, <1>7, <1>8, <1>9

(* osal_run_system, but for the call of a handler. *)
LEMMA LoopStep ==
  ASSUME IInv, NextTask \/ TaskFound \/ TaskReturns PROVE IInv'
<1> USE OsalAssumption DEF OsalAssumption, IInv, TypeOK
<1>1. /\ UNCHANGED <<msgVars, timerVars, walk, elapsed, calls>>
      /\ pc \in {"scan", "return"} /\ pc' \in {"scan", "call", "update"}
      /\ idx' \in Tasks
  BY DEF NextTask, TaskFound, TaskReturns, KernelTypes, Tasks
<1>2. /\ tasksEvents' \in [Tasks -> SUBSET Events]
      /\ \A t \in Tasks : tasksEvents[t] \subseteq tasksEvents'[t]
      /\ events' \subseteq Events
  BY DEF NextTask, TaskFound, TaskReturns, KernelTypes
<1>3. KernelTypes'  BY <1>1, <1>2 DEF KernelTypes
<1>4. MessageTypes'  BY <1>1, MessagesKept
<1>5. walk' \in 0 .. Len(timers) /\ elapsed' \in 0 .. MaxElapsed  BY <1>1 DEF TimerTypes
<1>6. TimerTypes' /\ OneTimerPerEvent'  BY <1>1, <1>5, TimersKept
<1>7. Signalled'  BY <1>1, <1>2, EventsAdded DEF msgVars
<1> QED  BY <1>3, <1>4, <1>6, <1>7

(* A handler is called: if messages wait for it, it is called with SYS_EVENT_MSG. *)
LEMMA CallTaskStep ==
  ASSUME IInv, CallTask PROVE IInv'
<1> USE OsalAssumption DEF OsalAssumption, IInv, TypeOK
<1>1. /\ UNCHANGED <<msgVars, timerVars, walk, elapsed, idx, calls>>
      /\ pc = "call" /\ pc' \in {"receive", "handle"}
      /\ pc' = "receive" <=> SysEventMsg \in tasksEvents[idx]
      /\ events' = tasksEvents[idx] /\ tasksEvents' = [tasksEvents EXCEPT ![idx] = {}]
      /\ idx \in Tasks
  BY DEF CallTask, KernelTypes
<1>2. KernelTypes'  BY <1>1 DEF KernelTypes
<1>3. MessageTypes'  BY <1>1, MessagesKept
<1>4. walk' \in 0 .. Len(timers) /\ elapsed' \in 0 .. MaxElapsed  BY <1>1 DEF TimerTypes
<1>5. TimerTypes' /\ OneTimerPerEvent'  BY <1>1, <1>4, TimersKept
<1>6. Signalled'
  <2>1. pc' \in {"receive", "message"} => SysEventMsg \in events'  BY <1>1
  <2>2. ASSUME NEW m \in ToSet(queue)
        PROVE  \/ SysEventMsg \in tasksEvents'[dest[m]]
               \/ sent = dest[m]
               \/ dest[m] = idx /\ pc' = "receive"
    <3>1. dest[m] \in Tasks  BY DEF MessageTypes
    <3>2. SysEventMsg \in tasksEvents[dest[m]] \/ sent = dest[m]  BY <1>1 DEF Signalled
    <3>3. tasksEvents'[dest[m]] = IF dest[m] = idx THEN {} ELSE tasksEvents[dest[m]]
      BY <1>1, <3>1 DEF KernelTypes
    <3> QED  BY <1>1, <3>2, <3>3
  <2> QED  BY <1>1, <2>1, <2>2 DEF Signalled, msgVars
<1> QED  BY <1>2, <1>3, <1>5, <1>6

(* The first of a task's messages. *)
LEMMA FirstMessage ==
  ASSUME MessageTypes, NEW t \in Tasks, For(t) # {}
  PROVE  First(t) \in For(t) /\ \A j \in For(t) : First(t) <= j
<1>1. For(t) \subseteq Nat  BY DEF For, MessageTypes
<1>2. \E i \in For(t) : \A j \in For(t) : ~ (<<j, i>> \in OpToRel(<, Nat))
  BY <1>1, NatLessThanWellFounded, WFMin
<1>3. \A i, j \in Nat : <<j, i>> \in OpToRel(<, Nat) <=> j < i  BY DEF OpToRel
<1>4. \A i, j \in Nat : ~ (j < i) => i <= j  OBVIOUS
<1>5. \E i \in For(t) : \A j \in For(t) : i <= j
  BY <1>1, <1>2, <1>3, <1>4, Zenon
<1> QED  BY <1>5 DEF First

(* osal_msg_receive. *)
LEMMA ReceiveStep ==
  ASSUME IInv, ReceiveMessage PROVE IInv'
<1> USE OsalAssumption DEF OsalAssumption, IInv, TypeOK
<1> DEFINE i == First(idx)
           m == queue[i]
<1>1. /\ UNCHANGED <<timerVars, sent, walk, elapsed, idx, events, calls>>
      /\ pc = "receive" /\ pc' = "message" /\ idx \in Tasks /\ For(idx) # {}
      /\ queue' = RemoveAt(queue, i) /\ dest' = [dest EXCEPT ![m] = NoTask]
      /\ held' = held \cup {m}
      /\ tasksEvents' = [tasksEvents EXCEPT
                           ![idx] = IF \E j, k \in For(idx) : j # k THEN @ \cup {SysEventMsg}
                                                                    ELSE @ \ {SysEventMsg}]
  BY DEF ReceiveMessage, KernelTypes
<1>2. i \in For(idx)  BY <1>1, FirstMessage
<1> HIDE DEF i
<1>3. i \in 1 .. Len(queue) /\ queue \in Seq(Msgs) /\ IsInjective(queue) /\ dest[m] = idx
  BY <1>2 DEF For, MessageTypes
<1>4. m \in ToSet(queue) /\ m \in Msgs  BY <1>3 DEF ToSet
<1>5. queue' \in Seq(Msgs)  BY <1>1, <1>3, RemoveAtFacts, Zenon
<1>6. ToSet(queue') = ToSet(queue) \ {m} /\ IsInjective(queue')
  <2>1. ToSet(RemoveAt(queue, i)) = ToSet(queue) \ {m} /\ IsInjective(RemoveAt(queue, i))
    BY <1>3, RemoveAtSet, Zenon
  <2> QED  BY <1>1, <2>1
<1> HIDE DEF m
<1>7. MessageTypes'
  <2>1. dest' \in [Msgs -> Tasks \cup {NoTask}]
        /\ \A n \in Msgs : dest'[n] = IF n = m THEN NoTask ELSE dest[n]
    BY <1>1, <1>4 DEF MessageTypes
  <2>2. ToSet(queue') = {n \in Msgs : dest'[n] # NoTask}
    BY <1>6, <2>1 DEF MessageTypes
  <2>3. held' \subseteq Msgs \ ToSet(queue')
    BY <1>1, <1>4, <1>6 DEF MessageTypes
  <2> QED  BY <1>1, <1>5, <1>6, <2>1, <2>2, <2>3 DEF MessageTypes
<1>8. KernelTypes'
  <2>1. tasksEvents' \in [Tasks -> SUBSET Events]  BY <1>1 DEF KernelTypes, Events
  <2> QED  BY <1>1, <2>1 DEF KernelTypes
<1>9. walk' \in 0 .. Len(timers) /\ elapsed' \in 0 .. MaxElapsed  BY <1>1 DEF TimerTypes
<1>10. TimerTypes' /\ OneTimerPerEvent'  BY <1>1, <1>9, TimersKept
<1>11. Signalled'
  <2>1. SysEventMsg \in events'  BY <1>1 DEF Signalled
  <2>2. ASSUME NEW n \in ToSet(queue')
        PROVE  SysEventMsg \in tasksEvents'[dest'[n]] \/ sent' = dest'[n]
    <3>1. n \in ToSet(queue) /\ n # m /\ n \in Msgs /\ dest[n] \in Tasks
      BY <1>6 DEF MessageTypes
    <3>2. dest'[n] = dest[n]  BY <1>1, <3>1 DEF MessageTypes
    <3>3. CASE dest[n] = idx
      <4>1. PICK k \in DOMAIN queue : queue[k] = n  BY <3>1 DEF ToSet
      <4>2. k \in For(idx) /\ k # i  BY <3>1, <3>3, <4>1 DEF For, m
      <4>3. tasksEvents'[idx] = tasksEvents[idx] \cup {SysEventMsg}
        BY <1>1, <1>2, <4>2 DEF KernelTypes
      <4> QED  BY <3>2, <3>3, <4>3
    <3>4. CASE dest[n] # idx
      <4>1. SysEventMsg \in tasksEvents[dest[n]] \/ sent = dest[n]
        BY <3>1, <3>4 DEF Signalled
      <4>2. tasksEvents'[dest[n]] = tasksEvents[dest[n]]
        BY <1>1, <3>1, <3>4 DEF KernelTypes
      <4> QED  BY <1>1, <3>2, <4>1, <4>2
    <3> QED  BY <3>3, <3>4
  <2> QED  BY <1>1, <2>1, <2>2 DEF Signalled
<1> QED  BY <1>7, <1>8, <1>10, <1>11

(* No message is found. *)
LEMMA NoMessageStep ==
  ASSUME IInv, NoMessage PROVE IInv'
<1> USE OsalAssumption DEF OsalAssumption, IInv, TypeOK
<1>1. /\ UNCHANGED <<msgVars, timerVars, walk, elapsed, idx, calls>>
      /\ pc = "receive" /\ pc' = "return" /\ idx \in Tasks /\ For(idx) = {}
      /\ tasksEvents' = [tasksEvents EXCEPT ![idx] = @ \ {SysEventMsg}]
      /\ events' = events \ {SysEventMsg}
  BY DEF NoMessage, KernelTypes
<1>2. KernelTypes'
  <2>1. tasksEvents' \in [Tasks -> SUBSET Events]  BY <1>1 DEF KernelTypes
  <2> QED  BY <1>1, <2>1 DEF KernelTypes
<1>3. MessageTypes'  BY <1>1, MessagesKept
<1>4. walk' \in 0 .. Len(timers) /\ elapsed' \in 0 .. MaxElapsed  BY <1>1 DEF TimerTypes
<1>5. TimerTypes' /\ OneTimerPerEvent'  BY <1>1, <1>4, TimersKept
<1>6. Signalled'
  <2>1. ASSUME NEW m \in ToSet(queue)
        PROVE  SysEventMsg \in tasksEvents'[dest[m]] \/ sent = dest[m]
    <3>1. dest[m] \in Tasks  BY DEF MessageTypes
    <3>2. PICK k \in DOMAIN queue : queue[k] = m  BY DEF ToSet
    <3>3. dest[m] # idx  BY <1>1, <3>2 DEF For
    <3>4. tasksEvents'[dest[m]] = tasksEvents[dest[m]]  BY <1>1, <3>1, <3>3 DEF KernelTypes
    <3>5. SysEventMsg \in tasksEvents[dest[m]] \/ sent = dest[m]  BY <3>3 DEF Signalled
    <3> QED  BY <3>4, <3>5
  <2> QED  BY <1>1, <2>1 DEF Signalled, msgVars
<1> QED  BY <1>2, <1>3, <1>5, <1>6

(* A handler is done with a message or an event. *)
LEMMA DoneStep ==
  ASSUME IInv, MessageDone \/ (\E e \in AppEvents : EventDone(e)) PROVE IInv'
<1> USE OsalAssumption DEF OsalAssumption, IInv, TypeOK
<1>1. /\ UNCHANGED <<tasksEvents, queue, dest, sent, timerVars, walk, elapsed, idx, calls>>
      /\ pc \in {"message", "handle"} /\ pc' \in {"receive", "return"}
      /\ events' \subseteq events /\ held' \subseteq held
  BY DEF MessageDone, EventDone, msgVars
<1>2. pc' = "receive" => pc = "message" /\ events' = events  BY DEF MessageDone, EventDone
<1>3. KernelTypes'  BY <1>1 DEF KernelTypes
<1>4. MessageTypes'  BY <1>1 DEF MessageTypes, IsInjective, ToSet
<1>5. walk' \in 0 .. Len(timers) /\ elapsed' \in 0 .. MaxElapsed  BY <1>1 DEF TimerTypes
<1>6. TimerTypes' /\ OneTimerPerEvent'  BY <1>1, <1>5, TimersKept
<1>7. pc' \in {"receive", "message"} => SysEventMsg \in events'  BY <1>1, <1>2 DEF Signalled
<1>8. Signalled'  BY <1>1, <1>7, EventsAdded
<1> QED  BY <1>3, <1>4, <1>6, <1>8

(* osal_msg_send, up to osal_set_event. *)
LEMMA SendStep ==
  ASSUME IInv, Handling, sent = NoTask, Calls, NEW m \in Msgs, NEW t \in Tasks,
         SendMessage(m, t)
  PROVE  IInv'
<1> USE OsalAssumption DEF OsalAssumption, IInv, TypeOK
<1>1. /\ UNCHANGED <<tasksEvents, timerVars, pc, walk, elapsed, idx, events>>
      /\ pc \in {"message", "handle"} /\ sent = NoTask /\ calls' \in 0 .. MaxCalls
      /\ dest' = [dest EXCEPT ![m] = t] /\ queue' = Append(queue, m) /\ held' = held \ {m}
      /\ sent' = t
  BY DEF SendMessage, Handling, Calls, KernelTypes, kernelVars
<1>2. m \notin ToSet(queue)  BY DEF SendMessage, Unused, MessageTypes
<1>3. queue \in Seq(Msgs) /\ IsInjective(queue)  BY DEF MessageTypes
<1>4. /\ queue' \in Seq(Msgs) /\ ToSet(queue') = ToSet(queue) \cup {m}
      /\ IsInjective(queue')
  <2>1. /\ Append(queue, m) \in Seq(Msgs) /\ ToSet(Append(queue, m)) = ToSet(queue) \cup {m}
        /\ IsInjective(Append(queue, m))
    BY <1>2, <1>3, AppendSet, Zenon
  <2> QED  BY <1>1, <2>1
<1>5. /\ dest' \in [Msgs -> Tasks \cup {NoTask}]
      /\ \A n \in Msgs : dest'[n] = IF n = m THEN t ELSE dest[n]
  BY <1>1 DEF MessageTypes
<1>6. t # NoTask  BY DEF Tasks, NoTask
<1>7. MessageTypes'
  <2>1. ToSet(queue') = {n \in Msgs : dest'[n] # NoTask}
    BY <1>4, <1>5, <1>6 DEF MessageTypes
  <2>2. held' \subseteq Msgs \ ToSet(queue')  BY <1>1, <1>4 DEF MessageTypes
  <2> QED  BY <1>1, <1>4, <1>5, <2>1, <2>2 DEF MessageTypes
<1>8. KernelTypes'  BY <1>1 DEF KernelTypes
<1>9. walk' \in 0 .. Len(timers) /\ elapsed' \in 0 .. MaxElapsed  BY <1>1 DEF TimerTypes
<1>10. TimerTypes' /\ OneTimerPerEvent'  BY <1>1, <1>9, TimersKept
<1>11. Signalled'
  <2>1. pc' \in {"receive", "message"} => SysEventMsg \in events'  BY <1>1 DEF Signalled
  <2>2. ASSUME NEW n \in ToSet(queue')
        PROVE  SysEventMsg \in tasksEvents'[dest'[n]] \/ sent' = dest'[n]
    <3>1. CASE n = m  BY <1>1, <1>5, <3>1
    <3>2. CASE n # m
      <4>1. n \in ToSet(queue) /\ n \in Msgs /\ dest[n] \in Tasks
        BY <1>4, <3>2 DEF MessageTypes
      <4>2. sent # dest[n]  BY <1>1, <4>1 DEF Tasks, NoTask
      <4>3. SysEventMsg \in tasksEvents[dest[n]]  BY <1>1, <4>1, <4>2 DEF Signalled
      <4> QED  BY <1>1, <1>5, <3>2, <4>1, <4>3
    <3> QED  BY <3>1, <3>2
  <2> QED  BY <2>1, <2>2 DEF Signalled
<1> QED  BY <1>7, <1>8, <1>10, <1>11

(* The end of osal_msg_send. *)
LEMMA SignalStep ==
  ASSUME IInv, SignalMessage PROVE IInv'
<1> USE OsalAssumption DEF OsalAssumption, IInv, TypeOK
<1>1. /\ UNCHANGED <<queue, dest, held, timerVars, pc, walk, elapsed, idx, events, calls>>
      /\ sent \in Tasks /\ sent' = NoTask
      /\ tasksEvents' = [tasksEvents EXCEPT ![sent] = @ \cup {SysEventMsg}]
  BY DEF SignalMessage, SetEvent, MessageTypes, kernelVars
<1>2. /\ tasksEvents' \in [Tasks -> SUBSET Events]
      /\ \A t \in Tasks : tasksEvents[t] \subseteq tasksEvents'[t]
      /\ SysEventMsg \in tasksEvents'[sent]
  BY <1>1 DEF KernelTypes, Events
<1>3. KernelTypes'  BY <1>1, <1>2 DEF KernelTypes
<1>4. MessageTypes'  BY <1>1 DEF MessageTypes, IsInjective, ToSet
<1>5. walk' \in 0 .. Len(timers) /\ elapsed' \in 0 .. MaxElapsed  BY <1>1 DEF TimerTypes
<1>6. TimerTypes' /\ OneTimerPerEvent'  BY <1>1, <1>5, TimersKept
<1>7. \A m \in ToSet(queue) : dest[m] \in Tasks  BY DEF MessageTypes
<1>8. Signalled'  BY <1>1, <1>2, <1>7 DEF Signalled
<1> QED  BY <1>3, <1>4, <1>6, <1>8

(* An event is set, or a timer started or stopped, by a task or by an interrupt. *)
LEMMA ServiceStep ==
  ASSUME IInv, NEW t \in Tasks, NEW e \in AppEvents, Calls,
         UNCHANGED <<msgVars, expired, kernelVars>>,
         \/ SetEvent(t, e) /\ UNCHANGED timers
         \/ /\ \/ \E n \in Timeouts, reload \in BOOLEAN : AddTimer(t, e, n, reload)
               \/ StopTimer(t, e)
            /\ UNCHANGED tasksEvents
  PROVE  IInv'
<1> USE OsalAssumption DEF OsalAssumption, IInv, TypeOK
<1>1. /\ UNCHANGED <<msgVars, expired, pc, walk, elapsed, idx, events>>
      /\ calls' \in 0 .. MaxCalls
  BY DEF Calls, KernelTypes, kernelVars
<1>2. /\ tasksEvents' \in [Tasks -> SUBSET Events]
      /\ \A u \in Tasks : tasksEvents[u] \subseteq tasksEvents'[u]
  BY DEF SetEvent, KernelTypes, Events
<1>3. KernelTypes'  BY <1>1, <1>2 DEF KernelTypes
<1>4. MessageTypes'  BY <1>1, MessagesKept
<1>5. pc' \in {"receive", "message"} => SysEventMsg \in events'  BY <1>1 DEF Signalled
<1>6. Signalled'  BY <1>1, <1>2, <1>5, EventsAdded DEF msgVars
<1>7. TimerTypes' /\ OneTimerPerEvent'
  <2>1. CASE UNCHANGED timers
    <3>1. walk' \in 0 .. Len(timers) /\ elapsed' \in 0 .. MaxElapsed
      BY <1>1 DEF TimerTypes
    <3> QED  BY <1>1, <2>1, <3>1, TimersKept DEF timerVars
  <2>2. CASE \/ \E n \in Timeouts, reload \in BOOLEAN : AddTimer(t, e, n, reload)
             \/ StopTimer(t, e)
    <3>1. /\ timers' \in Seq(TimerRecords) /\ Len(timers') + Len(expired) <= MaxTimers
          /\ Len(timers) <= Len(timers') /\ OneTimerPerEvent'
      BY <2>2, TimerCalls
    <3>2. TimerTypes'
      <4>1. walk' \in 0 .. Len(timers')  BY <1>1, <3>1 DEF TimerTypes
      <4> QED  BY <1>1, <3>1, <4>1 DEF TimerTypes
    <3> QED  BY <3>1, <3>2
  <2> QED  BY <2>1, <2>2
<1> QED  BY <1>3, <1>4, <1>6, <1>7

(* What a handler calls. *)
LEMMA TaskCallsStep ==
  ASSUME IInv, TaskCalls PROVE IInv'
<1>1. Handling /\ sent = NoTask /\ Calls  BY DEF TaskCalls
<1>2. CASE \E m \in Msgs, t \in Tasks : SendMessage(m, t)
  BY <1>1, <1>2, SendStep
<1>3. CASE \E t \in Tasks, e \in AppEvents :
             \/ SetEvent(t, e) /\ UNCHANGED <<msgVars, timerVars, kernelVars>>
             \/ /\ \/ \E n \in Timeouts : AddTimer(t, e, n, <<t, e>> \in Reloaded)
                   \/ StopTimer(t, e)
                /\ UNCHANGED <<tasksEvents, msgVars, expired, kernelVars>>
  <2>1. PICK t \in Tasks, e \in AppEvents :
             \/ SetEvent(t, e) /\ UNCHANGED <<msgVars, timerVars, kernelVars>>
             \/ /\ \/ \E n \in Timeouts : AddTimer(t, e, n, <<t, e>> \in Reloaded)
                   \/ StopTimer(t, e)
                /\ UNCHANGED <<tasksEvents, msgVars, expired, kernelVars>>
    BY <1>3
  <2>2. UNCHANGED <<msgVars, expired, kernelVars>>  BY <2>1 DEF timerVars
  <2>3. (<<t, e>> \in Reloaded) \in BOOLEAN  OBVIOUS
  <2>4. \/ SetEvent(t, e) /\ UNCHANGED timers
        \/ /\ \/ \E n \in Timeouts, reload \in BOOLEAN : AddTimer(t, e, n, reload)
              \/ StopTimer(t, e)
           /\ UNCHANGED tasksEvents
    BY <2>1, <2>3, Zenon DEF timerVars
  <2> QED  BY <1>1, <2>2, <2>4, ServiceStep, Zenon
<1> QED  BY <1>2, <1>3 DEF TaskCalls

(* What an interrupt calls. *)
LEMMA InterruptStep ==
  ASSUME IInv, Interrupt PROVE IInv'
<1>1. PICK t \in Tasks, e \in AppEvents :
         \/ SetEvent(t, e) /\ UNCHANGED timers
         \/ \E n \in Timeouts : AddTimer(t, e, n, FALSE) /\ UNCHANGED tasksEvents
  BY DEF Interrupt
<1>2. Calls /\ UNCHANGED <<msgVars, expired, kernelVars>>  BY DEF Interrupt
<1>3. \/ SetEvent(t, e) /\ UNCHANGED timers
      \/ /\ \/ \E n \in Timeouts, reload \in BOOLEAN : AddTimer(t, e, n, reload)
            \/ StopTimer(t, e)
         /\ UNCHANGED tasksEvents
  BY <1>1, Zenon
<1> QED  BY <1>2, <1>3, ServiceStep, Zenon

(* The invariant is inductive. *)
LEMMA NextIInv == IInv /\ [Next]_vars => IInv'
<1> SUFFICES ASSUME IInv, [Next]_vars PROVE IInv'  OBVIOUS
<1>1. CASE TimePasses \/ NoTimePassed \/ WalkEnds  BY <1>1, UpdateStep
<1>2. CASE WalkTimer  BY <1>2, WalkTimerStep
<1>3. CASE Expire  BY <1>3, ExpireStep
<1>4. CASE NextTask \/ TaskFound \/ TaskReturns  BY <1>4, LoopStep
<1>5. CASE CallTask  BY <1>5, CallTaskStep
<1>6. CASE ReceiveMessage  BY <1>6, ReceiveStep
<1>7. CASE NoMessage  BY <1>7, NoMessageStep
<1>8. CASE MessageDone \/ \E e \in AppEvents : EventDone(e)  BY <1>8, DoneStep
<1>9. CASE SignalMessage  BY <1>9, SignalStep
<1>10. CASE TaskCalls  BY <1>10, TaskCallsStep
<1>11. CASE Interrupt  BY <1>11, InterruptStep
<1>12. CASE UNCHANGED vars
  <2> USE DEF IInv, TypeOK
  <2>1. UNCHANGED <<msgVars, timerVars>> /\ UNCHANGED <<walk, elapsed, pc>>
        /\ UNCHANGED <<tasksEvents, idx, events, calls>>
    BY <1>12 DEF vars, msgVars, timerVars
  <2>2. KernelTypes'  BY <2>1 DEF KernelTypes
  <2>3. MessageTypes'  BY <2>1, MessagesKept
  <2>4. walk' \in 0 .. Len(timers) /\ elapsed' \in 0 .. MaxElapsed  BY <2>1 DEF TimerTypes
  <2>5. TimerTypes' /\ OneTimerPerEvent'  BY <2>1, <2>4, TimersKept
  <2>6. Signalled'  BY <2>1 DEF Signalled, ToSet, msgVars
  <2> QED  BY <2>2, <2>3, <2>5, <2>6
<1> QED  BY <1>1, <1>2, <1>3, <1>4, <1>5, <1>6, <1>7, <1>8, <1>9, <1>10, <1>11, <1>12
         DEF Next, Walk, Loop, Handler

(* It holds in every state. *)
LEMMA SpecIInv == Spec => []IInv
BY InitIInv, NextIInv, PTL DEF Spec

(* The queue holds the messages that have a destination, each once, no task holds one of
   them, and the timers fit into the heap, for any number of tasks, events, messages and
   timers. *)
THEOREM KernelTypeCorrect == Spec => []TypeOK
<1>1. IInv => TypeOK  BY DEF IInv
<1> QED  BY <1>1, SpecIInv, PTL

(* osal_msg_send, osal_msg_receive and osal_run_system together never leave a message
   whose task will not be called for it. *)
THEOREM NoMessageUnseen == Spec => []MessageSignalled
<1>1. IInv => MessageSignalled
  <2> SUFFICES ASSUME IInv, NEW m \in ToSet(queue)
               PROVE  \/ SysEventMsg \in Pending[dest[m]]
                      \/ dest[m] = Active /\ SysEventMsg \in Given
    BY DEF MessageSignalled
  <2>1. dest[m] \in Tasks  BY DEF IInv, TypeOK, MessageTypes
  <2>2. SysEventMsg \in tasksEvents[dest[m]] \/ sent = dest[m] => SysEventMsg \in Pending[dest[m]]
    BY <2>1 DEF Pending
  <2>3. pc = "receive" => Active = idx /\ Active # NoTask /\ Given = events
    BY DEF Active, Given, IInv, TypeOK, KernelTypes, Tasks, NoTask
  <2> QED  BY <2>2, <2>3 DEF IInv, Signalled
<1> QED  BY <1>1, SpecIInv, PTL

(* osalAddTimer never makes a second timer for an event, whatever interrupts do between
   the critical sections of osalTimerUpdate. *)
THEOREM TimersUnique == Spec => []OneTimerPerEvent
<1>1. IInv => OneTimerPerEvent  BY DEF IInv
<1> QED  BY <1>1, SpecIInv, PTL

--------------------------------------------------------------------------------
(* The messages of a task, in the order of the queue. *)

(* Induction up to a bound, with a set for the property. *)
LEMMA UpTo ==
  ASSUME NEW n \in Nat, NEW S, 0 \in S, \A i \in Nat : i < n /\ i \in S => i + 1 \in S
  PROVE  \A i \in 0 .. n : i \in S
<1> DEFINE T == (0 .. n) \ S
<1>1. SUFFICES ASSUME T # {} PROVE FALSE
  OBVIOUS
<1>2. T \subseteq Nat
  OBVIOUS
<1>3. \E i \in T : \A j \in T : ~ (<<j, i>> \in OpToRel(<, Nat))
  BY <1>1, <1>2, NatLessThanWellFounded, WFMin
<1>4. \A i, j \in Nat : <<j, i>> \in OpToRel(<, Nat) <=> j < i
  BY DEF OpToRel
<1>5. PICK x \in T : \A j \in T : ~ (j < x)
  BY <1>2, <1>3, <1>4, Zenon
<1>6. x # 0 /\ x - 1 \in Nat /\ x - 1 < n /\ x \notin S /\ (x - 1) + 1 = x
  OBVIOUS
<1>7. x - 1 \in S
  BY <1>5, <1>6
<1> QED BY <1>6, <1>7

(* What the recursive function in Mail is, up to a place in the sequence. *)
Mails(S, s, to, t, n) ==
    {f \in [0 .. n -> Seq(S)] :
        /\ f[0] = << >>
        /\ \A i \in 1 .. n : f[i] = IF to[s[i]] = t THEN Append(f[i - 1], s[i]) ELSE f[i - 1]}

(* It goes on to the next place. *)
LEMMA MailsExtended ==
  ASSUME NEW S, NEW s \in Seq(S), NEW to, NEW t, NEW n \in Nat, n < Len(s),
         NEW f \in Mails(S, s, to, t, n)
  PROVE  \E g : g \in Mails(S, s, to, t, n + 1)
<1> DEFINE last == IF to[s[n + 1]] = t THEN Append(f[n], s[n + 1]) ELSE f[n]
           g == [i \in 0 .. n + 1 |-> IF i <= n THEN f[i] ELSE last]
<1>1. /\ f \in [0 .. n -> Seq(S)] /\ f[0] = << >>
      /\ \A i \in 1 .. n : f[i] = IF to[s[i]] = t THEN Append(f[i - 1], s[i]) ELSE f[i - 1]
  BY DEF Mails
<1>2. s[n + 1] \in S /\ f[n] \in Seq(S)
  BY <1>1
<1>3. last \in Seq(S)
  BY <1>2, AppendProperties
<1>4. \A i \in 1 .. n : g[i] = f[i] /\ g[i - 1] = f[i - 1]
  OBVIOUS
<1>5. g[n + 1] = last /\ g[(n + 1) - 1] = f[n] /\ g[0] = f[0]
  OBVIOUS
<1> HIDE DEF last
<1>6. g \in [0 .. n + 1 -> Seq(S)]
  BY <1>1, <1>3
<1> HIDE DEF g
<1>7. \A i \in 1 .. n + 1 : i \in 1 .. n \/ i = n + 1
  OBVIOUS
<1>8. ASSUME NEW i \in 1 .. n + 1
      PROVE  g[i] = IF to[s[i]] = t THEN Append(g[i - 1], s[i]) ELSE g[i - 1]
  <2>1. CASE i \in 1 .. n
    BY <1>1, <1>4, <2>1
  <2>2. CASE i = n + 1
    BY <1>5, <2>2 DEF last
  <2> QED BY <1>7, <2>1, <2>2
<1> QED BY <1>1, <1>5, <1>6, <1>8 DEF Mails

(* Mail is the last value of such a function. *)
LEMMA MailIs ==
  ASSUME NEW S, NEW s \in Seq(S), NEW to, NEW t
  PROVE  \E f \in Mails(S, s, to, t, Len(s)) : Mail(s, to, t) = f[Len(s)]
<1> DEFINE Def(h) == [i \in 0 .. Len(s) |-> IF i = 0 THEN << >>
                        ELSE IF to[s[i]] = t THEN Append(h[i - 1], s[i]) ELSE h[i - 1]]
           c == CHOOSE h : h = Def(h)
<1>0. Len(s) \in Nat
  OBVIOUS
<1>1. PICK f : f \in Mails(S, s, to, t, Len(s))
  <2> DEFINE R == {n \in 0 .. Len(s) : Mails(S, s, to, t, n) # {}}
  <2>1. [i \in 0 .. 0 |-> << >>] \in Mails(S, s, to, t, 0)
    BY DEF Mails
  <2>2. 0 \in R
    BY <2>1, <1>0
  <2>3. ASSUME NEW n \in Nat, n < Len(s), n \in R PROVE n + 1 \in R
    <3>1. PICK g : g \in Mails(S, s, to, t, n)
      BY <2>3
    <3> QED BY <2>3, <3>1, <1>0, MailsExtended
  <2>4. \A n \in 0 .. Len(s) : n \in R
    <3> HIDE DEF R
    <3> QED BY <1>0, <2>2, <2>3, UpTo
  <2> QED BY <1>0, <2>4
<1>2. /\ f \in [0 .. Len(s) -> Seq(S)] /\ f[0] = << >>
      /\ \A i \in 1 .. Len(s) :
            f[i] = IF to[s[i]] = t THEN Append(f[i - 1], s[i]) ELSE f[i - 1]
  BY <1>1 DEF Mails
<1>3. f = Def(f)
  <2>1. \A i \in 0 .. Len(s) : i = 0 \/ i \in 1 .. Len(s)
    BY <1>0
  <2> QED BY <1>2, <2>1
<1>4. c = Def(c)
  BY <1>3
<1>5. \A i \in 0 .. Len(s) :
         c[i] = IF i = 0 THEN << >>
                ELSE IF to[s[i]] = t THEN Append(c[i - 1], s[i]) ELSE c[i - 1]
  BY <1>4
<1>6. \A i \in 0 .. Len(s) : c[i] = f[i]
  <2> DEFINE R == {n \in 0 .. Len(s) : c[n] = f[n]}
  <2> HIDE DEF c
  <2>1. 0 \in R
    BY <1>0, <1>2, <1>5
  <2>2. ASSUME NEW n \in Nat, n < Len(s), n \in R PROVE n + 1 \in R
    <3>1. n + 1 \in 1 .. Len(s) /\ n + 1 \in 0 .. Len(s) /\ n + 1 # 0 /\ (n + 1) - 1 = n
      BY <2>2, <1>0
    <3>2. c[n] = f[n]
      BY <2>2
    <3>3. c[n + 1] = f[n + 1]
      BY <3>1, <3>2, <1>2, <1>5
    <3> QED BY <3>1, <3>3
  <2>3. \A n \in 0 .. Len(s) : n \in R
    <3> HIDE DEF R
    <3> QED BY <1>0, <2>1, <2>2, UpTo
  <2> QED BY <2>3
<1>7. Mail(s, to, t) = c[Len(s)]
  BY DEF Mail
<1>8. Len(s) \in 0 .. Len(s)
  BY <1>0
<1> HIDE DEF c
<1> QED BY <1>1, <1>6, <1>7, <1>8

(* What such a function says of one place and the next. *)
LEMMA MailsStep ==
  ASSUME NEW S, NEW s \in Seq(S), NEW to, NEW t, NEW f \in Mails(S, s, to, t, Len(s))
  PROVE  /\ f[0] = << >>
         /\ \A i \in 0 .. Len(s) : f[i] \in Seq(S)
         /\ \A i \in Nat : i < Len(s) =>
               /\ s[i + 1] \in S /\ f[i] \in Seq(S)
               /\ to[s[i + 1]] = t => f[i + 1] = Append(f[i], s[i + 1])
               /\ to[s[i + 1]] # t => f[i + 1] = f[i]
<1>1. /\ f \in [0 .. Len(s) -> Seq(S)] /\ f[0] = << >>
      /\ \A i \in 1 .. Len(s) :
            f[i] = IF to[s[i]] = t THEN Append(f[i - 1], s[i]) ELSE f[i - 1]
  BY DEF Mails
<1>2. ASSUME NEW i \in Nat, i < Len(s)
      PROVE  /\ s[i + 1] \in S /\ f[i] \in Seq(S)
             /\ to[s[i + 1]] = t => f[i + 1] = Append(f[i], s[i + 1])
             /\ to[s[i + 1]] # t => f[i + 1] = f[i]
  <2>1. i + 1 \in 1 .. Len(s) /\ (i + 1) - 1 = i /\ i \in 0 .. Len(s)
    BY <1>2
  <2>2. f[i + 1] = IF to[s[i + 1]] = t THEN Append(f[(i + 1) - 1], s[i + 1]) ELSE f[(i + 1) - 1]
    BY <2>1, <1>1, Zenon
  <2>3. s[i + 1] \in S /\ f[i] \in Seq(S)
    BY <2>1, <1>1
  <2> QED BY <2>1, <2>2, <2>3
<1> QED BY <1>1, <1>2

(* An empty queue holds no mail. *)
LEMMA MailEmpty ==
  ASSUME NEW to, NEW t
  PROVE  Mail(<< >>, to, t) = << >>
<1>1. << >> \in Seq({}) /\ Len(<< >>) = 0
  OBVIOUS
<1>2. PICK f \in Mails({}, << >>, to, t, 0) : Mail(<< >>, to, t) = f[0]
  BY <1>1, MailIs
<1> QED BY <1>2 DEF Mails

(* A message that is added is added to the mail of the task it goes to. *)
LEMMA MailAppend ==
  ASSUME NEW S, NEW s \in Seq(S), NEW m \in S, NEW to, NEW t
  PROVE  Mail(Append(s, m), to, t) =
            IF to[m] = t THEN Append(Mail(s, to, t), m) ELSE Mail(s, to, t)
<1> DEFINE r == Append(s, m)
<1>1. /\ r \in Seq(S) /\ Len(r) = Len(s) + 1 /\ \A i \in 1 .. Len(s) : r[i] = s[i]
      /\ r[Len(s) + 1] = m /\ Len(s) \in Nat
  BY AppendProperties
<1> HIDE DEF r
<1>2. PICK f \in Mails(S, s, to, t, Len(s)) : Mail(s, to, t) = f[Len(s)]
  BY MailIs
<1>3. PICK g \in Mails(S, r, to, t, Len(r)) : Mail(r, to, t) = g[Len(r)]
  BY <1>1, MailIs
<1>9. \A i \in Nat : i < Len(r) =>
         /\ to[r[i + 1]] = t => g[i + 1] = Append(g[i], r[i + 1])
         /\ to[r[i + 1]] # t => g[i + 1] = g[i]
  <2>1. r \in Seq(S) /\ g \in Mails(S, r, to, t, Len(r))
    BY <1>1, <1>3
  <2> QED BY <2>1, MailsStep, SMTT(20)
<1> DEFINE R == {i \in 0 .. Len(s) : g[i] = f[i]}
<1>4. 0 \in R
  BY <1>1, <1>2, <1>3, MailsStep
<1>5. ASSUME NEW i \in Nat, i < Len(s), i \in R PROVE i + 1 \in R
  <2>1. i + 1 \in 1 .. Len(s) /\ i + 1 \in 0 .. Len(s) /\ i < Len(r)
    BY <1>5, <1>1
  <2>2. r[i + 1] = s[i + 1] /\ g[i] = f[i]
    BY <2>1, <1>1, <1>5
  <2>3. /\ to[s[i + 1]] = t => f[i + 1] = Append(f[i], s[i + 1])
        /\ to[s[i + 1]] # t => f[i + 1] = f[i]
    BY <1>5, MailsStep
  <2>4. /\ to[r[i + 1]] = t => g[i + 1] = Append(g[i], r[i + 1])
        /\ to[r[i + 1]] # t => g[i + 1] = g[i]
    BY <2>1, <1>9
  <2> QED BY <2>1, <2>2, <2>3, <2>4
<1>6. \A i \in 0 .. Len(s) : i \in R
  <2> HIDE DEF R
  <2> QED BY <1>1, <1>4, <1>5, UpTo
<1>7. g[Len(s)] = f[Len(s)]
  BY <1>1, <1>6
<1>8. /\ to[r[Len(s) + 1]] = t => g[Len(s) + 1] = Append(g[Len(s)], r[Len(s) + 1])
      /\ to[r[Len(s) + 1]] # t => g[Len(s) + 1] = g[Len(s)]
  <2>1. Len(s) < Len(r)
    BY <1>1
  <2> QED BY <1>1, <2>1, MailsStep
<1> QED BY <1>1, <1>2, <1>3, <1>7, <1>8 DEF r

(* Only the destinations of the messages in the queue matter. *)
LEMMA MailSame ==
  ASSUME NEW S, NEW s \in Seq(S), NEW to, NEW now, NEW t,
         \A i \in 1 .. Len(s) : (to[s[i]] = t) <=> (now[s[i]] = t)
  PROVE  Mail(s, to, t) = Mail(s, now, t)
<1>0. Len(s) \in Nat
  OBVIOUS
<1>2. PICK f \in Mails(S, s, to, t, Len(s)) : Mail(s, to, t) = f[Len(s)]
  BY MailIs
<1>3. PICK g \in Mails(S, s, now, t, Len(s)) : Mail(s, now, t) = g[Len(s)]
  BY MailIs
<1> DEFINE R == {i \in 0 .. Len(s) : f[i] = g[i]}
<1>4. 0 \in R
  BY <1>0, MailsStep
<1>5. ASSUME NEW i \in Nat, i < Len(s), i \in R PROVE i + 1 \in R
  <2>1. i + 1 \in 1 .. Len(s) /\ i + 1 \in 0 .. Len(s)
    BY <1>5, <1>0
  <2>3. /\ to[s[i + 1]] = t => f[i + 1] = Append(f[i], s[i + 1])
        /\ to[s[i + 1]] # t => f[i + 1] = f[i]
    BY <1>5, MailsStep
  <2>4. /\ now[s[i + 1]] = t => g[i + 1] = Append(g[i], s[i + 1])
        /\ now[s[i + 1]] # t => g[i + 1] = g[i]
    BY <1>5, MailsStep
  <2> QED BY <2>1, <2>3, <2>4, <1>5
<1>6. \A i \in 0 .. Len(s) : i \in R
  <2> HIDE DEF R
  <2> QED BY <1>0, <1>4, <1>5, UpTo
<1> QED BY <1>0, <1>2, <1>3, <1>6

(* A message that is taken out of the queue is the first of its task's, and leaves the
   mail of the others as it was. *)
LEMMA MailRemoved ==
  ASSUME NEW S, NEW s \in Seq(S), NEW k \in 1 .. Len(s), NEW to, NEW t,
         to[s[k]] = t => \A i \in 1 .. Len(s) : to[s[i]] = t => k <= i
  PROVE  /\ to[s[k]] = t => Mail(s, to, t) = <<s[k]>> \o Mail(RemoveAt(s, k), to, t)
         /\ to[s[k]] # t => Mail(s, to, t) = Mail(RemoveAt(s, k), to, t)
         /\ Mail(RemoveAt(s, k), to, t) \in Seq(S)
<1> DEFINE r == RemoveAt(s, k)
<1>1. /\ r \in Seq(S) /\ Len(r) = Len(s) - 1 /\ Len(s) \in Nat /\ Len(r) \in Nat
      /\ \A j \in 1 .. Len(s) - 1 : r[j] = IF j < k THEN s[j] ELSE s[j + 1]
  BY RemoveAtFacts, LenProperties
<1> HIDE DEF r
<1>2. PICK f \in Mails(S, s, to, t, Len(s)) : Mail(s, to, t) = f[Len(s)]
  BY MailIs
<1>3. PICK g \in Mails(S, r, to, t, Len(r)) : Mail(r, to, t) = g[Len(r)]
  BY <1>1, MailIs
<1>13. /\ g[0] = << >>
       /\ \A i \in 0 .. Len(r) : g[i] \in Seq(S)
       /\ \A i \in Nat : i < Len(r) =>
             /\ r[i + 1] \in S /\ g[i] \in Seq(S)
             /\ to[r[i + 1]] = t => g[i + 1] = Append(g[i], r[i + 1])
             /\ to[r[i + 1]] # t => g[i + 1] = g[i]
  <2>1. r \in Seq(S) /\ g \in Mails(S, r, to, t, Len(r))
    BY <1>1, <1>3
  <2> QED BY <2>1, MailsStep, SMTT(20)
<1>4. s[k] \in S
  OBVIOUS
<1>5. \A i \in 0 .. k - 1 : f[i] = g[i] /\ (to[s[k]] = t => g[i] = << >>)
  <2> DEFINE R == {i \in 0 .. k - 1 : f[i] = g[i] /\ (to[s[k]] = t => g[i] = << >>)}
  <2>1. 0 \in R
    BY <1>1, MailsStep
  <2>2. ASSUME NEW i \in Nat, i < k - 1, i \in R PROVE i + 1 \in R
    <3>1. i + 1 \in 1 .. Len(s) /\ i + 1 \in 0 .. k - 1 /\ i < Len(s) /\ i < Len(r)
          /\ i + 1 \in 1 .. Len(s) - 1 /\ i + 1 < k
      BY <2>2, <1>1
    <3>2. r[i + 1] = s[i + 1] /\ f[i] = g[i] /\ (to[s[k]] = t => g[i] = << >>)
      BY <2>2, <3>1, <1>1
    <3>3. /\ to[s[i + 1]] = t => f[i + 1] = Append(f[i], s[i + 1])
          /\ to[s[i + 1]] # t => f[i + 1] = f[i]
      BY <3>1, MailsStep
    <3>4. /\ to[r[i + 1]] = t => g[i + 1] = Append(g[i], r[i + 1])
          /\ to[r[i + 1]] # t => g[i + 1] = g[i]
      BY <3>1, <1>13
    <3>5. to[s[k]] = t => to[s[i + 1]] # t
      <4>1. ~ (k <= i + 1)
        BY <3>1
      <4> QED BY <3>1, <4>1
    <3> QED BY <3>1, <3>2, <3>3, <3>4, <3>5
  <2>3. k - 1 \in Nat
    OBVIOUS
  <2>4. \A i \in 0 .. k - 1 : i \in R
    <3> HIDE DEF R
    <3> QED BY <2>1, <2>2, <2>3, UpTo
  <2> QED BY <2>4
<1> DEFINE Ahead(i) == /\ to[s[k]] = t => f[k + i] = <<s[k]>> \o g[(k - 1) + i]
                       /\ to[s[k]] # t => f[k + i] = g[(k - 1) + i]
           R == {i \in 0 .. Len(s) - k : Ahead(i)}
<1>6. 0 \in R
  <2>1. 0 \in 0 .. Len(s) - k /\ k + 0 = k /\ (k - 1) + 0 = k - 1 /\ k - 1 \in 0 .. k - 1
        /\ k - 1 \in Nat /\ k - 1 < Len(s) /\ (k - 1) + 1 = k
    BY <1>1
  <2>2. /\ to[s[k]] = t => f[k] = Append(f[k - 1], s[k])
        /\ to[s[k]] # t => f[k] = f[k - 1]
    BY <2>1, MailsStep
  <2>3. f[k - 1] = g[k - 1] /\ (to[s[k]] = t => g[k - 1] = << >>)
    BY <2>1, <1>5
  <2>4. Append(<< >>, s[k]) = <<s[k]>> \o << >>
    BY <1>4
  <2> QED BY <2>1, <2>2, <2>3, <2>4
<1>7. ASSUME NEW i \in Nat, i < Len(s) - k, i \in R PROVE i + 1 \in R
  <2>1. PICK a \in Nat : a = k + i
    OBVIOUS
  <2>2. PICK b \in Nat : b = (k - 1) + i
    OBVIOUS
  <2>3. /\ i + 1 \in 0 .. Len(s) - k /\ k + (i + 1) = a + 1 /\ (k - 1) + (i + 1) = b + 1
        /\ b + 1 = a /\ a < Len(s) /\ b < Len(r) /\ b + 1 \in 1 .. Len(s) - 1 /\ ~ (b + 1 < k)
    BY <2>1, <2>2, <1>1, <1>7
  <2>4. r[b + 1] = s[a + 1]
    BY <2>3, <1>1
  <2>5. /\ to[s[a + 1]] = t => f[a + 1] = Append(f[a], s[a + 1])
        /\ to[s[a + 1]] # t => f[a + 1] = f[a]
        /\ s[a + 1] \in S
    BY <2>3, MailsStep
  <2>6. /\ to[r[b + 1]] = t => g[b + 1] = Append(g[b], r[b + 1])
        /\ to[r[b + 1]] # t => g[b + 1] = g[b]
        /\ g[b] \in Seq(S)
    BY <2>3, <1>13
  <2>7. /\ to[s[k]] = t => f[a] = <<s[k]>> \o g[b]
        /\ to[s[k]] # t => f[a] = g[b]
    BY <1>7, <2>1, <2>2
  <2>8. ASSUME NEW x \in S, NEW y \in S, NEW q \in Seq(S)
        PROVE  Append(<<x>> \o q, y) = <<x>> \o Append(q, y)
    <3>1. <<x>> \in Seq(S) /\ <<y>> \in Seq(S) /\ <<x>> \o q \in Seq(S)
      BY ConcatProperties
    <3>2. (<<x>> \o q) \o <<y>> = <<x>> \o (q \o <<y>>)
      BY <3>1, ConcatAssociative
    <3>3. Append(<<x>> \o q, y) = (<<x>> \o q) \o <<y>> /\ Append(q, y) = q \o <<y>>
      BY <3>1, AppendIsConcat
    <3> QED BY <3>2, <3>3
  <2>9. Append(<<s[k]>> \o g[b], s[a + 1]) = <<s[k]>> \o Append(g[b], s[a + 1])
    BY <1>4, <2>5, <2>6, <2>8
  <2>10. /\ to[s[k]] = t => f[a + 1] = <<s[k]>> \o g[b + 1]
         /\ to[s[k]] # t => f[a + 1] = g[b + 1]
    BY <2>4, <2>5, <2>6, <2>7, <2>9
  <2>11. Ahead(i + 1)
    BY <2>3, <2>10
  <2> HIDE DEF Ahead
  <2> QED BY <2>3, <2>11
<1>8. Len(s) - k \in Nat /\ k + (Len(s) - k) = Len(s) /\ (k - 1) + (Len(s) - k) = Len(r)
      /\ Len(s) - k \in 0 .. Len(s) - k
  BY <1>1
<1>9. \A i \in 0 .. Len(s) - k : i \in R
  <2> HIDE DEF R
  <2> QED BY <1>6, <1>7, <1>8, UpTo
<1>10. Ahead(Len(s) - k)
  BY <1>8, <1>9
<1>11. /\ to[s[k]] = t => f[Len(s)] = <<s[k]>> \o g[Len(r)]
       /\ to[s[k]] # t => f[Len(s)] = g[Len(r)]
  BY <1>8, <1>10
<1>12. g[Len(r)] \in Seq(S)
  <2>1. Len(r) \in 0 .. Len(r)
    BY <1>1
  <2> QED BY <2>1, <1>13
<1> QED BY <1>2, <1>3, <1>11, <1>12 DEF r

--------------------------------------------------------------------------------
(* The kernel implements TaskServices. *)

(* A message waits for each task that has SYS_EVENT_MSG set or is about to have it; only a
   handler sends; the task that is called has an event; and a handler that was given
   SYS_EVENT_MSG has served it when it returns. *)
Settled ==
    /\ \A t \in Tasks : SysEventMsg \in tasksEvents[t] \/ t = sent
                           => \E m \in ToSet(queue) : dest[m] = t
    /\ sent # NoTask => pc \in {"message", "handle"}
    /\ pc = "call" => tasksEvents[idx] # {}
    /\ pc \in {"handle", "return"} => SysEventMsg \notin events

(* A step that leaves the messages alone and sets no SYS_EVENT_MSG. *)
LEMMA SettledKept ==
  ASSUME Settled, UNCHANGED <<queue, dest, sent>>,
         \A t \in Tasks : SysEventMsg \in tasksEvents'[t] => SysEventMsg \in tasksEvents[t],
         sent # NoTask => pc' \in {"message", "handle"},
         pc' = "call" => tasksEvents'[idx'] # {},
         pc' \in {"handle", "return"} => SysEventMsg \notin events'
  PROVE  Settled'
BY DEF Settled

(* The events that the update of the timers sets are not SYS_EVENT_MSG. *)
LEMMA WalkSets ==
  ASSUME IInv, WalkTimer \/ Expire
  PROVE  \A t \in Tasks : SysEventMsg \in tasksEvents'[t] => SysEventMsg \in tasksEvents[t]
<1>0. SysEventMsg \notin AppEvents /\ SysEventMsg # Deleted
  BY OsalAssumption DEF OsalAssumption, SysEventMsg, Deleted
<1>1. tasksEvents \in [Tasks -> SUBSET Events]
  BY DEF IInv, TypeOK, KernelTypes
<1>2. ASSUME NEW x \in TimerRecords,
             SetEvent(x.task, x.event) \/ tasksEvents' = tasksEvents
      PROVE  \A t \in Tasks : SysEventMsg \in tasksEvents'[t] => SysEventMsg \in tasksEvents[t]
  <2>1. x.event # SysEventMsg
    BY <1>0 DEF TimerRecords
  <2> QED BY <1>1, <1>2, <2>1 DEF SetEvent
<1>3. CASE WalkTimer
  <2>1. timers \in Seq(TimerRecords) /\ walk \in 1 .. Len(timers)
    BY <1>3 DEF WalkTimer, IInv, TypeOK, TimerTypes
  <2>2. PICK x \in TimerRecords : x = Timer
    BY <2>1 DEF Timer
  <2>3. SetEvent(x.task, x.event) \/ tasksEvents' = tasksEvents
    BY <1>3, <2>2 DEF WalkTimer
  <2> QED BY <1>2, <2>2, <2>3, Zenon
<1>4. CASE Expire
  <2>1. expired \in Seq(TimerRecords) /\ Len(expired) = 1
    BY <1>4 DEF Expire, IInv, TypeOK, TimerTypes
  <2>4. Head(expired) \in TimerRecords
    <3>1. \A s \in Seq(TimerRecords) : Len(s) = 1 => Head(s) \in TimerRecords
      OBVIOUS
    <3> QED BY <2>1, <3>1
  <2>2. PICK x \in TimerRecords : x = Head(expired)
    BY <2>4
  <2>3. SetEvent(x.task, x.event) \/ tasksEvents' = tasksEvents
    BY <1>4, <2>2 DEF Expire
  <2> QED BY <1>2, <2>2, <2>3, Zenon
<1> QED BY <1>3, <1>4

(* Every step leaves it so. *)
LEMMA SettledStep == IInv /\ Settled /\ [Next]_vars => Settled'
<1> SUFFICES ASSUME IInv, Settled, [Next]_vars PROVE Settled'
  OBVIOUS
<1>0. /\ idx \in Tasks /\ tasksEvents \in [Tasks -> SUBSET Events] /\ NoTask \notin Tasks
      /\ sent \in Tasks \cup {NoTask} /\ SysEventMsg \notin AppEvents
      /\ dest \in [Msgs -> Tasks \cup {NoTask}] /\ ToSet(queue) \subseteq Msgs
  BY OsalAssumption DEF IInv, TypeOK, KernelTypes, MessageTypes, Tasks, NoTask,
     OsalAssumption, SysEventMsg
<1>1. CASE TimePasses \/ NoTimePassed \/ WalkEnds \/ NextTask \/ TaskFound
  <2>1. /\ UNCHANGED <<tasksEvents, queue, dest, sent>>
        /\ pc \in {"update", "walk", "scan"} /\ pc' \in {"walk", "scan", "update", "call"}
    BY <1>1 DEF TimePasses, TimeUpdate, NoTimePassed, WalkEnds, NextTask, TaskFound, msgVars
  <2>2. pc' = "call" => tasksEvents'[idx'] # {}
    BY <1>1 DEF TimePasses, TimeUpdate, NoTimePassed, WalkEnds, NextTask, TaskFound
  <2>3. sent = NoTask
    BY <2>1 DEF Settled
  <2> QED BY <2>1, <2>2, <2>3, SettledKept
<1>2. CASE WalkTimer \/ Expire
  <2>1. /\ UNCHANGED <<queue, dest, sent>>
        /\ pc \in {"walk", "expire"} /\ pc' \in {"walk", "expire"}
    BY <1>2 DEF WalkTimer, Expire, msgVars
  <2>2. sent = NoTask
    BY <2>1 DEF Settled
  <2> QED BY <1>2, <2>1, <2>2, WalkSets, SettledKept
<1>3. CASE CallTask
  <2>1. /\ UNCHANGED <<queue, dest, sent, idx>> /\ pc = "call"
        /\ events' = tasksEvents[idx] /\ tasksEvents' = [tasksEvents EXCEPT ![idx] = {}]
        /\ pc' = IF SysEventMsg \in tasksEvents[idx] THEN "receive" ELSE "handle"
    BY <1>3 DEF CallTask, msgVars
  <2>2. sent = NoTask
    BY <2>1 DEF Settled
  <2> QED BY <1>0, <2>1, <2>2, SettledKept
<1>4. CASE TaskReturns
  <2>1. /\ UNCHANGED <<queue, dest, sent>> /\ pc = "return" /\ pc' = "update"
        /\ tasksEvents' = [tasksEvents EXCEPT ![idx] = @ \cup events]
    BY <1>4 DEF TaskReturns, msgVars
  <2>2. sent = NoTask /\ SysEventMsg \notin events
    BY <2>1 DEF Settled
  <2> QED BY <1>0, <2>1, <2>2, SettledKept
<1>5. CASE ReceiveMessage
  <2> DEFINE i == First(idx)
             m == queue[i]
  <2>1. /\ pc = "receive" /\ pc' = "message" /\ UNCHANGED <<sent, idx>> /\ For(idx) # {}
        /\ queue' = RemoveAt(queue, i) /\ dest' = [dest EXCEPT ![m] = NoTask]
        /\ tasksEvents' = [tasksEvents EXCEPT
                             ![idx] = IF \E j, k \in For(idx) : j # k THEN @ \cup {SysEventMsg}
                                                                      ELSE @ \ {SysEventMsg}]
    BY <1>5 DEF ReceiveMessage
  <2>2. sent = NoTask
    BY <2>1 DEF Settled
  <2>3. queue \in Seq(Msgs) /\ IsInjective(queue) /\ i \in For(idx)
    BY <1>0, <2>1, FirstMessage DEF IInv, TypeOK, MessageTypes
  <2> HIDE DEF i
  <2>4. i \in 1 .. Len(queue) /\ dest[m] = idx /\ DOMAIN queue = 1 .. Len(queue)
        /\ m \in Msgs
    BY <2>3 DEF For
  <2>5. ToSet(queue') = ToSet(queue) \ {m}
    BY <2>1, <2>3, <2>4, RemoveAtSet, Zenon
  <2>6. \A n \in ToSet(queue) \ {m} : dest'[n] = dest[n]
    BY <1>0, <2>1
  <2>7. ASSUME NEW t \in Tasks, SysEventMsg \in tasksEvents'[t]
        PROVE  \E n \in ToSet(queue') : dest'[n] = t
    <3>1. CASE t = idx
      <4>1. \E j, k \in For(idx) : j # k
        BY <1>0, <2>1, <2>7, <3>1
      <4>2. PICK j \in For(idx) : j # i
        BY <4>1
      <4>3. queue[j] \in ToSet(queue) /\ queue[j] # m /\ dest[queue[j]] = idx
        BY <2>3, <2>4, <4>2 DEF For, ToSet, IsInjective
      <4> QED BY <2>5, <2>6, <3>1, <4>3
    <3>2. CASE t # idx
      <4>1. SysEventMsg \in tasksEvents[t]
        BY <1>0, <2>1, <2>7, <3>2
      <4>2. PICK n \in ToSet(queue) : dest[n] = t
        BY <4>1 DEF Settled
      <4> QED BY <2>4, <2>5, <2>6, <3>2, <4>2
    <3> QED BY <3>1, <3>2
  <2> QED BY <1>0, <2>1, <2>2, <2>7 DEF Settled
<1>6. CASE NoMessage \/ MessageDone \/ \E e \in AppEvents : EventDone(e)
  <2>1. /\ UNCHANGED <<queue, dest, sent, idx>> /\ sent = NoTask
        /\ pc \in {"receive", "message", "handle"} /\ pc' \in {"receive", "return"}
        /\ \A t \in Tasks : tasksEvents'[t] \subseteq tasksEvents[t]
    BY <1>0, <1>6 DEF NoMessage, MessageDone, EventDone, msgVars, Settled
  <2>2. pc' = "return" => SysEventMsg \notin events'
    BY <1>6 DEF NoMessage, MessageDone, EventDone, Settled
  <2> QED BY <2>1, <2>2, SettledKept
<1>7. CASE SignalMessage
  <2>1. /\ UNCHANGED <<queue, dest, pc, idx, events>> /\ sent \in Tasks /\ sent' = NoTask
        /\ tasksEvents' = [tasksEvents EXCEPT ![sent] = @ \cup {SysEventMsg}]
    BY <1>0, <1>7 DEF SignalMessage, SetEvent, kernelVars
  <2> QED BY <1>0, <2>1 DEF Settled
<1>8. CASE TaskCalls \/ Interrupt
  <2>1. UNCHANGED <<pc, idx, events>>
    BY <1>8 DEF TaskCalls, Interrupt, SendMessage, kernelVars
  <2>2. CASE \E m \in Msgs, t \in Tasks : Handling /\ SendMessage(m, t)
    <3>1. PICK m \in Msgs, t \in Tasks : Handling /\ SendMessage(m, t)
      BY <2>2
    <3>2. /\ tasksEvents' = tasksEvents /\ sent = NoTask /\ sent' = t
          /\ dest' = [dest EXCEPT ![m] = t] /\ queue' = Append(queue, m)
          /\ pc \in {"message", "handle"} /\ m \notin ToSet(queue)
      BY <3>1 DEF SendMessage, Handling, Unused, IInv, TypeOK, MessageTypes
    <3>3. ToSet(queue') = ToSet(queue) \cup {m}
      BY <3>2, AppendSet DEF IInv, TypeOK, MessageTypes
    <3>4. dest'[m] = t /\ \A n \in ToSet(queue) : dest'[n] = dest[n]
      BY <1>0, <3>2
    <3> QED BY <2>1, <3>2, <3>3, <3>4 DEF Settled
  <2>3. CASE /\ UNCHANGED msgVars
             /\ \/ \E t \in Tasks, e \in AppEvents : SetEvent(t, e)
                \/ tasksEvents' = tasksEvents
    <3>1. /\ \A t \in Tasks : SysEventMsg \in tasksEvents'[t] => SysEventMsg \in tasksEvents[t]
          /\ \A t \in Tasks : tasksEvents[t] \subseteq tasksEvents'[t]
      BY <1>0, <2>3 DEF SetEvent
    <3> QED BY <1>0, <2>1, <2>3, <3>1, SettledKept DEF Settled, msgVars
  <2> QED BY <1>8, <2>2, <2>3 DEF TaskCalls, Interrupt, Handling
<1>9. CASE UNCHANGED vars
  BY <1>9 DEF Settled, vars
<1> QED BY <1>1, <1>2, <1>3, <1>4, <1>5, <1>6, <1>7, <1>8, <1>9 DEF Next, Walk, Loop, Handler

(* A task has no mail when no message in the queue goes to it. *)
LEMMA MailNone ==
  ASSUME NEW S, NEW s \in Seq(S), NEW to, NEW t
  PROVE  Mail(s, to, t) = << >> <=> \A i \in 1 .. Len(s) : to[s[i]] # t
<1>0. Len(s) \in Nat
  OBVIOUS
<1>1. PICK f \in Mails(S, s, to, t, Len(s)) : Mail(s, to, t) = f[Len(s)]
  BY MailIs
<1> DEFINE Bare(n) == f[n] = << >> <=> \A i \in 1 .. n : to[s[i]] # t
           R == {n \in 0 .. Len(s) : Bare(n)}
<1>2. 0 \in R
  BY <1>0, MailsStep
<1>3. ASSUME NEW n \in Nat, n < Len(s), n \in R PROVE n + 1 \in R
  <2>1. n + 1 \in 0 .. Len(s) /\ \A i \in 1 .. n + 1 : i \in 1 .. n \/ i = n + 1
    BY <1>0, <1>3
  <2>2. 1 .. n \subseteq 1 .. n + 1 /\ n + 1 \in 1 .. n + 1
    OBVIOUS
  <2>3. /\ s[n + 1] \in S /\ f[n] \in Seq(S)
        /\ to[s[n + 1]] = t => f[n + 1] = Append(f[n], s[n + 1])
        /\ to[s[n + 1]] # t => f[n + 1] = f[n]
    BY <1>3, MailsStep
  <2>4. CASE to[s[n + 1]] = t
    <3>1. f[n + 1] # << >>
      BY <2>3, <2>4
    <3> QED BY <2>1, <2>2, <2>4, <3>1
  <2>5. CASE to[s[n + 1]] # t
    <3>1. f[n] = << >> <=> \A i \in 1 .. n : to[s[i]] # t
      BY <1>3
    <3>2. (\A i \in 1 .. n + 1 : to[s[i]] # t) <=> \A i \in 1 .. n : to[s[i]] # t
      BY <2>1, <2>2, <2>5
    <3>3. Bare(n + 1)
      BY <2>3, <2>5, <3>1, <3>2
    <3> QED BY <2>1, <3>3
  <2> QED BY <2>4, <2>5
<1>4. \A n \in 0 .. Len(s) : n \in R
  <2> HIDE DEF R
  <2> QED BY <1>0, <1>2, <1>3, UpTo
<1>5. Bare(Len(s))
  BY <1>0, <1>4
<1> QED BY <1>1, <1>5

(* Which timers a list of records stands for. *)
Has(list, t, e) == \E i \in DOMAIN list : list[i].task = t /\ list[i].event = e
Again(list, t, e) ==
    \E i \in DOMAIN list : list[i].task = t /\ list[i].event = e /\ list[i].reload # 0

(* Armed and Periodic, before and after a step. *)
LEMMA TimersNow ==
  /\ Armed \subseteq Tasks \X AppEvents /\ Armed' \subseteq Tasks \X AppEvents
  /\ Periodic \subseteq Tasks \X AppEvents /\ Periodic' \subseteq Tasks \X AppEvents
  /\ \A t \in Tasks, e \in AppEvents :
        /\ <<t, e>> \in Armed <=> Has(timers, t, e)
        /\ <<t, e>> \in Armed' <=> Has(timers', t, e)
        /\ <<t, e>> \in Periodic <=> Again(timers, t, e)
        /\ <<t, e>> \in Periodic' <=> Again(timers', t, e)
BY DEF Armed, Periodic, Has, Again, Live

(* Sets of timers with the same members are the same. *)
LEMMA PairsEqual ==
  ASSUME NEW A, NEW B, A \subseteq Tasks \X AppEvents, B \subseteq Tasks \X AppEvents,
         \A t \in Tasks, e \in AppEvents : <<t, e>> \in A <=> <<t, e>> \in B
  PROVE  A = B
<1>1. \A te \in Tasks \X AppEvents : \E t \in Tasks, e \in AppEvents : te = <<t, e>>
  OBVIOUS
<1> QED BY <1>1

(* Lists that stand for the same timers. *)
LEMMA TimersSame ==
  ASSUME \A t \in Tasks, e \in AppEvents : /\ Has(timers', t, e) <=> Has(timers, t, e)
                                           /\ Again(timers', t, e) <=> Again(timers, t, e)
  PROVE  Armed' = Armed /\ Periodic' = Periodic
BY TimersNow, PairsEqual

(* A list that a timer has been taken out of, or made no longer one of its task's. *)
LEMMA TimerGone ==
  ASSUME NEW u \in Tasks, NEW a \in AppEvents,
         \A t \in Tasks, e \in AppEvents :
            /\ Has(timers', t, e) <=> Has(timers, t, e) /\ ~ (t = u /\ e = a)
            /\ Again(timers', t, e) <=> Again(timers, t, e) /\ ~ (t = u /\ e = a)
  PROVE  Armed' = Armed \ {<<u, a>>} /\ Periodic' = Periodic \ {<<u, a>>}
<1>1. \A t \in Tasks, e \in AppEvents : <<t, e>> = <<u, a>> <=> t = u /\ e = a
  OBVIOUS
<1>2. ASSUME NEW A, A = Armed \ {<<u, a>>} PROVE Armed' = A
  <2>1. A \subseteq Tasks \X AppEvents
        /\ \A t \in Tasks, e \in AppEvents : <<t, e>> \in A <=> <<t, e>> \in Armed'
    BY <1>1, <1>2, TimersNow
  <2> QED BY <2>1, TimersNow, PairsEqual
<1>3. ASSUME NEW A, A = Periodic \ {<<u, a>>} PROVE Periodic' = A
  <2>1. A \subseteq Tasks \X AppEvents
        /\ \A t \in Tasks, e \in AppEvents : <<t, e>> \in A <=> <<t, e>> \in Periodic'
    BY <1>1, <1>3, TimersNow
  <2> QED BY <2>1, TimersNow, PairsEqual
<1> QED BY <1>2, <1>3

(* Pending, before and after a step, in terms of what it is made of. *)
LEMMA PendingNow ==
  /\ Pending = [t \in Tasks |-> tasksEvents[t] \cup Expiring(t)
                                   \cup (IF pc = "return" /\ t = idx THEN events ELSE {})
                                   \cup (IF t = sent THEN {SysEventMsg} ELSE {})]
  /\ Pending' = [t \in Tasks |-> tasksEvents'[t] \cup Expiring(t)'
                                    \cup (IF pc' = "return" /\ t = idx' THEN events' ELSE {})
                                    \cup (IF t = sent' THEN {SysEventMsg} ELSE {})]
BY DEF Pending

(* A record that has still to set its event is there only in osalTimerUpdate. *)
LEMMA ExpiringNow ==
  /\ expired = << >> => \A t \in Tasks : Expiring(t) = {}
  /\ expired' = << >> => \A t \in Tasks : Expiring(t)' = {}
  /\ expired' = expired => \A t \in Tasks : Expiring(t)' = Expiring(t)
BY DEF Expiring

(* What the invariants say of the state. *)
LEMMA StateFacts ==
  ASSUME IInv, Settled
  PROVE  /\ idx \in Tasks /\ tasksEvents \in [Tasks -> SUBSET Events] /\ events \subseteq Events
         /\ NoTask \notin Tasks /\ sent \in Tasks \cup {NoTask}
         /\ Events = AppEvents \cup {SysEventMsg} /\ AppEvents = Events \ {SysEventMsg}
         /\ Deleted \notin AppEvents
         /\ pc # "expire" => expired = << >>
         /\ pc \notin {"message", "handle"} => sent = NoTask
         /\ timers \in Seq(TimerRecords) /\ Len(timers) \in Nat
         /\ DOMAIN timers = 1 .. Len(timers)
<1>1. /\ idx \in Tasks /\ tasksEvents \in [Tasks -> SUBSET Events] /\ events \subseteq Events
      /\ sent \in Tasks \cup {NoTask} /\ timers \in Seq(TimerRecords)
      /\ pc \notin {"message", "handle"} => sent = NoTask
  BY DEF IInv, TypeOK, KernelTypes, MessageTypes, TimerTypes, Settled
<1>2. SysEventMsg \notin AppEvents /\ Deleted \notin AppEvents /\ NoTask \notin Tasks
  BY OsalAssumption DEF OsalAssumption, SysEventMsg, Deleted, Tasks, NoTask
<1>3. pc # "expire" => expired = << >>
  <2>1. expired \in Seq(TimerRecords) /\ (pc # "expire" => Len(expired) = 0)
    BY DEF IInv, TypeOK, TimerTypes
  <2> QED BY <2>1, EmptySeq
<1> QED BY <1>1, <1>2, <1>3 DEF Events

(* What a step leaves alone stays as it is. *)
LEMMA ServicesKept ==
  /\ UNCHANGED timers => Armed' = Armed /\ Periodic' = Periodic
  /\ UNCHANGED <<queue, dest>> => Box' = Box
  /\ UNCHANGED <<tasksEvents, idx, events, sent, expired, pc>> => Pending' = Pending
  /\ UNCHANGED <<pc, idx, events>> => Active' = Active /\ Given' = Given
BY DEF Armed, Periodic, Live, Box, Pending, Expiring, Active, Given

(* Between handlers no task is active. *)
LEMMA Idle ==
  /\ pc \notin {"receive", "message", "handle"} => Active = NoTask /\ Given = {}
  /\ pc' \notin {"receive", "message", "handle"} => Active' = NoTask /\ Given' = {}
  /\ pc \in {"receive", "message", "handle"} /\ idx # NoTask => Active = idx /\ Given = events
  /\ pc' \in {"receive", "message", "handle"} /\ idx' # NoTask
        => Active' = idx' /\ Given' = events'
BY DEF Active, Given

(* What TaskServices speaks of. *)
Stutters == UNCHANGED <<Pending, Active, Given, Armed, Periodic, Box, calls>>

(* The update, the search for a task and its return move nothing that the tasks rely on. *)
LEMMA LoopStutters ==
  ASSUME IInv, Settled,
         TimePasses \/ NoTimePassed \/ WalkEnds \/ NextTask \/ TaskFound \/ TaskReturns
  PROVE  Stutters
<1>1. /\ UNCHANGED <<timers, expired, queue, dest, sent, calls>>
      /\ pc \in {"update", "walk", "scan", "return"}
      /\ pc' \in {"update", "walk", "scan", "call"}
  BY DEF TimePasses, TimeUpdate, NoTimePassed, WalkEnds, NextTask, TaskFound,
         TaskReturns, msgVars, timerVars
<1>2. UNCHANGED <<Active, Given, Armed, Periodic, Box, calls>>
  BY <1>1, Idle, ServicesKept
<1>3. sent = NoTask /\ sent' = NoTask /\ NoTask \notin Tasks
      /\ \A t \in Tasks : Expiring(t) = {} /\ Expiring(t)' = {}
  BY <1>1, StateFacts, ExpiringNow
<1>4. \A t \in Tasks : tasksEvents'[t] = tasksEvents[t] \cup (IF pc = "return" /\ t = idx
                                                             THEN events ELSE {})
  <2>1. CASE TaskReturns
    BY <2>1, StateFacts DEF TaskReturns
  <2>2. CASE TimePasses \/ NoTimePassed \/ WalkEnds \/ NextTask \/ TaskFound
    <3>1. tasksEvents' = tasksEvents /\ pc # "return"
      BY <2>2 DEF TimePasses, TimeUpdate, NoTimePassed, WalkEnds, NextTask, TaskFound
    <3> QED BY <3>1
  <2> QED BY <2>1, <2>2
<1>5. Pending' = Pending
  BY <1>1, <1>3, <1>4, PendingNow
<1> QED BY <1>2, <1>5 DEF Stutters

(* A task is called with all its events. *)
LEMMA CallActivates ==
  ASSUME IInv, Settled, CallTask
  PROVE  Promised!ServicesNext
<1>1. /\ UNCHANGED <<timers, expired, queue, dest, sent, idx, calls>>
      /\ pc = "call" /\ pc' \in {"receive", "handle"}
      /\ events' = tasksEvents[idx] /\ tasksEvents' = [tasksEvents EXCEPT ![idx] = {}]
  BY DEF CallTask, msgVars, timerVars
<1>2. UNCHANGED <<Armed, Periodic, Box, calls>>
  BY <1>1, ServicesKept
<1>3. sent = NoTask /\ sent' = NoTask /\ NoTask \notin Tasks /\ idx \in Tasks
      /\ \A t \in Tasks : Expiring(t) = {} /\ Expiring(t)' = {}
  BY <1>1, StateFacts, ExpiringNow
<1>4. Pending = tasksEvents /\ Pending' = tasksEvents'
  <2>1. \A t \in Tasks : t # sent /\ t # sent'
    BY <1>3
  <2>2. \A t \in Tasks : Pending[t] = tasksEvents[t] /\ Pending'[t] = tasksEvents'[t]
    BY <1>1, <1>3, <2>1, PendingNow
  <2>3. tasksEvents = [t \in Tasks |-> tasksEvents[t]]
        /\ tasksEvents' = [t \in Tasks |-> tasksEvents'[t]]
    BY <1>1, StateFacts
  <2> QED BY <2>2, <2>3, PendingNow
<1>5. Active = NoTask /\ Active' = idx /\ Given' = tasksEvents[idx]
  BY <1>1, <1>3, Idle
<1>6. tasksEvents[idx] # {}
  BY <1>1 DEF Settled
<1>7. Promised!Activate(idx)
  BY <1>1, <1>2, <1>4, <1>5, <1>6 DEF Promised!Activate
<1> QED BY <1>3, <1>7 DEF Promised!ServicesNext

(* One event more for one task. *)
LEMMA PendingMore ==
  ASSUME NEW t \in Tasks, NEW e,
         \A u \in Tasks : Pending'[u] = IF u = t THEN Pending[u] \cup {e} ELSE Pending[u]
  PROVE  Pending' = [Pending EXCEPT ![t] = @ \cup {e}]
BY PendingNow

(* An event that is set becomes pending. *)
LEMMA RaisesEvent ==
  ASSUME IInv, Settled, NEW t \in Tasks, NEW e \in Events, SetEvent(t, e),
         UNCHANGED <<idx, events, pc, sent, expired>>
  PROVE  Pending' = [Pending EXCEPT ![t] = @ \cup {e}]
<1>1. tasksEvents \in [Tasks -> SUBSET Events]
      /\ \A u \in Tasks : Expiring(u)' = Expiring(u)
  BY StateFacts, ExpiringNow
<1>2. \A u \in Tasks : tasksEvents'[u] = IF u = t THEN tasksEvents[u] \cup {e} ELSE tasksEvents[u]
  BY <1>1 DEF SetEvent
<1>3. \A u \in Tasks : Pending'[u] = IF u = t THEN Pending[u] \cup {e} ELSE Pending[u]
  BY <1>1, <1>2, PendingNow
<1> QED BY <1>3, PendingMore

(* One element of a list is taken out: what was there is there still, or was that one. *)
LEMMA ListWithout ==
  ASSUME NEW S, NEW s \in Seq(S), NEW k \in 1 .. Len(s)
  PROVE  LET r == RemoveAt(s, k)
         IN  /\ \A i \in DOMAIN s : i # k => \E j \in DOMAIN r : r[j] = s[i]
             /\ \A j \in DOMAIN r : \E i \in DOMAIN s : i # k /\ r[j] = s[i]
<1> DEFINE r == RemoveAt(s, k)
<1>1. /\ RemoveAt(s, k) \in Seq(S) /\ Len(RemoveAt(s, k)) = Len(s) - 1
      /\ \A j \in 1 .. Len(s) - 1 : RemoveAt(s, k)[j] = IF j < k THEN s[j] ELSE s[j + 1]
  BY RemoveAtFacts, Zenon
<1>2. /\ DOMAIN s = 1 .. Len(s) /\ DOMAIN r = 1 .. Len(s) - 1 /\ Len(s) \in Nat
      /\ \A j \in 1 .. Len(s) - 1 : r[j] = IF j < k THEN s[j] ELSE s[j + 1]
  BY <1>1
<1> HIDE DEF r
<1>3. ASSUME NEW i \in DOMAIN s, i # k PROVE \E j \in DOMAIN r : r[j] = s[i]
  <2>1. CASE i < k
    <3>1. i \in 1 .. Len(s) - 1
      BY <1>2, <2>1
    <3> QED BY <1>2, <2>1, <3>1
  <2>2. CASE i > k
    <3>1. i - 1 \in 1 .. Len(s) - 1 /\ ~ (i - 1 < k) /\ (i - 1) + 1 = i
      BY <1>2, <2>2
    <3>2. r[i - 1] = s[i]
      BY <1>2, <3>1
    <3> QED BY <1>2, <3>1, <3>2
  <2> QED BY <1>2, <1>3, <2>1, <2>2
<1>4. ASSUME NEW j \in DOMAIN r PROVE \E i \in DOMAIN s : i # k /\ r[j] = s[i]
  <2>1. j \in 1 .. Len(s) /\ j + 1 \in 1 .. Len(s)
    BY <1>2
  <2>2. CASE j < k
    BY <1>2, <2>1, <2>2
  <2>3. CASE ~ (j < k)
    <3>1. j + 1 # k
      BY <1>2, <2>3
    <3> QED BY <1>2, <2>1, <2>3, <3>1
  <2> QED BY <2>2, <2>3
<1> QED BY <1>3, <1>4 DEF r

(* A timer that is looked at fires when its time has come, and stays armed when it reloads
   itself; one that was stopped does not fire. *)
LEMMA WalkServes ==
  ASSUME IInv, Settled, WalkTimer
  PROVE  Promised!ServicesNext \/ Stutters
<1>0. /\ timers \in Seq(TimerRecords) /\ walk \in 1 .. Len(timers) /\ Len(timers) \in Nat
      /\ DOMAIN timers = 1 .. Len(timers) /\ pc = "walk" /\ pc' \in {"walk", "expire"}
      /\ expired = << >> /\ sent = NoTask /\ NoTask \notin Tasks /\ Deleted \notin AppEvents
      /\ AppEvents = Events \ {SysEventMsg}
      /\ UNCHANGED <<queue, dest, held, sent, idx, events, calls>>
  BY StateFacts DEF WalkTimer, IInv, TypeOK, TimerTypes, msgVars
<1>1. PICK x \in TimerRecords : x = Timer
  BY <1>0 DEF Timer
<1>2. /\ x.task \in Tasks /\ x.event \in AppEvents \cup {Deleted} /\ x.timeout \in Nat
      /\ x.reload \in Nat /\ x = timers[walk]
  BY <1>1 DEF TimerRecords, Timer
<1>3. UNCHANGED <<Active, Given, Box, calls>>
  <2>1. pc \notin {"receive", "message", "handle"} /\ pc' \notin {"receive", "message", "handle"}
    BY <1>0
  <2>2. Active' = Active /\ Given' = Given
    BY <2>1, Idle
  <2> QED BY <1>0, <2>2, ServicesKept
<1>4. CASE TakenOut
  <2> DEFINE y == [x EXCEPT !.timeout = Left]
  <2>1. /\ timers' = RemoveAt(timers, walk) /\ expired' = <<y>>
    BY <1>1, <1>4 DEF WalkTimer
  <2>2. y.task = x.task /\ y.event = x.event /\ y.timeout = Left
    BY <1>1 DEF TimerRecords
  <2> HIDE DEF y
  <2>3. x.event # Deleted => Left = 0 /\ x.reload = 0 /\ ~ Reloads
    BY <1>1, <1>4 DEF TakenOut, Reloads
  <2>4. tasksEvents' = tasksEvents
    BY <1>1, <1>4, <2>3 DEF WalkTimer, Reloads
  <2>5. \A t \in Tasks : Expiring(t) = {}
    BY <1>0, ExpiringNow
  <2>6. DOMAIN expired' = {1} /\ expired'[1] = y
    BY <2>1
  <2>7. \A t \in Tasks : Expiring(t)' = {e \in AppEvents : Left = 0 /\ x.task = t /\ x.event = e}
    BY <2>2, <2>6 DEF Expiring
  <2>8. /\ \A i \in DOMAIN timers : i # walk => \E j \in DOMAIN timers' : timers'[j] = timers[i]
        /\ \A j \in DOMAIN timers' : \E i \in DOMAIN timers : i # walk /\ timers'[j] = timers[i]
    <3>1. LET r == RemoveAt(timers, walk)
          IN  /\ \A i \in DOMAIN timers : i # walk => \E j \in DOMAIN r : r[j] = timers[i]
              /\ \A j \in DOMAIN r : \E i \in DOMAIN timers : i # walk /\ r[j] = timers[i]
      BY <1>0, ListWithout, Zenon
    <3> QED BY <2>1, <3>1
  <2>9. CASE x.event = Deleted
    <3>1. Armed' = Armed /\ Periodic' = Periodic
      <4>1. \A t \in Tasks, e \in AppEvents : timers[walk].event # e
        BY <1>0, <1>2, <2>9
      <4>2. \A t \in Tasks, e \in AppEvents :
               /\ Has(timers', t, e) <=> Has(timers, t, e)
               /\ Again(timers', t, e) <=> Again(timers, t, e)
        BY <2>8, <4>1 DEF Has, Again
      <4> QED BY <4>2, TimersSame
    <3>2. Pending' = Pending
      <4>1. \A t \in Tasks : Expiring(t)' = {}
        BY <1>0, <2>7, <2>9
      <4> QED BY <1>0, <2>4, <2>5, <4>1, PendingNow
    <3> QED BY <1>3, <3>1, <3>2 DEF Stutters
  <2>10. CASE x.event # Deleted
    <3>1. x.event \in AppEvents /\ x.event \in Events \ {SysEventMsg}
      BY <1>0, <1>2, <2>10
    <3>2. \A i \in DOMAIN timers : timers[i].task = x.task /\ timers[i].event = x.event => i = walk
      BY <1>0, <1>2, <3>1, OneTimer DEF IInv
    <3>3. Has(timers, x.task, x.event) /\ ~ Again(timers, x.task, x.event)
      BY <1>0, <1>2, <2>3, <2>10, <3>2 DEF Has, Again
    <3>4. ASSUME NEW t \in Tasks, NEW e \in AppEvents
          PROVE  /\ Has(timers', t, e) <=> Has(timers, t, e) /\ ~ (t = x.task /\ e = x.event)
                 /\ Again(timers', t, e) <=> Again(timers, t, e) /\ ~ (t = x.task /\ e = x.event)
      <4>1. Has(timers', t, e) => Has(timers, t, e) /\ ~ (t = x.task /\ e = x.event)
        BY <2>8, <3>2 DEF Has
      <4>2. Again(timers', t, e) => Again(timers, t, e) /\ ~ (t = x.task /\ e = x.event)
        BY <2>8, <3>2 DEF Again
      <4>3. Has(timers, t, e) /\ ~ (t = x.task /\ e = x.event) => Has(timers', t, e)
        BY <1>2, <2>8 DEF Has
      <4>4. Again(timers, t, e) /\ ~ (t = x.task /\ e = x.event) => Again(timers', t, e)
        BY <1>2, <2>8 DEF Again
      <4> QED BY <4>1, <4>2, <4>3, <4>4
    <3>5. Armed' = Armed \ {<<x.task, x.event>>} /\ Periodic' = Periodic \ {<<x.task, x.event>>}
      BY <1>2, <3>1, <3>4, TimerGone
    <3>6. <<x.task, x.event>> \in Armed /\ <<x.task, x.event>> \notin Periodic
      BY <1>2, <3>1, <3>3, TimersNow
    <3>7. Pending' = [Pending EXCEPT ![x.task] = @ \cup {x.event}]
      <4>1. \A t \in Tasks : Expiring(t)' = IF t = x.task THEN {x.event} ELSE {}
        BY <1>2, <2>3, <2>7, <2>10, <3>1
      <4>2. \A t \in Tasks : t # sent /\ t # sent'
        BY <1>0
      <4>3. \A t \in Tasks : Pending[t] = tasksEvents[t]
                             /\ Pending'[t] = tasksEvents[t] \cup Expiring(t)'
        BY <1>0, <2>4, <2>5, <4>2, PendingNow
      <4>4. \A t \in Tasks : Pending'[t] = IF t = x.task THEN Pending[t] \cup {x.event} ELSE Pending[t]
        BY <4>1, <4>3
      <4> QED BY <1>2, <4>4, PendingMore
    <3>8. Promised!Fire(x.task, x.event)
      BY <1>3, <3>5, <3>6, <3>7 DEF Promised!Fire
    <3> QED BY <1>2, <3>1, <3>8 DEF Promised!ServicesNext
  <2> QED BY <2>9, <2>10
<1>5. CASE ~ TakenOut
  <2>1. PICK n : n = IF Reloads THEN Timer.reload ELSE Left
    OBVIOUS
  <2>2. timers' = [timers EXCEPT ![walk].timeout = n] /\ expired' = expired /\ pc' = pc
    BY <1>5, <2>1 DEF WalkTimer
  <2>3. /\ DOMAIN timers' = DOMAIN timers
        /\ \A i \in DOMAIN timers : /\ timers'[i].task = timers[i].task
                                    /\ timers'[i].event = timers[i].event
                                    /\ timers'[i].reload = timers[i].reload
    <3>1. \A i \in DOMAIN timers : timers[i] \in TimerRecords
      BY <1>0
    <3>2. \A i \in DOMAIN timers : timers'[i] = timers[i] \/ timers'[i] = [timers[i] EXCEPT !.timeout = n]
      BY <2>2
    <3>3. DOMAIN timers' = DOMAIN timers
      BY <2>2
    <3> QED BY <3>1, <3>2, <3>3 DEF TimerRecords
  <2>4. Armed' = Armed /\ Periodic' = Periodic
    <3>1. \A t \in Tasks, e \in AppEvents : /\ Has(timers', t, e) <=> Has(timers, t, e)
                                            /\ Again(timers', t, e) <=> Again(timers, t, e)
      BY <2>3 DEF Has, Again
    <3> QED BY <3>1, TimersSame
  <2>5. CASE Reloads
    <3>1. /\ x.event \in AppEvents /\ x.event \in Events /\ x.event \in Events \ {SysEventMsg}
          /\ x.reload # 0
      BY <1>0, <1>1, <1>2, <2>5 DEF Reloads
    <3>2. SetEvent(x.task, x.event)
      BY <1>1, <2>5 DEF WalkTimer
    <3>3. Pending' = [Pending EXCEPT ![x.task] = @ \cup {x.event}]
      BY <1>0, <1>2, <2>2, <3>1, <3>2, RaisesEvent
    <3>4. <<x.task, x.event>> \in Armed /\ <<x.task, x.event>> \in Periodic
      <4>1. Has(timers, x.task, x.event) /\ Again(timers, x.task, x.event)
        BY <1>0, <1>2, <3>1 DEF Has, Again
      <4> QED BY <1>2, <3>1, <4>1, TimersNow
    <3>5. Promised!Fire(x.task, x.event)
      BY <1>3, <2>4, <3>3, <3>4 DEF Promised!Fire
    <3> QED BY <1>2, <3>1, <3>5 DEF Promised!ServicesNext
  <2>6. CASE ~ Reloads
    <3>1. tasksEvents' = tasksEvents
      BY <2>6 DEF WalkTimer
    <3>2. Pending' = Pending
      BY <1>0, <2>2, <3>1, ServicesKept
    <3> QED BY <1>3, <2>4, <3>2 DEF Stutters
  <2> QED BY <2>5, <2>6
<1> QED BY <1>4, <1>5

(* The event of a record that was taken out was pending all the time. *)
LEMMA ExpireServes ==
  ASSUME IInv, Settled, Expire
  PROVE  Stutters
<1>0. /\ NoTask \notin Tasks /\ sent = NoTask /\ Deleted \notin AppEvents
      /\ tasksEvents \in [Tasks -> SUBSET Events]
      /\ pc = "expire" /\ pc' = "walk" /\ expired' = << >>
      /\ UNCHANGED <<timers, queue, dest, sent, idx, events, calls>>
  BY StateFacts DEF Expire, msgVars
<1>1. PICK x \in TimerRecords : expired = <<x>>
  <2>1. expired \in Seq(TimerRecords) /\ Len(expired) = 1
    BY DEF Expire, IInv, TypeOK, TimerTypes
  <2>2. expired = <<expired[1]>> /\ expired[1] \in TimerRecords
    BY <2>1
  <2> QED BY <2>2
<1>2. /\ x.task \in Tasks /\ x.event \in AppEvents \cup {Deleted} /\ x = Head(expired)
      /\ DOMAIN expired = {1} /\ expired[1] = x
  BY <1>1 DEF TimerRecords
<1>3. \A t \in Tasks :
         /\ Expiring(t) = {e \in AppEvents : x.timeout = 0 /\ x.task = t /\ x.event = e}
         /\ Expiring(t)' = {}
  BY <1>0, <1>2, ExpiringNow DEF Expiring
<1>4. \A t \in Tasks : tasksEvents'[t] = tasksEvents[t] \cup Expiring(t)
  <2>1. CASE x.timeout = 0 /\ x.event # Deleted
    <3>1. tasksEvents' = [tasksEvents EXCEPT ![x.task] = @ \cup {x.event}]
      BY <1>2, <2>1 DEF Expire, SetEvent
    <3>2. \A t \in Tasks : Expiring(t) = IF t = x.task THEN {x.event} ELSE {}
      BY <1>2, <1>3, <2>1
    <3> QED BY <1>0, <3>1, <3>2
  <2>2. CASE ~ (x.timeout = 0 /\ x.event # Deleted)
    <3>1. tasksEvents' = tasksEvents
      BY <1>2, <2>2 DEF Expire
    <3>2. \A t \in Tasks : Expiring(t) = {}
      BY <1>0, <1>3, <2>2
    <3> QED BY <3>1, <3>2
  <2> QED BY <2>1, <2>2
<1>5. Pending' = Pending
  BY <1>0, <1>3, <1>4, PendingNow
<1> QED BY <1>0, <1>5, Idle, ServicesKept DEF Stutters

(* A task has mail when a message in the queue goes to it. *)
LEMMA BoxEmpty ==
  ASSUME IInv, NEW t \in Tasks
  PROVE  Box[t] = << >> <=> \A m \in ToSet(queue) : dest[m] # t
<1>1. queue \in Seq(Msgs) /\ DOMAIN queue = 1 .. Len(queue)
  BY DEF IInv, TypeOK, MessageTypes
<1>2. Box[t] = << >> <=> \A i \in 1 .. Len(queue) : dest[queue[i]] # t
  BY <1>1, MailNone DEF Box
<1>3. (\A i \in 1 .. Len(queue) : dest[queue[i]] # t) <=> \A m \in ToSet(queue) : dest[m] # t
  BY <1>1 DEF ToSet
<1> QED BY <1>2, <1>3

(* Box, before and after a step. *)
LEMMA BoxNow ==
  /\ Box = [t \in Tasks |-> Mail(queue, dest, t)]
  /\ Box' = [t \in Tasks |-> Mail(queue', dest', t)]
BY DEF Box

(* While a handler runs what is set for its task is pending, and what is about to be. *)
LEMMA PendingHandling ==
  ASSUME IInv, Settled
  PROVE  /\ pc \in {"receive", "message", "handle"} /\ sent = NoTask => Pending = tasksEvents
         /\ pc' \in {"receive", "message", "handle"} /\ sent' = NoTask /\ expired' = << >>
               /\ tasksEvents' \in [Tasks -> SUBSET Events]
            => Pending' = tasksEvents'
<1>1. NoTask \notin Tasks /\ tasksEvents \in [Tasks -> SUBSET Events]
  BY StateFacts
<1>2. ASSUME pc \in {"receive", "message", "handle"} /\ sent = NoTask
      PROVE  Pending = tasksEvents
  <2>1. \A t \in Tasks : Expiring(t) = {}
    BY <1>2, StateFacts, ExpiringNow
  <2>2. \A t \in Tasks : Pending[t] = tasksEvents[t]
    BY <1>1, <1>2, <2>1, PendingNow
  <2>3. tasksEvents = [t \in Tasks |-> tasksEvents[t]]
    BY <1>1
  <2>4. Pending = [t \in Tasks |-> Pending[t]]
    BY PendingNow
  <2> QED BY <2>2, <2>3, <2>4
<1>3. ASSUME pc' \in {"receive", "message", "handle"} /\ sent' = NoTask /\ expired' = << >>
               /\ tasksEvents' \in [Tasks -> SUBSET Events]
      PROVE  Pending' = tasksEvents'
  <2>1. \A t \in Tasks : Expiring(t)' = {}
    BY <1>3, ExpiringNow
  <2>2. \A t \in Tasks : Pending'[t] = tasksEvents'[t]
    BY <1>1, <1>3, <2>1, PendingNow
  <2>3. tasksEvents' = [t \in Tasks |-> tasksEvents'[t]]
    BY <1>3
  <2>4. Pending' = [t \in Tasks |-> Pending'[t]]
    BY PendingNow
  <2> QED BY <2>2, <2>3, <2>4
<1> QED BY <1>2, <1>3

(* osal_msg_receive takes the first of the task's messages, and leaves SYS_EVENT_MSG while
   there is another. *)
LEMMA ReceiveServes ==
  ASSUME IInv, Settled, ReceiveMessage
  PROVE  Promised!ServicesNext
<1> DEFINE i == First(idx)
           m == queue[i]
<1>0. IInv /\ Settled
  OBVIOUS
<1>1. /\ UNCHANGED <<timers, expired, idx, events, sent, calls>> /\ idx \in Tasks
      /\ For(idx) # {} /\ pc = "receive" /\ pc' = "message" /\ NoTask \notin Tasks
      /\ queue' = RemoveAt(queue, i) /\ dest' = [dest EXCEPT ![m] = NoTask]
      /\ tasksEvents' = [tasksEvents EXCEPT
                           ![idx] = IF \E j, k \in For(idx) : j # k THEN @ \cup {SysEventMsg}
                                                                    ELSE @ \ {SysEventMsg}]
      /\ SysEventMsg \in events /\ SysEventMsg \in Events
      /\ tasksEvents \in [Tasks -> SUBSET Events]
  BY StateFacts DEF ReceiveMessage, IInv, Signalled, timerVars
<1>2. UNCHANGED <<Armed, Periodic, calls>>
  BY <1>1, ServicesKept
<1>3. /\ Active = idx /\ Active' = idx /\ Given = events /\ Given' = events
  BY <1>1, Idle
<1>4. Pending = tasksEvents /\ Pending' = tasksEvents'
  <2>1. sent = NoTask /\ expired = << >>
    BY <1>1, StateFacts
  <2>2. tasksEvents' \in [Tasks -> SUBSET Events]
    BY <1>1
  <2> QED BY <1>1, <2>1, <2>2, PendingHandling
<1>5. i \in For(idx) /\ \A j \in For(idx) : i <= j
  BY <1>1, FirstMessage DEF IInv, TypeOK
<1> HIDE DEF i
<1>6. /\ queue \in Seq(Msgs) /\ i \in 1 .. Len(queue) /\ dest[m] = idx /\ m \in Msgs
      /\ \A j \in 1 .. Len(queue) : dest[queue[j]] = idx => i <= j
      /\ dest \in [Msgs -> Tasks \cup {NoTask}] /\ IsInjective(queue)
      /\ DOMAIN queue = 1 .. Len(queue)
  <2>1. /\ queue \in Seq(Msgs) /\ dest \in [Msgs -> Tasks \cup {NoTask}]
        /\ IsInjective(queue)
    BY DEF IInv, TypeOK, MessageTypes
  <2>2. DOMAIN queue = 1 .. Len(queue)
    BY <2>1
  <2> QED BY <1>5, <2>1, <2>2 DEF For
<1>7. queue' \in Seq(Msgs)
  BY <1>1, <1>6, RemoveAtFacts, Zenon
<1>14. ToSet(queue') = ToSet(queue) \ {m}
  <2>1. ToSet(RemoveAt(queue, i)) = ToSet(queue) \ {queue[i]}
    BY <1>6, RemoveAtSet, Zenon
  <2> QED BY <1>1, <2>1
<1>8. \A j \in 1 .. Len(queue') : queue'[j] \in Msgs /\ queue'[j] # m
  <2>1. \A j \in 1 .. Len(queue') : queue'[j] \in ToSet(queue')
    BY <1>7 DEF ToSet
  <2> QED BY <1>7, <1>14, <2>1
<1>9. \A t \in Tasks : Mail(queue', dest', t) = Mail(queue', dest, t)
  <2> TAKE t \in Tasks
  <2>1. ASSUME NEW j \in 1 .. Len(queue')
        PROVE  (dest'[queue'[j]] = t) <=> (dest[queue'[j]] = t)
    <3>1. queue'[j] \in Msgs /\ queue'[j] # m
      BY <1>8
    <3>2. \A x \in Msgs : x # m => dest'[x] = dest[x]
      BY <1>1, <1>6
    <3> QED BY <3>1, <3>2
  <2> QED BY <1>7, <2>1, MailSame
<1>10. ASSUME NEW t \in Tasks
      PROVE  /\ t = idx => Mail(queue, dest, t) = <<m>> \o Mail(queue', dest', t)
             /\ t # idx => Mail(queue, dest, t) = Mail(queue', dest', t)
             /\ Mail(queue', dest', t) \in Seq(Msgs)
  <2>1. dest[queue[i]] = t => \A j \in 1 .. Len(queue) : dest[queue[j]] = t => i <= j
    BY <1>6
  <2>2. /\ dest[queue[i]] = t => Mail(queue, dest, t) = <<queue[i]>> \o Mail(RemoveAt(queue, i), dest, t)
        /\ dest[queue[i]] # t => Mail(queue, dest, t) = Mail(RemoveAt(queue, i), dest, t)
        /\ Mail(RemoveAt(queue, i), dest, t) \in Seq(Msgs)
    BY <1>6, <2>1, MailRemoved
  <2>3. Mail(RemoveAt(queue, i), dest, t) = Mail(queue', dest', t)
    BY <1>1, <1>9
  <2> QED BY <1>6, <2>2, <2>3
<1>11. /\ Box[idx] = <<m>> \o Box'[idx] /\ Box'[idx] \in Seq(Msgs)
       /\ \A t \in Tasks : t # idx => Box'[t] = Box[t]
  BY <1>1, <1>10, BoxNow
<1>12. Box[idx] # << >> /\ Box'[idx] = Tail(Box[idx])
  <2>1. \A x \in Msgs, q \in Seq(Msgs) : <<x>> \o q # << >> /\ Tail(<<x>> \o q) = q
    OBVIOUS
  <2> QED BY <1>6, <1>11, <2>1
<1>13. Box' = [Box EXCEPT ![idx] = Tail(@)]
  BY <1>11, <1>12, BoxNow
<1>15. Tail(Box[idx]) = << >> <=> ~ \E j, k \in For(idx) : j # k
  <2>1. Tail(Box[idx]) = Mail(queue', dest, idx)
    BY <1>1, <1>9, <1>12, BoxNow
  <2>2. Mail(queue', dest, idx) = << >> <=> \A j \in 1 .. Len(queue') : dest[queue'[j]] # idx
    BY <1>7, MailNone
  <2>3. (\A j \in 1 .. Len(queue') : dest[queue'[j]] # idx)
           <=> \A n \in ToSet(queue) \ {m} : dest[n] # idx
    <3>1. ToSet(queue') = {queue'[j] : j \in 1 .. Len(queue')}
      BY <1>7 DEF ToSet
    <3> QED BY <1>14, <3>1
  <2>4. (\A n \in ToSet(queue) \ {m} : dest[n] # idx) <=> \A j \in For(idx) : j = i
    <3>1. ASSUME NEW j \in For(idx), j # i
          PROVE  queue[j] \in ToSet(queue) \ {m} /\ dest[queue[j]] = idx
      BY <1>6, <3>1 DEF For, ToSet, IsInjective
    <3>2. ASSUME NEW n \in ToSet(queue) \ {m}, dest[n] = idx
          PROVE  \E j \in For(idx) : j # i
      <4>1. PICK j \in 1 .. Len(queue) : queue[j] = n
        BY <1>6 DEF ToSet
      <4>2. j \in For(idx) /\ j # i
        BY <1>6, <3>2, <4>1 DEF For
      <4> QED BY <4>2
    <3> QED BY <3>1, <3>2
  <2>5. (\A j \in For(idx) : j = i) <=> ~ \E j, k \in For(idx) : j # k
    BY <1>5
  <2> QED BY <2>1, <2>2, <2>3, <2>4, <2>5
<1>16. Pending' = [Pending EXCEPT ![idx] = (@ \ {SysEventMsg}) \cup Promised!Signal(Tail(Box[idx]))]
  <2>1. CASE \E j, k \in For(idx) : j # k
    <3>1. Promised!Signal(Tail(Box[idx])) = {SysEventMsg}
      BY <1>15, <2>1 DEF Promised!Signal
    <3>2. tasksEvents' = [tasksEvents EXCEPT ![idx] = @ \cup {SysEventMsg}]
      BY <1>1, <2>1
    <3> QED BY <1>1, <1>4, <3>1, <3>2
  <2>2. CASE ~ \E j, k \in For(idx) : j # k
    <3>1. Promised!Signal(Tail(Box[idx])) = {}
      BY <1>15, <2>2 DEF Promised!Signal
    <3>2. tasksEvents' = [tasksEvents EXCEPT ![idx] = @ \ {SysEventMsg}]
      BY <1>1, <2>2
    <3> QED BY <1>1, <1>4, <3>1, <3>2
  <2> QED BY <2>1, <2>2
<1>17. Promised!Receive(idx)
  BY <1>1, <1>2, <1>3, <1>12, <1>13, <1>16 DEF Promised!Receive
<1> QED BY <1>1, <1>17 DEF Promised!ServicesNext

(* What is pending when a handler has returned: what was set for its task meanwhile, and
   what the handler has not served. *)
LEMMA PendingReturned ==
  ASSUME IInv, Settled, sent' = NoTask, pc' = "return", expired' = << >>, idx' = idx,
         pc \in {"receive", "message", "handle"}, sent = NoTask, NEW E,
         tasksEvents'[idx] \cup events' = E,
         \A t \in Tasks : t # idx => tasksEvents'[t] = tasksEvents[t]
  PROVE  Pending' = [Pending EXCEPT ![idx] = E]
<1>1. idx \in Tasks /\ NoTask \notin Tasks /\ Pending = tasksEvents
      /\ \A t \in Tasks : Expiring(t)' = {}
  BY StateFacts, PendingHandling, ExpiringNow
<1>2. \A t \in Tasks : Pending'[t] = IF t = idx THEN E ELSE Pending[t]
  <2> TAKE t \in Tasks
  <2>1. Pending'[t] = tasksEvents'[t] \cup (IF t = idx THEN events' ELSE {})
    BY <1>1, PendingNow
  <2> QED BY <1>1, <2>1
<1> QED BY <1>1, <1>2, PendingNow

(* A handler returns with its messages received, or with one of its events handled. *)
LEMMA DoneServes ==
  ASSUME IInv, Settled, NoMessage \/ MessageDone \/ \E e \in AppEvents : EventDone(e)
  PROVE  Promised!ServicesNext \/ Stutters
<1>1. /\ idx \in Tasks /\ tasksEvents \in [Tasks -> SUBSET Events]
      /\ NoTask \notin Tasks /\ AppEvents = Events \ {SysEventMsg}
      /\ sent = NoTask /\ expired = << >> /\ pc \in {"receive", "message", "handle"}
      /\ UNCHANGED <<timers, expired, queue, dest, sent, idx, calls>>
  BY StateFacts DEF NoMessage, MessageDone, EventDone, msgVars, timerVars
<1>2. UNCHANGED <<Armed, Periodic, Box, calls>>
  BY <1>1, ServicesKept
<1>3. Active = idx /\ Given = events /\ Pending = tasksEvents
  BY <1>1, Idle, PendingHandling
<1>4. pc' = "return" => Active' = NoTask /\ Given' = {}
  BY Idle
<1>5. CASE NoMessage
  <2>1. /\ tasksEvents' = [tasksEvents EXCEPT ![idx] = @ \ {SysEventMsg}]
        /\ events' = events \ {SysEventMsg} /\ SysEventMsg \in events
        /\ For(idx) = {} /\ pc' = "return"
    BY <1>5 DEF NoMessage, IInv, Signalled
  <2>2. Box[idx] = << >>
    <3>1. queue \in Seq(Msgs) /\ DOMAIN queue = 1 .. Len(queue)
      BY DEF IInv, TypeOK, MessageTypes
    <3>2. \A m \in ToSet(queue) : dest[m] # idx
      BY <2>1, <3>1 DEF For, ToSet
    <3> QED BY <1>1, <3>2, BoxEmpty
  <2>3. Promised!Signal(Box[idx]) = {}
    BY <2>2 DEF Promised!Signal
  <2> DEFINE E == ((Pending[idx] \cup Given) \ {SysEventMsg}) \cup Promised!Signal(Box[idx])
  <2>4. tasksEvents'[idx] \cup events' = E
    BY <1>1, <1>3, <2>1, <2>3
  <2>5. \A t \in Tasks : t # idx => tasksEvents'[t] = tasksEvents[t]
    BY <1>1, <2>1
  <2>6. Pending' = [Pending EXCEPT ![idx] = E]
    <3> HIDE DEF E
    <3> QED BY <1>1, <2>1, <2>4, <2>5, PendingReturned
  <2>7. Promised!EndMail(idx)
    BY <1>2, <1>3, <1>4, <2>1, <2>6 DEF Promised!EndMail
  <2> QED BY <1>1, <2>7 DEF Promised!ServicesNext
<1>6. CASE MessageDone /\ pc' = "receive"
  <2>1. tasksEvents' = tasksEvents /\ events' = events
    BY <1>6 DEF MessageDone
  <2>2. Active' = Active /\ Given' = Given
    BY <1>1, <1>3, <1>6, <2>1, Idle
  <2>3. Pending' = Pending
    BY <1>1, <1>3, <1>6, <2>1, PendingHandling
  <2> QED BY <1>2, <2>2, <2>3 DEF Stutters
<1>7. CASE MessageDone /\ pc' # "receive"
  <2>1. /\ tasksEvents' = tasksEvents /\ pc = "message" /\ pc' = "return"
        /\ events' = events \ {SysEventMsg} /\ SysEventMsg \in events
    BY <1>7 DEF MessageDone, IInv, Signalled
  <2>2. SysEventMsg \in tasksEvents[idx] <=> Box[idx] # << >>
    <3>1. SysEventMsg \in tasksEvents[idx] => \E m \in ToSet(queue) : dest[m] = idx
      BY <1>1 DEF Settled
    <3>2. ASSUME NEW m \in ToSet(queue), dest[m] = idx PROVE SysEventMsg \in tasksEvents[idx]
      BY <1>1, <2>1, <3>2 DEF IInv, Signalled
    <3> QED BY <1>1, <3>1, <3>2, BoxEmpty
  <2> DEFINE E == ((Pending[idx] \cup Given) \ {SysEventMsg}) \cup Promised!Signal(Box[idx])
  <2>4. tasksEvents'[idx] \cup events' = E
    BY <1>1, <1>3, <2>1, <2>2 DEF Promised!Signal
  <2>6. Pending' = [Pending EXCEPT ![idx] = E]
    <3> HIDE DEF E
    <3> QED BY <1>1, <2>1, <2>4, PendingReturned
  <2>7. Promised!EndMail(idx)
    BY <1>2, <1>3, <1>4, <2>1, <2>6 DEF Promised!EndMail
  <2> QED BY <1>1, <2>7 DEF Promised!ServicesNext
<1>8. CASE \E e \in AppEvents : EventDone(e)
  <2>1. PICK e \in AppEvents : EventDone(e)
    BY <1>8
  <2>2. /\ e \in events /\ events' = events \ {e} /\ tasksEvents' = tasksEvents
        /\ pc = "handle" /\ pc' = "return" /\ SysEventMsg \notin events
    BY <2>1 DEF EventDone, Settled
  <2> DEFINE E == Pending[idx] \cup (Given \ {e})
  <2>4. tasksEvents'[idx] \cup events' = E
    BY <1>1, <1>3, <2>2
  <2>6. Pending' = [Pending EXCEPT ![idx] = E]
    <3> HIDE DEF E
    <3> QED BY <1>1, <2>2, <2>4, PendingReturned
  <2>7. Promised!Serve(idx, e)
    BY <1>2, <1>3, <1>4, <2>2, <2>6 DEF Promised!Serve
  <2> QED BY <1>1, <2>7 DEF Promised!ServicesNext
<1> QED BY <1>5, <1>6, <1>7, <1>8

(* osal_msg_send adds a message to the mail of one task; its event is pending from then on. *)
LEMMA SendServes ==
  ASSUME IInv, Settled, NEW m \in Msgs, NEW t \in Tasks, SendMessage(m, t), Calls
  PROVE  Promised!ServicesNext
<1>0. /\ idx \in Tasks /\ NoTask \notin Tasks /\ pc \in {"message", "handle"}
      /\ sent = NoTask /\ expired = << >>
  BY StateFacts DEF SendMessage, Handling
<1>1. /\ UNCHANGED <<tasksEvents, timers, expired, pc, idx, events>> /\ sent' = t
      /\ dest' = [dest EXCEPT ![m] = t] /\ queue' = Append(queue, m) /\ calls' = calls + 1
  BY DEF SendMessage, Calls, timerVars, kernelVars
<1>2. UNCHANGED <<Armed, Periodic, Active, Given>> /\ Active = idx
  BY <1>0, <1>1, ServicesKept, Idle
<1>3. queue \in Seq(Msgs) /\ dest \in [Msgs -> Tasks \cup {NoTask}]
      /\ \A j \in 1 .. Len(queue) : queue[j] \in Msgs /\ queue[j] # m
  <2>1. queue \in Seq(Msgs) /\ dest \in [Msgs -> Tasks \cup {NoTask}] /\ m \notin ToSet(queue)
    BY DEF SendMessage, Unused, IInv, TypeOK, MessageTypes
  <2> QED BY <2>1 DEF ToSet
<1>4. dest'[m] = t /\ \A x \in Msgs : x # m => dest'[x] = dest[x]
  BY <1>1, <1>3
<1>5. ASSUME NEW u \in Tasks
      PROVE  Mail(queue', dest', u) =
                IF u = t THEN Append(Mail(queue, dest, u), m) ELSE Mail(queue, dest, u)
  <2>1. \A j \in 1 .. Len(queue) : (dest[queue[j]] = u) <=> (dest'[queue[j]] = u)
    BY <1>3, <1>4
  <2>2. Mail(queue, dest, u) = Mail(queue, dest', u)
    BY <1>3, <2>1, MailSame
  <2>3. Mail(Append(queue, m), dest', u) =
           IF dest'[m] = u THEN Append(Mail(queue, dest', u), m) ELSE Mail(queue, dest', u)
    BY <1>3, MailAppend
  <2> QED BY <1>1, <1>4, <2>2, <2>3
<1>6. Box' = [Box EXCEPT ![t] = Append(@, m)]
  BY <1>5, BoxNow
<1>7. Pending' = [Pending EXCEPT ![t] = @ \cup {SysEventMsg}]
  <2>1. \A u \in Tasks : Expiring(u)' = Expiring(u)
    BY <1>1, ExpiringNow
  <2>2. \A u \in Tasks : u # sent /\ (u = sent' <=> u = t)
    BY <1>0, <1>1
  <2>3. \A u \in Tasks : Pending'[u] = IF u = t THEN Pending[u] \cup {SysEventMsg} ELSE Pending[u]
    BY <1>1, <2>1, <2>2, PendingNow
  <2> QED BY <2>3, PendingMore
<1>8. Promised!Post(t, m)
  BY <1>0, <1>1, <1>2, <1>6, <1>7 DEF Promised!Post
<1> QED BY <1>8 DEF Promised!ServicesNext

(* Its event is then set, which it has been for its task all the time. *)
LEMMA SignalServes ==
  ASSUME IInv, Settled, SignalMessage
  PROVE  Stutters
<1>1. /\ UNCHANGED <<queue, dest, timers, expired, pc, idx, events, calls>>
      /\ sent \in Tasks /\ sent' = NoTask /\ NoTask \notin Tasks
      /\ tasksEvents \in [Tasks -> SUBSET Events]
      /\ tasksEvents' = [tasksEvents EXCEPT ![sent] = @ \cup {SysEventMsg}]
  BY StateFacts DEF SignalMessage, SetEvent, timerVars, kernelVars
<1>2. UNCHANGED <<Armed, Periodic, Box, Active, Given, calls>>
  BY <1>1, ServicesKept
<1>3. \A u \in Tasks : Expiring(u)' = Expiring(u)
  BY <1>1, ExpiringNow
<1>4. \A u \in Tasks : tasksEvents'[u] = tasksEvents[u] \cup (IF u = sent THEN {SysEventMsg} ELSE {})
  BY <1>1
<1>5. \A u \in Tasks : u # sent'
  BY <1>1
<1>6. Pending' = Pending
  BY <1>1, <1>3, <1>4, <1>5, PendingNow
<1> QED BY <1>2, <1>6 DEF Stutters

(* A timer that is started is armed, and reloads if it did or is to. *)
LEMMA AddServes ==
  ASSUME IInv, Settled, Calls, NEW t \in Tasks, NEW e \in AppEvents, NEW n \in Timeouts,
         NEW reload \in BOOLEAN, AddTimer(t, e, n, reload),
         UNCHANGED <<tasksEvents, msgVars, expired, kernelVars>>
  PROVE  Promised!ServicesNext
<1>1. /\ UNCHANGED <<tasksEvents, queue, dest, sent, pc, idx, events, expired>>
      /\ calls' = calls + 1
  BY DEF msgVars, kernelVars, Calls
<1>2. UNCHANGED <<Pending, Box, Active, Given>>
  BY <1>1, ServicesKept
<1>3. timers \in Seq(TimerRecords) /\ (\A i \in DOMAIN timers : timers[i] \in TimerRecords)
      /\ e \in Events \ {SysEventMsg} /\ n # 0
  <2>1. timers \in Seq(TimerRecords) /\ e \in Events \ {SysEventMsg}
    BY StateFacts
  <2>2. n # 0
    BY OsalAssumption DEF OsalAssumption
  <2> QED BY <2>1, <2>2
<1>4. ASSUME NEW u \in Tasks, NEW a \in AppEvents
      PROVE  /\ Has(timers', u, a) <=> Has(timers, u, a) \/ (u = t /\ a = e)
             /\ Again(timers', u, a) <=> Again(timers, u, a) \/ (u = t /\ a = e /\ reload)
  <2>1. CASE Live(t, e) # {}
    <3>1. PICK k \in DOMAIN timers : timers[k].task = t /\ timers[k].event = e
      BY <2>1 DEF Live
    <3>2. /\ DOMAIN timers' = DOMAIN timers
          /\ \A i \in DOMAIN timers :
                /\ i \notin Live(t, e) => timers'[i] = timers[i]
                /\ i \in Live(t, e)
                     => timers'[i] = [timers[i] EXCEPT !.timeout = n,
                                                       !.reload = IF reload THEN n ELSE @]
      BY <2>1 DEF AddTimer
    <3>3. \A i \in DOMAIN timers :
             /\ timers'[i].task = timers[i].task
             /\ timers'[i].event = timers[i].event
             /\ timers'[i].reload = IF i \in Live(t, e) /\ reload THEN n ELSE timers[i].reload
      BY <1>3, <3>2 DEF TimerRecords
    <3>4. \A i \in DOMAIN timers : i \in Live(t, e) <=> timers[i].task = t /\ timers[i].event = e
      BY DEF Live
    <3>5. Has(timers', u, a) <=> Has(timers, u, a) \/ (u = t /\ a = e)
      BY <3>1, <3>2, <3>3 DEF Has
    <3>6. Again(timers', u, a) <=> Again(timers, u, a) \/ (u = t /\ a = e /\ reload)
      <4>1. CASE u = t /\ a = e /\ reload
        <5>1. k \in DOMAIN timers' /\ timers'[k].task = u /\ timers'[k].event = a
              /\ timers'[k].reload # 0
          BY <1>3, <3>1, <3>2, <3>3, <3>4, <4>1
        <5> QED BY <4>1, <5>1 DEF Again
      <4>2. CASE ~ (u = t /\ a = e /\ reload)
        <5>1. \A i \in DOMAIN timers : timers[i].task = u /\ timers[i].event = a
                                          => timers'[i].reload = timers[i].reload
          BY <3>3, <3>4, <4>2
        <5> QED BY <3>2, <3>3, <4>2, <5>1 DEF Again
      <4> QED BY <4>1, <4>2
    <3> QED BY <3>5, <3>6
  <2>2. CASE Live(t, e) = {}
    <3> DEFINE x == [task |-> t, event |-> e, timeout |-> n,
                     reload |-> IF reload THEN n ELSE 0]
    <3>2. /\ x.task = t /\ x.event = e /\ (x.reload # 0 <=> reload)
          /\ timers' = Append(timers, x)
      BY <1>3, <2>2 DEF AddTimer
    <3> HIDE DEF x
    <3>3. /\ DOMAIN timers' = 1 .. Len(timers) + 1 /\ DOMAIN timers = 1 .. Len(timers)
          /\ Len(timers) \in Nat /\ \A i \in 1 .. Len(timers) : timers'[i] = timers[i]
          /\ timers'[Len(timers) + 1] = x
      BY <1>3, <3>2
    <3>4. \A i \in DOMAIN timers' : i \in DOMAIN timers \/ i = Len(timers) + 1
      BY <3>3
    <3>5. \A i \in DOMAIN timers : i \in DOMAIN timers' /\ timers'[i] = timers[i]
      BY <3>3
    <3>6. Len(timers) + 1 \in DOMAIN timers'
      BY <3>3
    <3>7. Has(timers', u, a) => Has(timers, u, a) \/ (u = t /\ a = e)
      BY <3>2, <3>3, <3>4, <3>5 DEF Has
    <3>8. Has(timers, u, a) \/ (u = t /\ a = e) => Has(timers', u, a)
      BY <3>2, <3>3, <3>5, <3>6 DEF Has
    <3>9. Again(timers', u, a) => Again(timers, u, a) \/ (u = t /\ a = e /\ reload)
      BY <3>2, <3>3, <3>4, <3>5 DEF Again
    <3>10. Again(timers, u, a) \/ (u = t /\ a = e /\ reload) => Again(timers', u, a)
      BY <3>2, <3>3, <3>5, <3>6 DEF Again
    <3> QED BY <3>7, <3>8, <3>9, <3>10
  <2> QED BY <2>1, <2>2
<1>5. \A u \in Tasks, a \in AppEvents : <<u, a>> = <<t, e>> <=> u = t /\ a = e
  OBVIOUS
<1>6. ASSUME NEW A, A = Armed \cup {<<t, e>>} PROVE Armed' = A
  <2>1. A \subseteq Tasks \X AppEvents
        /\ \A u \in Tasks, a \in AppEvents : <<u, a>> \in A <=> <<u, a>> \in Armed'
    BY <1>4, <1>5, <1>6, TimersNow
  <2> QED BY <2>1, TimersNow, PairsEqual
<1>7. ASSUME NEW A, A = IF reload THEN Periodic \cup {<<t, e>>} ELSE Periodic
      PROVE  Periodic' = A
  <2>1. A \subseteq Tasks \X AppEvents
        /\ \A u \in Tasks, a \in AppEvents : <<u, a>> \in A <=> <<u, a>> \in Periodic'
    BY <1>4, <1>5, <1>7, TimersNow
  <2> QED BY <2>1, TimersNow, PairsEqual
<1>8. Promised!Start(t, e, reload)
  BY <1>1, <1>2, <1>6, <1>7 DEF Promised!Start
<1> QED BY <1>3, <1>8 DEF Promised!ServicesNext

(* A timer that is stopped is no longer armed. *)
LEMMA StopServes ==
  ASSUME IInv, Settled, Calls, NEW t \in Tasks, NEW e \in AppEvents, StopTimer(t, e), Handling,
         UNCHANGED <<tasksEvents, msgVars, expired, kernelVars>>
  PROVE  Promised!ServicesNext
<1>0. idx \in Tasks /\ NoTask \notin Tasks /\ Deleted \notin AppEvents
      /\ e \in Events \ {SysEventMsg} /\ timers \in Seq(TimerRecords)
  BY StateFacts
<1>1. /\ UNCHANGED <<tasksEvents, queue, dest, sent, pc, idx, events, expired>>
      /\ calls' = calls + 1
  BY DEF msgVars, kernelVars, Calls
<1>2. UNCHANGED <<Pending, Box, Active, Given>> /\ Active # NoTask
  BY <1>0, <1>1, ServicesKept, Idle DEF Handling
<1>3. \A i \in DOMAIN timers : timers[i] \in TimerRecords
  BY <1>0
<1>5. /\ DOMAIN timers' = DOMAIN timers
      /\ \A i \in DOMAIN timers :
            /\ i \in Live(t, e) => timers'[i] = [timers[i] EXCEPT !.event = Deleted]
            /\ i \notin Live(t, e) => timers'[i] = timers[i]
  BY DEF StopTimer
<1>6. \A i \in DOMAIN timers :
         /\ timers'[i].task = timers[i].task /\ timers'[i].reload = timers[i].reload
         /\ i \in Live(t, e) => timers'[i].event = Deleted
         /\ i \notin Live(t, e) => timers'[i].event = timers[i].event
  BY <1>3, <1>5 DEF TimerRecords
<1>7. \A i \in DOMAIN timers : i \in Live(t, e) <=> timers[i].task = t /\ timers[i].event = e
  BY DEF Live
<1>8. ASSUME NEW u \in Tasks, NEW a \in AppEvents
      PROVE  /\ Has(timers', u, a) <=> Has(timers, u, a) /\ ~ (u = t /\ a = e)
             /\ Again(timers', u, a) <=> Again(timers, u, a) /\ ~ (u = t /\ a = e)
  <2>1. \A i \in DOMAIN timers :
           timers'[i].task = u /\ timers'[i].event = a
              <=> timers[i].task = u /\ timers[i].event = a /\ ~ (u = t /\ a = e)
    BY <1>0, <1>6, <1>7
  <2> QED BY <1>5, <1>6, <2>1 DEF Has, Again
<1>9. Armed' = Armed \ {<<t, e>>} /\ Periodic' = Periodic \ {<<t, e>>}
  BY <1>8, TimerGone
<1>10. Promised!Stop(t, e)
  BY <1>1, <1>2, <1>9 DEF Promised!Stop
<1> QED BY <1>0, <1>10 DEF Promised!ServicesNext

(* An event that a task or an interrupt sets is raised. *)
LEMMA SetServes ==
  ASSUME IInv, Settled, Calls, NEW t \in Tasks, NEW e \in AppEvents, SetEvent(t, e),
         UNCHANGED <<msgVars, timers, expired, kernelVars>>
  PROVE  Promised!ServicesNext
<1>1. UNCHANGED <<queue, dest, sent, timers, expired, pc, idx, events>> /\ calls' = calls + 1
  BY DEF msgVars, kernelVars, Calls
<1>2. e \in Events /\ e \in Events \ {SysEventMsg}
  BY StateFacts
<1>3. Pending' = [Pending EXCEPT ![t] = @ \cup {e}]
      /\ UNCHANGED <<Armed, Periodic, Box, Active, Given>>
  BY <1>1, <1>2, RaisesEvent, ServicesKept
<1>4. Promised!Raise(t, e)
  BY <1>1, <1>3 DEF Promised!Raise
<1> QED BY <1>2, <1>4 DEF Promised!ServicesNext

(* What tasks and interrupts call. *)
LEMMA CallServes ==
  ASSUME IInv, Settled, TaskCalls \/ Interrupt
  PROVE  Promised!ServicesNext
<1>1. CASE TaskCalls
  <2>0. Calls /\ Handling
    BY <1>1 DEF TaskCalls
  <2>1. CASE \E m \in Msgs, t \in Tasks : SendMessage(m, t)
    BY <2>0, <2>1, SendServes
  <2>2. CASE \E t \in Tasks, e \in AppEvents :
                \/ SetEvent(t, e) /\ UNCHANGED <<msgVars, timerVars, kernelVars>>
                \/ /\ \/ \E n \in Timeouts : AddTimer(t, e, n, <<t, e>> \in Reloaded)
                      \/ StopTimer(t, e)
                   /\ UNCHANGED <<tasksEvents, msgVars, expired, kernelVars>>
    <3>1. PICK t \in Tasks, e \in AppEvents :
             \/ SetEvent(t, e) /\ UNCHANGED <<msgVars, timerVars, kernelVars>>
             \/ /\ \/ \E n \in Timeouts : AddTimer(t, e, n, <<t, e>> \in Reloaded)
                   \/ StopTimer(t, e)
                /\ UNCHANGED <<tasksEvents, msgVars, expired, kernelVars>>
      BY <2>2
    <3>2. CASE SetEvent(t, e) /\ UNCHANGED <<msgVars, timerVars, kernelVars>>
      <4>1. UNCHANGED <<msgVars, timers, expired, kernelVars>>
        BY <3>2 DEF timerVars
      <4> QED BY <2>0, <3>2, <4>1, SetServes, Zenon
    <3>3. CASE /\ \E n \in Timeouts : AddTimer(t, e, n, <<t, e>> \in Reloaded)
               /\ UNCHANGED <<tasksEvents, msgVars, expired, kernelVars>>
      <4>1. PICK n \in Timeouts : AddTimer(t, e, n, <<t, e>> \in Reloaded)
        BY <3>3
      <4>2. (<<t, e>> \in Reloaded) \in BOOLEAN
        OBVIOUS
      <4> QED BY <2>0, <3>3, <4>1, <4>2, AddServes, Zenon
    <3>4. CASE StopTimer(t, e) /\ UNCHANGED <<tasksEvents, msgVars, expired, kernelVars>>
      BY <2>0, <3>4, StopServes, Zenon
    <3> QED BY <3>1, <3>2, <3>3, <3>4
  <2> QED BY <1>1, <2>1, <2>2 DEF TaskCalls
<1>2. CASE Interrupt
  <2>0. Calls /\ UNCHANGED <<msgVars, expired, kernelVars>>
    BY <1>2 DEF Interrupt
  <2>1. PICK t \in Tasks, e \in AppEvents :
           \/ SetEvent(t, e) /\ UNCHANGED timers
           \/ \E n \in Timeouts : AddTimer(t, e, n, FALSE) /\ UNCHANGED tasksEvents
    BY <1>2 DEF Interrupt
  <2>2. CASE SetEvent(t, e) /\ UNCHANGED timers
    <3>1. UNCHANGED <<msgVars, timers, expired, kernelVars>>
      BY <2>0, <2>2
    <3> QED BY <2>0, <2>2, <3>1, SetServes, Zenon
  <2>3. CASE \E n \in Timeouts : AddTimer(t, e, n, FALSE) /\ UNCHANGED tasksEvents
    <3>1. PICK n \in Timeouts : AddTimer(t, e, n, FALSE) /\ UNCHANGED tasksEvents
      BY <2>3
    <3>2. UNCHANGED <<tasksEvents, msgVars, expired, kernelVars>> /\ FALSE \in BOOLEAN
      BY <2>0, <3>1
    <3> QED BY <2>0, <3>1, <3>2, AddServes, Zenon
  <2> QED BY <2>1, <2>2, <2>3
<1> QED BY <1>1, <1>2

(* OSAL.c and OSAL_Timers.c are what the tasks rely on, for any number of tasks, events,
   messages and timers and whatever interrupts come between the critical sections.  Only
   calls raise events, start and stop timers and post messages.  The kernel gives a task
   all that is pending for it, and has pending again what the task leaves unserved and
   what came meanwhile; a timer raises its event once, or once a period, unless it is
   stopped first; each task receives its messages all, once, in the order in which they
   were sent, and its SYS_EVENT_MSG goes only with the last of them. *)
THEOREM KernelServes == Spec => ImplementsServices
<1>1. Init => Settled /\ Promised!ServicesInit
  <2> SUFFICES ASSUME Init PROVE Settled /\ Promised!ServicesInit
    OBVIOUS
  <2>0. NoTask \notin Tasks /\ pc = "update" /\ sent = NoTask /\ tasksEvents = [t \in Tasks |-> {}]
        /\ expired = << >>
    BY DEF Init, Tasks, NoTask
  <2>1. Pending = [t \in Tasks |-> {}]
    <3>1. \A t \in Tasks : Expiring(t) = {} /\ t # sent
      BY <2>0, ExpiringNow
    <3> QED BY <2>0, <3>1, PendingNow
  <2>2. Armed = {} /\ Periodic = {}
    BY DEF Armed, Periodic, Live, Init
  <2>3. Box = [t \in Tasks |-> << >>]
    BY BoxNow, MailEmpty DEF Init
  <2>4. Active = NoTask /\ Given = {} /\ calls = 0
    BY <2>0, Idle DEF Init
  <2>5. Settled
    BY <2>0 DEF Settled
  <2> QED BY <2>1, <2>2, <2>3, <2>4, <2>5 DEF Promised!ServicesInit
<1>2. IInv /\ Settled /\ [Next]_vars => [Promised!ServicesNext]_(Promised!servicesVars)
  <2> SUFFICES ASSUME IInv, Settled, [Next]_vars
               PROVE  Promised!ServicesNext \/ Stutters
    BY DEF Promised!servicesVars, Stutters
  <2>1. CASE TimePasses \/ NoTimePassed \/ WalkEnds \/ NextTask \/ TaskFound \/ TaskReturns
    BY <2>1, LoopStutters
  <2>2. CASE CallTask
    BY <2>2, CallActivates
  <2>3. CASE WalkTimer
    BY <2>3, WalkServes
  <2>4. CASE Expire
    BY <2>4, ExpireServes
  <2>5. CASE ReceiveMessage
    BY <2>5, ReceiveServes
  <2>6. CASE NoMessage \/ MessageDone \/ \E e \in AppEvents : EventDone(e)
    BY <2>6, DoneServes
  <2>7. CASE SignalMessage
    BY <2>7, SignalServes
  <2>8. CASE TaskCalls \/ Interrupt
    BY <2>8, CallServes
  <2>9. CASE UNCHANGED vars
    <3>1. UNCHANGED <<tasksEvents, idx, events, sent, expired, pc, timers, queue, dest, calls>>
      BY <2>9 DEF vars
    <3> QED BY <3>1, ServicesKept DEF Stutters
  <2> QED BY <2>1, <2>2, <2>3, <2>4, <2>5, <2>6, <2>7, <2>8, <2>9 DEF Next, Walk, Handler, Loop
<1> QED BY <1>1, <1>2, SettledStep, SpecIInv, PTL DEF Spec, ImplementsServices, Promised!Services

--------------------------------------------------------------------------------
(* The heap. *)

(* What Tiled rests on: a block is longer than its header but for the one after the
   bucket, which is always in use and never handed out. *)
Placed ==
    /\ len[End] = 0 /\ len[Bucket] = Hdr /\ Bucket \in used /\ given[Bucket] = 0
    /\ \A h \in heads \ {Bucket} : len[h] > Hdr

(* The free blocks the search has left behind are too short and none of them is next to
   another, but that the last may be next to the block that is looked at. *)
Behind(h) == len[h] < size /\ (h + len[h] \in used \cup {End} \/ h = prev)

(* Where the search is. *)
Searching ==
    /\ step \in {"loop", "take", "null"} => size > Hdr /\ start \in heads \cup {End}
    /\ step = "loop" =>
        /\ at \in heads \/ (at = End /\ start = End /\ prev = None)
        /\ start <= at
        /\ prev # None => prev \in heads \ used /\ start <= prev
    /\ step \in {"loop", "null"} =>
        /\ prev # None => prev + len[prev] = at
        /\ \A h \in heads \ used : start <= h /\ h < at => Behind(h)
    /\ step = "null" => at = End
    /\ step = "take" =>
        /\ at \in heads \ used /\ len[at] >= size
        /\ \A h \in heads \ used : start <= h /\ h < at => len[h] < size

(* Until osal_mem_kick is done the search begins at the first block of the heap, so that
   it takes the first free one. *)
Kicking ==
    /\ kicked # "yes" => ff1 = 0
    /\ kicked = "now" => size = Hdr + 1 /\ start = 0 /\ step # "idle"
    /\ step = "kick" => /\ kicked = "now" /\ at \in used /\ given[at] # 0
                      /\ \A h \in heads \ used : at <= h

HeapInv == HeapTypeOK /\ Tiled /\ Placed /\ GivenKept /\ FirstFree /\ Searching /\ Kicking

--------------------------------------------------------------------------------
(* The heap that osal_mem_init lays out. *)
LEMMA InitHeapInv == HeapInit => HeapInv
<1> SUFFICES ASSUME HeapInit PROVE HeapInv  OBVIOUS
<1> USE SizesAssumption DEF SizesAssumption, HeapInit, BigBlk, Pos, None
<1>1. /\ len[0] = Bucket /\ len[Bucket] = Hdr /\ len[BigBlk] = End - BigBlk /\ len[End] = 0
  OBVIOUS
<1>2. HeapTypeOK  BY <1>1 DEF HeapTypeOK
<1>a. /\ heads = {0, Bucket, BigBlk} /\ 0 < Bucket /\ Bucket < BigBlk /\ BigBlk + Hdr < End
      /\ Bucket \in Nat /\ BigBlk \in Nat /\ Hdr \in Nat /\ End \in Nat
      /\ Bucket >= Hdr /\ BigBlk = Bucket + Hdr
  OBVIOUS
<1>3. Tiled
  <2>4. /\ len[0] >= Hdr /\ len[Bucket] >= Hdr /\ len[BigBlk] >= Hdr
        /\ 0 + len[0] = Bucket /\ Bucket + len[Bucket] = BigBlk /\ BigBlk + len[BigBlk] = End
    <3> HIDE SizesAssumption DEF HeapInit, BigBlk, Pos, None
    <3> QED BY <1>1, <1>a
  <2>1. \A h \in heads : len[h] >= Hdr /\ h + len[h] \in heads \cup {End}
    <3>1. \A h \in heads : h = 0 \/ h = Bucket \/ h = BigBlk
      BY <1>a
    <3>2. Bucket \in heads /\ BigBlk \in heads
      BY <1>a
    <3> HIDE SizesAssumption DEF HeapInit, BigBlk, Pos, None
    <3> QED BY <2>4, <3>1, <3>2
  <2>2. \A g \in heads : /\ g > 0 => g >= 0 + len[0]
                         /\ g > Bucket => g >= Bucket + len[Bucket]
                         /\ ~ (g > BigBlk)
    BY <1>1, <1>a
  <2>3. \A h, g \in heads : g > h => g >= h + len[h]
    BY <2>2, <1>a
  <2> QED  BY <2>1, <2>3, <1>a DEF Tiled
<1>4. Placed
  <2>1. \A h \in heads \ {Bucket} : len[h] > Hdr  BY <1>1, <1>a
  <2>2. Bucket \in used /\ given[Bucket] = 0  OBVIOUS
  <2> QED  BY <1>1, <2>1, <2>2 DEF Placed
<1>5. GivenKept /\ FirstFree  BY DEF GivenKept, FirstFree
<1>6. Searching /\ Kicking  BY DEF Searching, Kicking
<1> QED  BY <1>2, <1>3, <1>4, <1>5, <1>6 DEF HeapInv

(* What the numbers of a block are. *)
LEMMA BlockBounds ==
  ASSUME HeapTypeOK, Tiled, NEW h \in heads
  PROVE  /\ h \in Nat /\ len[h] \in Nat /\ h < End /\ h + len[h] <= End
         /\ len[h] >= Hdr /\ h + len[h] \in heads \cup {End} /\ h \in Pos
BY SizesAssumption DEF SizesAssumption, HeapTypeOK, Tiled, Pos

(* A call that begins, of osal_mem_alloc or in osal_mem_kick, changes no block. *)
LEMMA StartStep ==
  ASSUME HeapInv, (\E request \in Requests : Alloc(request)) \/ Kick
  PROVE  HeapInv'
<1> USE SizesAssumption DEF SizesAssumption, None
<1>1. PICK request \in Nat \ {0} : /\ Starts(request)
                                   /\ \/ kicked' = kicked
                                      \/ kicked = "no" /\ kicked' = "now" /\ request = 1
  BY DEF Alloc, Kick
<1>2. HeapTypeOK /\ Tiled /\ Placed /\ GivenKept /\ FirstFree /\ Searching /\ Kicking  BY DEF HeapInv
<1>3. UNCHANGED heapVars  BY <1>1 DEF Starts
<1>4. Tiled' /\ Placed' /\ GivenKept' /\ FirstFree'
  BY <1>2, <1>3 DEF heapVars, Tiled, Placed, GivenKept, FirstFree
<1>5. size' = request + Hdr /\ start' \in heads \cup {End} /\ at' = start' /\ prev' = None
  BY <1>1, <1>2 DEF Starts, HeapTypeOK, Tiled
<1>6. HeapTypeOK'  BY <1>1, <1>2, <1>3, <1>5 DEF HeapTypeOK, heapVars, Starts, Pos
<1>7. Searching'
  BY <1>1, <1>2, <1>3, <1>5, <1>6 DEF HeapTypeOK, heapVars, Starts, Searching
<1>8. Kicking'
  BY <1>1, <1>2, <1>3, <1>5 DEF heapVars, Starts, Searching, Kicking
<1> QED  BY <1>4, <1>6, <1>7, <1>8 DEF HeapInv

(* The search passes a block in use, or the first of a run of free ones. *)
LEMMA SkipStep ==
  ASSUME HeapInv, SkipsUsed \/ SkipsSmall
  PROVE  HeapInv'
<1> USE SizesAssumption DEF SizesAssumption, None
<1>1. PICK p \in {None, at} :
        /\ Goes(p) /\ step = "loop" /\ heads' = heads /\ len' = len
        /\ p = None => at \in used
        /\ p = at => at \notin used /\ prev = None /\ len[at] < size
  BY DEF SkipsUsed, SkipsSmall, HeapTypeOK, HeapInv, Pos
<1>2. HeapTypeOK /\ Tiled /\ Placed /\ GivenKept /\ FirstFree /\ Searching /\ Kicking  BY DEF HeapInv
<1>3. UNCHANGED <<heads, len, used, ff1, given, kicked, size, start>>  BY <1>1 DEF Goes
<1>4. Tiled' /\ Placed' /\ GivenKept' /\ FirstFree'
  BY <1>2, <1>3 DEF Tiled, Placed, GivenKept, FirstFree
<1>5. at \in Nat /\ at' = at + len[at] /\ at' \in heads \cup {End} /\ prev' = p
  BY <1>1, <1>2, BlockBounds DEF Goes, Searching, Placed
<1>6. HeapTypeOK'
  BY <1>1, <1>2, <1>3, <1>5 DEF HeapTypeOK, Goes, Pos
<1>7. \A h \in heads \ used : start <= h /\ h < at' => Behind(h)'
  <2> TAKE h \in heads \ used
  <2> HAVE start <= h /\ h < at'
  <2>1. CASE h < at
    BY <2>1, <1>1, <1>2, <1>3, <1>5, BlockBounds DEF Searching, Behind, Placed
  <2>2. CASE h = at
    BY <2>2, <1>1, <1>2, <1>3, <1>5 DEF Behind
  <2>3. CASE at < h
    BY <2>3, <1>1, <1>2, <1>5, BlockBounds DEF Tiled, Searching, Placed
  <2>4. h < at \/ h = at \/ at < h  BY <1>2, <1>5, BlockBounds
  <2> QED  BY <2>1, <2>2, <2>3, <2>4, Zenon
<1>8. Searching'
  <2>1. step' = (IF at' = End THEN "null" ELSE "loop")  BY <1>1, <1>5 DEF Goes
  <2>2. size > Hdr /\ start \in heads \cup {End}  BY <1>1, <1>2 DEF Searching
  <2>3. step' = "loop" => at' \in heads  BY <2>1, <1>5
  <2>4. prev' # None => prev' + len[prev'] = at' BY <1>1, <1>5
  <2>5. at' # End => at \in heads  BY <1>1, <1>2, <1>5 DEF Searching, Placed
  <2>6. prev' # None /\ at' # End => prev' \in heads \ used /\ start <= prev'
    <3>1. start <= at  BY <1>1, <1>2 DEF Searching
    <3> QED BY <1>1, <1>5, <2>5, <3>1
  <2>7. start <= at'  BY <1>1, <1>2, <1>5, <2>2, BlockBounds DEF Searching, Placed, HeapTypeOK
  <2> QED  BY <2>1, <2>2, <2>3, <2>4, <2>6, <2>7, <1>7, <1>3 DEF Searching
<1>9. Kicking'  BY <1>1, <1>2, <1>3 DEF Kicking, Goes
<1> QED  BY <1>4, <1>6, <1>8, <1>9 DEF HeapInv

(* A block that is long enough is found: nothing is changed yet. *)
LEMMA FitStep ==
  ASSUME HeapInv, Fits
  PROVE  HeapInv'
<1> USE SizesAssumption DEF SizesAssumption, None
<1>1. HeapTypeOK /\ Tiled /\ Placed /\ GivenKept /\ FirstFree /\ Searching /\ Kicking  BY DEF HeapInv
<1>2. /\ UNCHANGED <<heads, len, used, ff1, given, kicked, size, start, at, prev>>
      /\ step = "loop" /\ step' = "take" /\ at \notin used /\ len[at] >= size
  BY DEF Fits, heapVars, searchVars
<1>3. Tiled' /\ Placed' /\ GivenKept' /\ FirstFree'
  BY <1>1, <1>2 DEF Tiled, Placed, GivenKept, FirstFree
<1>4. HeapTypeOK'  BY <1>1, <1>2 DEF HeapTypeOK
<1>5. at \in heads  BY <1>1, <1>2 DEF Searching, Placed, HeapTypeOK
<1>6. Searching'  BY <1>1, <1>2, <1>5 DEF Searching, Behind
<1>7. Kicking'  BY <1>1, <1>2 DEF Kicking
<1> QED  BY <1>3, <1>4, <1>6, <1>7 DEF HeapInv

(* What joining two free blocks that are next to each other does to the heap. *)
LEMMA JoinKeeps ==
  ASSUME HeapTypeOK, Tiled, Placed, GivenKept, FirstFree,
         at \in heads \ used, prev \in heads \ used, prev + len[prev] = at,
         Coalesce(prev), UNCHANGED <<used, ff1, given>>
  PROVE  /\ heads' \subseteq 0 .. End - 1 /\ used' \subseteq heads' /\ len' \in [Pos -> Nat]
         /\ ff1' \in heads' \cup {End}
         /\ heads' = heads \ {at} /\ prev \in heads' \ used' /\ prev < at
         /\ len'[prev] = len[prev] + len[at] /\ \A h \in heads' \ {prev} : len'[h] = len[h]
         /\ Tiled' /\ Placed' /\ GivenKept' /\ FirstFree'
<1> USE SizesAssumption DEF SizesAssumption
<1>1. /\ at \in Nat /\ prev \in Nat /\ len[at] \in Nat /\ len[prev] \in Nat
      /\ at < End /\ prev < at /\ len[prev] >= Hdr /\ len[at] >= Hdr
      /\ at + len[at] \in heads \cup {End} /\ at + len[at] <= End /\ at \in Pos /\ prev \in Pos
  BY BlockBounds
<1>2. heads' = heads \ {at} /\ len' = [len EXCEPT ![prev] = @ + len[at], ![at] = 0]
  BY DEF Coalesce
<1>3. /\ len'[prev] = len[prev] + len[at] /\ \A h \in Pos \ {prev, at} : len'[h] = len[h]
      /\ len' \in [Pos -> Nat]
  BY <1>1, <1>2 DEF HeapTypeOK
<1>4. heads' \subseteq 0 .. End - 1 /\ used' \subseteq heads' /\ heads \subseteq Pos
  BY <1>2 DEF HeapTypeOK, Pos
<1>5. ff1 # at  BY <1>1 DEF FirstFree, HeapTypeOK, Pos
<1>6. ff1' \in heads' \cup {End}  BY <1>2, <1>5 DEF HeapTypeOK
<1>7. prev \in heads' \ used' /\ \A h \in heads' \ {prev} : len'[h] = len[h]
  BY <1>1, <1>2, <1>3, <1>4
<1>8. Bucket \in heads /\ Bucket \in used /\ at # Bucket /\ prev # Bucket /\ len[Bucket] = Hdr
  BY DEF Placed, Tiled
<1>9. 0 \in heads' /\ Bucket \in heads' /\ BigBlk \in heads'
  <2>1. at # 0  BY <1>1
  <2>2. ASSUME at = BigBlk PROVE FALSE
    <3>1. prev < Bucket => Bucket >= prev + len[prev]  BY <1>8 DEF Tiled
    <3>2. prev > Bucket => prev >= Bucket + len[Bucket]  BY <1>8 DEF Tiled
    <3> QED  BY <2>2, <3>1, <3>2, <1>1, <1>8 DEF BigBlk
  <2> QED  BY <1>2, <1>8, <2>1, <2>2 DEF Tiled
<1>10. ASSUME NEW h \in heads'
       PROVE  /\ len'[h] >= Hdr /\ h + len'[h] \in heads' \cup {End}
              /\ \A g \in heads' : g > h => g >= h + len'[h]
  <2>1. h \in heads /\ h # at /\ h \in Nat /\ len[h] \in Nat /\ len[h] >= Hdr
    BY <1>2, BlockBounds
  <2>2. CASE h = prev
    <3>1. len'[h] >= Hdr /\ h + len'[h] = at + len[at] /\ at + len[at] # at
      BY <2>2, <1>1, <1>3
    <3>2. h + len'[h] \in heads' \cup {End}  BY <3>1, <1>1, <1>2
    <3>3. ASSUME NEW g \in heads', g > h PROVE g >= h + len'[h]
      <4>1. g \in heads /\ g # at /\ g \in Nat  BY <1>2, BlockBounds
      <4>2. g >= at  BY <2>2, <3>3, <4>1, <1>1 DEF Tiled
      <4>3. g > at => g >= at + len[at]  BY <4>1 DEF Tiled
      <4> QED  BY <4>1, <4>2, <4>3, <3>1, <1>1
    <3> QED  BY <3>1, <3>2, <3>3
  <2>3. CASE h # prev
    <3>1. len'[h] = len[h]  BY <2>3, <1>7
    <3>2. h + len[h] # at
      <4>1. h > prev => h >= at  BY <2>1 DEF Tiled
      <4>2. h < prev => prev >= h + len[h]  BY <2>1 DEF Tiled
      <4> QED  BY <4>1, <4>2, <2>1, <2>3, <1>1
    <3> QED  BY <3>1, <3>2, <2>1, <1>2 DEF Tiled
  <2> QED  BY <2>2, <2>3
<1>11. Tiled'  BY <1>9, <1>10 DEF Tiled, BigBlk
<1>12. Placed'
  <2>1. len'[End] = 0  BY <1>1, <1>3, <1>4 DEF Placed, Pos
  <2>2. len'[Bucket] = Hdr  BY <1>7, <1>8, <1>9
  <2>3. ASSUME NEW h \in heads' \ {Bucket} PROVE len'[h] > Hdr
    <3>1. len[h] > Hdr /\ len'[h] \in {len[h], len[prev] + len[at]}
      BY <1>2, <1>3, <1>7 DEF Placed
    <3>2. len[prev] + len[at] > Hdr  BY <1>1
    <3> QED  BY <3>1, <3>2
  <2> QED  BY <2>1, <2>2, <2>3 DEF Placed
<1>13. GivenKept'  BY <1>3, <1>4 DEF GivenKept
<1>14. FirstFree'  BY <1>2 DEF FirstFree
<1> QED  BY <1>1, <1>2, <1>3, <1>4, <1>6, <1>7, <1>11, <1>12, <1>13, <1>14

(* Two free blocks are joined and the search goes on, or takes the longer one. *)
LEMMA JoinStep ==
  ASSUME HeapInv, Joins \/ FitsJoined
  PROVE  HeapInv'
<1> USE SizesAssumption DEF SizesAssumption, None
<1>1. HeapTypeOK /\ Tiled /\ Placed /\ GivenKept /\ FirstFree /\ Searching /\ Kicking  BY DEF HeapInv
<1>2. /\ UNCHANGED <<used, ff1, given, kicked, size, start>> /\ Coalesce(prev)
      /\ step = "loop" /\ at \notin used /\ prev # None
  BY DEF Joins, FitsJoined, Goes
<1>3. /\ at \in heads \ used /\ prev \in heads \ used /\ prev + len[prev] = at
      /\ start <= prev /\ start <= at /\ size > Hdr /\ start \in heads \cup {End}
  BY <1>1, <1>2 DEF Searching
<1>4. /\ heads' \subseteq 0 .. End - 1 /\ used' \subseteq heads' /\ len' \in [Pos -> Nat]
      /\ ff1' \in heads' \cup {End}
      /\ heads' = heads \ {at} /\ prev \in heads' \ used' /\ prev < at
      /\ len'[prev] = len[prev] + len[at] /\ \A h \in heads' \ {prev} : len'[h] = len[h]
      /\ Tiled' /\ Placed' /\ GivenKept' /\ FirstFree'
  BY <1>1, <1>2, <1>3, JoinKeeps
<1>5. /\ at \in Nat /\ prev \in Nat /\ len[at] \in Nat /\ len[prev] \in Nat /\ at < End
      /\ len[prev] >= Hdr /\ len[at] >= Hdr /\ at + len[at] \in heads \cup {End}
      /\ at + len[at] \in Pos /\ prev \in Pos /\ start \in Nat
  <2>1. /\ at \in Nat /\ len[at] \in Nat /\ at < End /\ len[at] >= Hdr
        /\ at + len[at] \in heads \cup {End} /\ at + len[at] <= End
    BY <1>1, <1>3, BlockBounds
  <2>2. prev \in Nat /\ len[prev] \in Nat /\ len[prev] >= Hdr /\ prev \in Pos
    BY <1>1, <1>3, BlockBounds
  <2>3. at + len[at] \in Pos  BY <2>1 DEF Pos
  <2>4. start \in Nat  BY <1>1 DEF HeapTypeOK
  <2> QED  BY <2>1, <2>2, <2>3, <2>4
<1>6. start \in heads' \cup {End}  BY <1>3, <1>4, <1>5
<1>7. \A h \in heads' \ used' : h < at => h <= prev
  <2> SUFFICES ASSUME NEW h \in heads' \ used', h < at PROVE h <= prev  OBVIOUS
  <2>1. h \in heads /\ h \in Nat  BY <1>1, <1>4, BlockBounds
  <2>2. h > prev => h >= at  BY <1>1, <1>3, <2>1 DEF Tiled
  <2> QED  BY <2>1, <2>2, <1>5
<1>8. ASSUME NEW h \in heads' \ used', start <= h, h < prev
      PROVE  len'[h] = len[h] /\ Behind(h) /\ h # prev
  BY <1>1, <1>2, <1>3, <1>4, <1>5, <1>8, BlockBounds DEF Searching
<1>9. CASE Joins
  <2>1. /\ prev' = prev /\ at' = at + len[at] /\ len[prev] + len[at] < size
        /\ step' = (IF at' = End THEN "null" ELSE "loop")
    BY <1>9 DEF Joins, Goes
  <2>2. HeapTypeOK'  BY <1>1, <1>2, <1>4, <1>5, <2>1 DEF HeapTypeOK
  <2>3. \A h \in heads' \ used' : start <= h /\ h < at' => Behind(h)'
    <3> SUFFICES ASSUME NEW h \in heads' \ used', start <= h, h < at' PROVE Behind(h)'
      OBVIOUS
    <3>1. h \in heads /\ h # at /\ h \in Nat  BY <1>1, <1>4, BlockBounds
    <3>2. h > at => h >= at + len[at]  BY <1>1, <1>3, <3>1 DEF Tiled
    <3>3. h <= prev  BY <3>1, <3>2, <1>5, <1>7, <2>1
    <3>4. CASE h = prev
      BY <3>4, <1>2, <1>4, <2>1 DEF Behind
    <3>5. CASE h < prev
      BY <3>5, <1>2, <1>8, <2>1 DEF Behind
    <3> QED  BY <3>1, <3>3, <3>4, <3>5, <1>5
  <2>4. prev' + len'[prev'] = at'  BY <1>3, <1>4, <1>5, <2>1
  <2>5. at' = End \/ at' \in heads'  BY <1>4, <1>5, <2>1
  <2>6. Searching'
    BY <1>2, <1>3, <1>4, <1>5, <1>6, <2>1, <2>3, <2>4, <2>5 DEF Searching
  <2>7. Kicking'  BY <1>1, <1>2, <2>1 DEF Kicking
  <2> QED  BY <1>4, <2>2, <2>6, <2>7 DEF HeapInv
<1>10. CASE FitsJoined
  <2>1. /\ at' = prev /\ prev' = None /\ len[prev] + len[at] >= size /\ step' = "take"
    BY <1>10 DEF FitsJoined
  <2>2. HeapTypeOK'  BY <1>1, <1>2, <1>4, <1>5, <2>1 DEF HeapTypeOK
  <2>3. \A h \in heads' \ used' : start <= h /\ h < at' => len'[h] < size
    BY <1>8, <2>1 DEF Behind
  <2>4. Searching'
    BY <1>2, <1>3, <1>4, <1>5, <1>6, <2>1, <2>3 DEF Searching
  <2>5. Kicking'  BY <1>1, <1>2, <2>1 DEF Kicking
  <2> QED  BY <1>4, <2>2, <2>4, <2>5 DEF HeapInv
<1> QED  BY <1>9, <1>10

(* Null is returned. *)
LEMMA FailStep ==
  ASSUME HeapInv, Fails
  PROVE  HeapInv'
<1> USE SizesAssumption DEF SizesAssumption, None
<1>1. HeapTypeOK /\ Tiled /\ Placed /\ GivenKept /\ FirstFree /\ Searching /\ Kicking  BY DEF HeapInv
<1>2. /\ UNCHANGED <<heads, len, used, ff1, given, kicked>> /\ step = "null"
      /\ \/ kicked = "now" /\ step' = "halted" /\ UNCHANGED searchVars
         \/ kicked # "now" /\ Returns
  BY DEF Fails, heapVars
<1>3. Tiled' /\ Placed' /\ GivenKept' /\ FirstFree'
  BY <1>1, <1>2 DEF Tiled, Placed, GivenKept, FirstFree
<1>4. HeapTypeOK'  BY <1>1, <1>2 DEF HeapTypeOK, Returns, searchVars, Pos
<1>5. Searching' /\ Kicking'  BY <1>1, <1>2 DEF Searching, Kicking, Returns, searchVars
<1> QED  BY <1>3, <1>4, <1>5 DEF HeapInv

(* The block at at is split if the rest is worth it, marked and returned. *)
LEMMA TakeStep ==
  ASSUME HeapInv, Takes
  PROVE  HeapInv' /\ at \in heads \ used /\ len[at] >= size /\ size > Hdr
<1> USE SizesAssumption DEF SizesAssumption, None
<1>1. HeapTypeOK /\ Tiled /\ Placed /\ GivenKept /\ FirstFree /\ Searching /\ Kicking  BY DEF HeapInv
<1>2. /\ step = "take" /\ at \in heads \ used /\ len[at] >= size /\ size > Hdr /\ size \in Nat
      /\ \A h \in heads \ used : start <= h /\ h < at => len[h] < size
  BY <1>1 DEF Takes, Searching, HeapTypeOK
<1>3. /\ at \in Nat /\ len[at] \in Nat /\ at < End /\ at + len[at] \in heads \cup {End}
      /\ at + len[at] <= End /\ at \in Pos /\ at # Bucket /\ given[at] = 0
  BY <1>1, <1>2, BlockBounds DEF Placed, GivenKept
<1>4. /\ used' = used \cup {at} /\ given' = [given EXCEPT ![at] = size] /\ kicked' = kicked
      /\ ff1' = (IF kicked = "yes" /\ ff1 = at THEN at + Taken ELSE ff1)
      /\ IF kicked = "now" THEN step' = "kick" /\ UNCHANGED searchVars ELSE Returns
  BY DEF Takes
<1>5. /\ given'[at] = size /\ \A h \in Pos \ {at} : given'[h] = given[h]
      /\ given' \in [Pos -> Nat]
  BY <1>1, <1>2, <1>3, <1>4 DEF HeapTypeOK
<1>6. heads \subseteq Pos  BY <1>1 DEF HeapTypeOK, Pos
<1>7. Placed' /\ Tiled' /\ len' \in [Pos -> Nat] /\ heads' \subseteq 0 .. End - 1
      /\ len'[at] >= size /\ (\A h \in heads \ {at} : len'[h] = len[h])
      /\ heads \subseteq heads' /\ at + Taken \in heads' \cup {End}
      /\ Taken \in Nat /\ Taken <= len[at] /\ \A h \in heads' \ heads : h = at + Taken
  <2>1. CASE Splits
    <3> DEFINE next == at + size
               rest == len[at] - size
    <3>1. rest \in Nat /\ rest > Hdr /\ next \in Nat /\ next < End /\ next \in Pos
          /\ next + rest = at + len[at] /\ next > at /\ next < at + len[at] /\ Taken = size
      BY <2>1, <1>2, <1>3 DEF Splits, Pos, Taken
    <3>2. heads' = heads \cup {next}
          /\ len' = [len EXCEPT ![at] = size, ![next] = rest]
      BY <2>1 DEF Takes
    <3>3. \A h \in heads : h > at => h >= at + len[at]  BY <1>1, <1>2 DEF Tiled
    <3>4. next \notin heads /\ next # at  BY <3>1, <3>3
    <3> HIDE DEF next, rest
    <3>5. /\ len'[at] = size /\ len'[next] = rest /\ len' \in [Pos -> Nat]
          /\ \A h \in Pos \ {at, next} : len'[h] = len[h]
      BY <1>1, <1>2, <1>3, <3>1, <3>2, <3>4 DEF HeapTypeOK
    <3>6. \A h \in heads \ {at} : len'[h] = len[h]  BY <1>6, <3>4, <3>5
    <3>7. Placed'
      <4>1. len'[End] = 0  BY <1>1, <1>3, <3>1, <3>5 DEF Placed, Pos
      <4>2. Bucket \in heads /\ given'[Bucket] = 0 /\ Bucket \in used'
        BY <1>1, <1>3, <1>4, <1>5, <1>6 DEF Placed, Tiled
      <4>3. len'[Bucket] = Hdr  BY <1>1, <1>3, <3>6, <4>2 DEF Placed
      <4>4. \A h \in heads' \ {Bucket} : len'[h] > Hdr
        BY <1>1, <1>2, <3>1, <3>2, <3>5, <3>6 DEF Placed
      <4> QED  BY <4>1, <4>2, <4>3, <4>4 DEF Placed
    <3>8. ASSUME NEW h \in heads'
          PROVE  /\ len'[h] >= Hdr /\ h + len'[h] \in heads' \cup {End}
                 /\ \A g \in heads' : g > h => g >= h + len'[h]
      <4>1. CASE h = next
        <5>1. h + len'[h] = at + len[at] /\ len'[h] >= Hdr  BY <4>1, <3>1, <3>5
        <5>2. ASSUME NEW g \in heads', g > h PROVE g >= at + len[at]
          <6>1. g \in heads /\ g \in Nat  BY <1>1, <3>1, <3>2, <4>1, <5>2, BlockBounds
          <6>2. g > at  BY <6>1, <5>2, <4>1, <3>1, <1>3
          <6> QED  BY <6>1, <6>2, <3>3
        <5>3. h + len'[h] \in heads' \cup {End}  BY <5>1, <1>3, <3>2
        <5>4. \A g \in heads' : g > h => g >= h + len'[h]  BY <5>1, <5>2
        <5> QED  BY <5>1, <5>3, <5>4
      <4>2. CASE h = at
        <5>1. h + len'[h] = next /\ len'[h] >= Hdr  BY <4>2, <1>2, <3>1, <3>5 DEF next
        <5>2. ASSUME NEW g \in heads', g > h PROVE g >= next
          BY <5>2, <4>2, <1>1, <1>3, <3>1, <3>2, <3>3, BlockBounds
        <5> QED  BY <5>1, <5>2, <3>2
      <4>3. CASE h \in heads \ {at}
        <5>1. h \in Nat /\ len[h] \in Nat /\ len[h] >= Hdr /\ len'[h] = len[h]
              /\ h + len[h] \in heads \cup {End}
          BY <4>3, <1>1, <3>6, BlockBounds
        <5>2. ASSUME NEW g \in heads, g > h PROVE g >= h + len[h]
          BY <5>2, <4>3, <1>1 DEF Tiled
        <5>3. next > h => next >= h + len[h]
          <6>1. h > at => h >= at + len[at]  BY <4>3, <3>3
          <6>2. h < at => at >= h + len[h]  BY <5>2, <1>2
          <6> QED  BY <6>1, <6>2, <5>1, <4>3, <3>1, <1>3
        <5>4. h + len'[h] \in heads' \cup {End}  BY <5>1, <3>2
        <5>5. \A g \in heads' : g > h => g >= h + len'[h]
          BY <5>1, <5>2, <5>3, <3>2
        <5> QED  BY <5>1, <5>4, <5>5
      <4> QED  BY <4>1, <4>2, <4>3, <3>2
    <3>9. Tiled'  BY <3>2, <3>8, <1>1 DEF Tiled, BigBlk
    <3>10. heads' \subseteq 0 .. End - 1  BY <1>1, <3>1, <3>2 DEF HeapTypeOK
    <3>11. at + Taken \in heads' \cup {End} /\ Taken \in Nat /\ Taken <= len[at]
      BY <1>2, <1>3, <3>1, <3>2 DEF next
    <3>12. /\ len'[at] >= size /\ heads \subseteq heads'
           /\ \A h \in heads' \ heads : h = at + Taken
      BY <1>2, <3>1, <3>2, <3>5 DEF next
    <3> QED  BY <3>5, <3>6, <3>7, <3>9, <3>10, <3>11, <3>12
  <2>2. CASE ~ Splits
    <3>1. heads' = heads /\ len' = len /\ Taken = len[at]  BY <2>2 DEF Takes, Taken
    <3>2. Tiled'  BY <1>1, <3>1 DEF Tiled, BigBlk
    <3>3. Placed'
      <4>1. Bucket \in Pos  BY <1>1, <1>6 DEF Tiled
      <4> QED  BY <1>1, <1>3, <1>4, <1>5, <3>1, <4>1 DEF Placed
    <3>4. len' \in [Pos -> Nat] /\ heads' \subseteq 0 .. End - 1  BY <1>1, <3>1 DEF HeapTypeOK
    <3>5. /\ len'[at] >= size /\ (\A h \in heads \ {at} : len'[h] = len[h])
          /\ heads \subseteq heads' /\ \A h \in heads' \ heads : h = at + Taken
      BY <1>2, <3>1
    <3>6. at + Taken \in heads' \cup {End} /\ Taken \in Nat /\ Taken <= len[at]
      BY <1>3, <3>1
    <3> QED  BY <3>2, <3>3, <3>4, <3>5, <3>6
  <2> QED  BY <2>1, <2>2
<1>8. GivenKept'
  <2> SUFFICES ASSUME NEW h \in Pos, given'[h] # 0 PROVE h \in used' /\ len'[h] >= given'[h]
    BY DEF GivenKept
  <2>1. CASE h = at  BY <2>1, <1>4, <1>5, <1>7
  <2>2. CASE h # at
    <3>1. given'[h] = given[h]  BY <2>2, <1>5
    <3>2. h \in used /\ len[h] >= given[h]  BY <3>1, <1>1 DEF GivenKept
    <3>3. len'[h] = len[h]  BY <2>2, <3>2, <1>1, <1>7 DEF HeapTypeOK
    <3> QED  BY <3>1, <3>2, <3>3, <1>4
  <2> QED  BY <2>1, <2>2
<1>9. \A h \in heads' \ used' : h \in Nat /\ (h \in heads \ used \/ h = at + Taken) /\ h # at
  BY <1>4, <1>7
<1>10. \A h \in heads \ used : h > at => h >= at + Taken
  BY <1>1, <1>2, <1>3, <1>7, BlockBounds DEF Tiled
<1>11. FirstFree' /\ ff1' \in heads' \cup {End}
  <2>1. ff1 <= at /\ ff1 \in Nat  BY <1>1, <1>2 DEF FirstFree, HeapTypeOK
  <2>2. \A h \in heads' \ used' : ff1 <= h
    BY <1>1, <1>3, <1>7, <1>9, <2>1 DEF FirstFree
  <2>3. CASE kicked = "yes" /\ ff1 = at
    <3>1. ff1' = at + Taken  BY <2>3, <1>4
    <3>2. \A h \in heads' \ used' : at + Taken <= h
      BY <2>2, <2>3, <1>3, <1>7, <1>9, <1>10
    <3> QED  BY <3>1, <3>2, <1>7 DEF FirstFree
  <2>4. CASE ~ (kicked = "yes" /\ ff1 = at)
    <3>1. ff1' = ff1  BY <2>4, <1>4
    <3> QED  BY <3>1, <2>2, <1>1, <1>7 DEF FirstFree, HeapTypeOK
  <2> QED  BY <2>3, <2>4
<1>12. HeapTypeOK'
  <2>1. used' \subseteq heads'  BY <1>1, <1>2, <1>4, <1>7 DEF HeapTypeOK
  <2>2. /\ step' \in {"idle", "loop", "take", "kick", "null", "halted"} /\ size' \in Nat
        /\ start' \in Nat /\ at' \in Pos /\ prev' \in Pos \cup {None}
    BY <1>1, <1>4 DEF HeapTypeOK, Returns, searchVars, Pos
  <2> QED  BY <2>1, <2>2, <1>1, <1>4, <1>5, <1>7, <1>11 DEF HeapTypeOK
<1>13. Searching'  BY <1>4 DEF Searching, Returns
<1>14. Kicking'
  <2>1. kicked # "yes" => ff1 = 0 /\ ff1' = 0  BY <1>1, <1>4 DEF Kicking
  <2>2. ASSUME kicked = "now"
        PROVE  /\ size' = Hdr + 1 /\ start' = 0 /\ step' = "kick" /\ at \in used' /\ given'[at] # 0
               /\ at' = at /\ \A h \in heads' \ used' : at <= h
    <3>1. size = Hdr + 1 /\ start = 0  BY <2>2, <1>1 DEF Kicking
    <3>2. \A h \in heads \ used : at <= h
      <4> TAKE h \in heads \ used
      <4>1. h \in Nat /\ len[h] > Hdr /\ len[h] \in Nat
        BY <1>1, BlockBounds DEF Placed
      <4>2. h < at => len[h] < size  BY <4>1, <3>1, <1>2
      <4> QED  BY <4>1, <4>2, <3>1, <1>3
    <3>3. at <= at + Taken  BY <1>3, <1>7
    <3> QED  BY <2>2, <3>1, <3>2, <3>3, <1>2, <1>4, <1>5, <1>9 DEF searchVars
  <2>3. kicked # "now" => step' = "idle" /\ kicked' # "now"  BY <1>4 DEF Returns
  <2> QED  BY <2>1, <2>2, <2>3, <1>4 DEF Kicking
<1> QED  BY <1>2, <1>1, <1>7, <1>8, <1>11, <1>12, <1>13, <1>14 DEF HeapInv

(* osal_mem_free, and osal_mem_kick's return, which frees what it was given. *)
LEMMA FreeStep ==
  ASSUME HeapInv, (\E h \in heads : Free(h)) \/ KickEnds
  PROVE  /\ HeapInv' /\ \E h \in heads : given[h] # 0 /\ given' = [given EXCEPT ![h] = 0]
<1> USE SizesAssumption DEF SizesAssumption, None
<1>1. HeapTypeOK /\ Tiled /\ Placed /\ GivenKept /\ FirstFree /\ Searching /\ Kicking  BY DEF HeapInv
<1>2. PICK h \in heads :
        /\ given[h] # 0 /\ used' = used \ {h} /\ given' = [given EXCEPT ![h] = 0]
        /\ heads' = heads /\ len' = len
        /\ \/ Free(h)
           \/ h = at /\ KickEnds
  <2>1. ASSUME NEW h \in heads, Free(h)
        PROVE  /\ given[h] # 0 /\ used' = used \ {h} /\ given' = [given EXCEPT ![h] = 0]
               /\ heads' = heads /\ len' = len
    BY <2>1 DEF Free
  <2>2. ASSUME KickEnds
        PROVE  /\ at \in heads /\ given[at] # 0 /\ used' = used \ {at}
               /\ given' = [given EXCEPT ![at] = 0] /\ heads' = heads /\ len' = len
    BY <2>2, <1>1 DEF KickEnds, Kicking, HeapTypeOK
  <2> QED  BY <2>1, <2>2
<1>3. h \in Pos /\ h \in Nat /\ h \in used /\ h # Bucket
  BY <1>1, <1>2, BlockBounds DEF GivenKept, Placed
<1>4. /\ given'[h] = 0 /\ (\A g \in Pos \ {h} : given'[g] = given[g]) /\ given' \in [Pos -> Nat]
  BY <1>1, <1>2, <1>3 DEF HeapTypeOK
<1>5. heads \subseteq Pos /\ used' \subseteq heads'  BY <1>1, <1>2 DEF HeapTypeOK, Pos
<1>6. Tiled'  BY <1>1, <1>2 DEF Tiled, BigBlk
<1>7. Placed'
  <2>1. Bucket \in heads  BY <1>1 DEF Tiled
  <2> QED  BY <1>1, <1>2, <1>3, <1>4, <1>5, <2>1 DEF Placed
<1>8. GivenKept'
  <2> SUFFICES ASSUME NEW g \in Pos, given'[g] # 0 PROVE g \in used' /\ len'[g] >= given'[g]
    BY DEF GivenKept
  <2>1. g # h /\ given'[g] = given[g]  BY <1>4
  <2> QED  BY <2>1, <1>1, <1>2 DEF GivenKept
<1>9. CASE Free(h)
  <2>1. /\ UNCHANGED <<heads, len, kicked, step, size, start, at, prev>> /\ step = "idle"
        /\ ff1' = IF ff1 > h THEN h ELSE ff1
    BY <1>9 DEF Free, searchVars
  <2>2. ff1' \in heads \cup {End} /\ ff1' <= h /\ ff1' <= ff1 /\ ff1 \in Nat /\ ff1' \in Nat
    BY <1>1, <1>3, <2>1, <1>2 DEF HeapTypeOK
  <2>3. FirstFree'
    BY <1>1, <1>2, <1>5, <2>2, BlockBounds DEF FirstFree
  <2>4. HeapTypeOK'  BY <1>1, <1>2, <1>4, <1>5, <2>1, <2>2 DEF HeapTypeOK
  <2>5. Searching'  BY <2>1 DEF Searching
  <2>6. Kicking'
    <3>1. kicked' # "yes" => ff1' = 0  BY <1>1, <1>3, <2>1 DEF Kicking
    <3> QED  BY <3>1, <1>1, <2>1 DEF Kicking
  <2> QED  BY <1>2, <1>6, <1>7, <1>8, <2>3, <2>4, <2>5, <2>6 DEF HeapInv
<1>10. CASE h = at /\ KickEnds
  <2>1. /\ step = "kick" /\ ff1' = h /\ kicked' = "yes" /\ Returns  BY <1>10 DEF KickEnds
  <2>2. FirstFree'
    <3>1. \A g \in heads \ used : h <= g  BY <1>1, <1>10, <2>1 DEF Kicking
    <3>2. h <= h  BY <1>3
    <3>3. \A g \in heads \ used' : h <= g  BY <1>2, <3>1, <3>2
    <3> QED  BY <1>2, <2>1, <3>3 DEF FirstFree
  <2>3. HeapTypeOK'  BY <1>1, <1>2, <1>4, <1>5, <2>1 DEF HeapTypeOK, Returns, Pos
  <2>4. Searching' /\ Kicking'  BY <2>1 DEF Searching, Kicking, Returns
  <2> QED  BY <1>2, <1>6, <1>7, <1>8, <2>2, <2>3, <2>4 DEF HeapInv
<1> QED  BY <1>2, <1>9, <1>10

(* Every step keeps the heap in order. *)
LEMMA NextHeapInv == HeapInv /\ [HeapNext]_memVars => HeapInv'
<1> SUFFICES ASSUME HeapInv, [HeapNext]_memVars PROVE HeapInv'  OBVIOUS
<1>1. CASE UNCHANGED memVars
  BY <1>1 DEF memVars, HeapInv, HeapTypeOK, Tiled, Placed, GivenKept, FirstFree, Searching, Behind, Kicking
<1>2. CASE HeapNext
  BY <1>2, StartStep, SkipStep, FitStep, JoinStep, TakeStep, FailStep, FreeStep
     DEF HeapNext, Call, Search
<1> QED  BY <1>1, <1>2

LEMMA SpecHeapInv == HeapSpec => []HeapInv
BY InitHeapInv, NextHeapInv, PTL DEF HeapSpec

--------------------------------------------------------------------------------
(* The variables of the heap keep their types, and ff1 is always the place of a block
   or of the end. *)
THEOREM HeapTypeCorrect == HeapSpec => []HeapTypeOK
<1>1. HeapInv => HeapTypeOK  BY DEF HeapInv
<1> QED  BY <1>1, SpecHeapInv, PTL

(* The blocks tile the heap after any sequence of splits, joins and frees; what was
   handed out is neither joined nor cut until it is freed, and ff1 is never past a
   free block. *)
THEOREM HeapIsSound == HeapSpec => []HeapSound
<1>1. HeapInv => HeapSound  BY DEF HeapInv, HeapSound
<1> QED  BY <1>1, SpecHeapInv, PTL

(* A request that returns null has seen every free block and joined all it could. *)
THEOREM FailsJustly == HeapSpec => []FailsOnlyWhenFull
<1>1. HeapInv => FailsOnlyWhenFull
  <2> SUFFICES ASSUME HeapInv, step = "null", NEW h \in heads \ used, h >= start
               PROVE  len[h] < size /\ h + len[h] \in used \cup {End}
    BY DEF FailsOnlyWhenFull
  <2>1. HeapTypeOK /\ Tiled /\ Searching  BY DEF HeapInv
  <2>2. h \in Nat /\ h < End /\ at = End /\ start \in Nat
    BY <2>1, BlockBounds DEF Searching, HeapTypeOK
  <2>3. Behind(h)  BY <2>1, <2>2 DEF Searching
  <2>4. h = prev => h + len[h] = End
    <3>1. h \in Nat => h # None  BY DEF None
    <3> QED  BY <2>1, <2>2, <3>1 DEF Searching
  <2> QED  BY <2>3, <2>4 DEF Behind
<1> QED  BY <1>1, SpecHeapInv, PTL

--------------------------------------------------------------------------------
(* What is taken lies apart from all that was handed out before. *)
LEMMA TakeGives == HeapInv /\ Takes => Heap!AllocatorNext
<1> SUFFICES ASSUME HeapInv, Takes PROVE Heap!AllocatorNext  OBVIOUS
<1> USE SizesAssumption DEF SizesAssumption
<1>1. HeapTypeOK /\ Tiled /\ Placed /\ GivenKept  BY DEF HeapInv
<1>2. at \in heads \ used /\ len[at] >= size /\ size > Hdr /\ size \in Nat
  BY <1>1, TakeStep DEF HeapTypeOK
<1>3. /\ at \in Nat /\ len[at] \in Nat /\ at + len[at] <= End /\ at \in Pos /\ given[at] = 0
  BY <1>1, <1>2, BlockBounds DEF GivenKept
<1>4. given' = [given EXCEPT ![at] = size]  BY DEF Takes
<1>5. at + size <= End /\ size \in 1 .. End  BY <1>2, <1>3
<1>6. ASSUME NEW g \in Pos, given[g] # 0
      PROVE  at + size <= g \/ g + given[g] <= at
  <2>1. g \in used /\ len[g] >= given[g] /\ given[g] \in Nat
    BY <1>1, <1>6 DEF GivenKept, HeapTypeOK
  <2>2. g \in heads /\ g # at /\ g \in Nat /\ len[g] \in Nat
    BY <1>1, <1>2, <2>1, BlockBounds DEF HeapTypeOK
  <2>3. g > at => g >= at + len[at]  BY <1>1, <1>2, <2>2 DEF Tiled
  <2>4. g < at => at >= g + len[g]  BY <1>1, <1>2, <2>2 DEF Tiled
  <2> QED  BY <1>2, <1>3, <2>1, <2>2, <2>3, <2>4
<1>7. Heap!Give(at, size)
  BY <1>3, <1>4, <1>5, <1>6 DEF Heap!Give, Heap!Apart, Heap!Addresses, Pos
<1> QED  BY <1>3, <1>5, <1>7 DEF Heap!AllocatorNext, Heap!Addresses, Pos

(* For every size of the heap it is the allocator its callers rely on: what is handed
   out overlaps nothing that is still handed out, and only freeing takes it back. *)
THEOREM HeapIsAllocator == HeapSpec => ImplementsAllocator
<1>1. HeapInit => Heap!AllocatorInit
  BY DEF HeapInit, Heap!AllocatorInit, Heap!Addresses, Pos
<1>2. HeapInv /\ [HeapNext]_memVars => [Heap!AllocatorNext]_given
  <2> SUFFICES ASSUME HeapInv, HeapNext, given' # given PROVE Heap!AllocatorNext
    BY DEF memVars
  <2>1. CASE Takes  BY <2>1, TakeGives
  <2>2. CASE (\E h \in heads : Free(h)) \/ KickEnds
    <3>1. PICK h \in heads : given[h] # 0 /\ given' = [given EXCEPT ![h] = 0]
      BY <2>2, FreeStep
    <3>2. h \in Pos  BY <3>1 DEF HeapInv, HeapTypeOK, Pos
    <3> QED
      BY <3>1, <3>2 DEF Heap!AllocatorNext, Heap!Release, Heap!Addresses, Pos
  <2>3. CASE (\E request \in Requests : Alloc(request)) \/ Kick \/ Search \/ Fails
    BY <2>3 DEF Alloc, Kick, Starts, Search, SkipsUsed, SkipsSmall, Joins, Fits, FitsJoined,
       Goes, Fails, heapVars
  <2> QED  BY <2>1, <2>2, <2>3 DEF HeapNext, Call
<1> QED  BY <1>1, <1>2, SpecHeapInv, PTL DEF HeapSpec, ImplementsAllocator, Heap!AllocatorSpec
================================================================================
