---------------------------- MODULE TasksProofs -----------------------------
(***************************************************************************)
(* Theorems about module Tasks, for any tasks, queries and calling         *)
(* threads: the order in which the game thread runs what was pushed at the *)
(* back, and that the two threads that pop the list of queries run each    *)
(* query once.  The second is an invariant of module DatabaseTasks with    *)
(* the steps the game thread lets it take.                                 *)
(***************************************************************************)
EXTENDS Tasks, FiniteSetTheorems, SequenceTheorems, TLAPS

States == {"RUNNING", "CLOSING", "TERMINATED"}
AnyTask == Tasks \cup {LastTask}

\* Lists without an element twice, and their elements.
Mem(s) == {s[i] : i \in 1..Len(s)}
Once(s) == \A i, j \in 1..Len(s) : s[i] = s[j] => i = j

\* Two that were pushed at the back, in the order they were pushed in.
Ordered(b, t, u) ==
  t \in Mem(b) /\ u \in Mem(b) => \E k, l \in 1..Len(b) : k < l /\ b[k] = t /\ b[l] = u
Sorted(b, s) == \A i, j \in 1..Len(s) : i < j => Ordered(b, s[i], s[j])

\* What was pushed at the back and has not run is before what is behind it, also
\* while the thread holds it between the pop and the run.
InOrder ==
  /\ Sorted(back, ran) /\ Sorted(back, taskList)
  /\ \A t \in Mem(ran), u \in Mem(taskList) : Ordered(back, t, u)
  /\ pc = "taken" =>
       /\ \A t \in Mem(ran) : Ordered(back, t, current)
       /\ \A u \in Mem(taskList) : Ordered(back, current, u)

DispatcherInv ==
  /\ TypeOK
  /\ Mem(back) \subseteq Known
  /\ pc = "running" => current \in Mem(ran)
  /\ InOrder

\* The queries: where each is, which is one place.
DbTypeOK ==
  /\ dbState \in States
  /\ dbTasks \in Seq(Queries) /\ done \in Seq(Queries) /\ accepted \in Seq(Queries)
  /\ dbRunning \in Queries \cup {NoTask} /\ flushing \in Queries \cup {NoTask}
  /\ refused \subseteq Queries
  /\ dbPc = "run" <=> dbRunning # NoTask

OnePlace ==
  /\ Once(dbTasks) /\ Once(done) /\ Mem(dbTasks) \cap Mem(done) = {}
  /\ {dbRunning, flushing} \cap (Mem(dbTasks) \cup Mem(done)) = {}
  /\ dbRunning = flushing => dbRunning = NoTask

Found ==
  /\ Mem(accepted) = Mem(dbTasks) \cup ({dbRunning, flushing} \ {NoTask}) \cup Mem(done)
  /\ Len(accepted) = Len(dbTasks) + Cardinality({dbRunning, flushing} \ {NoTask}) + Len(done)

DbInv == DbTypeOK /\ OnePlace /\ Found
-----------------------------------------------------------------------------
(* Lists.                                                                  *)

\* Nothing is on the empty list.
LEMMA EmptyList == Len(<<>>) = 0 /\ Mem(<<>>) = {} /\ Once(<<>>) /\ \A b : Sorted(b, <<>>)
<1>1. Len(<<>>) = 0
  BY EmptySeq
<1> QED
  BY <1>1 DEF Mem, Once, Sorted

\* The elements of a list, by its domain or by its length.
LEMMA Domains == \A S : \A s \in Seq(S) : {s[i] : i \in DOMAIN s} = Mem(s)
BY LenProperties DEF Mem

\* A list with an element added at the end,
LEMMA Appended ==
  ASSUME NEW S, NEW s \in Seq(S), NEW x \in S
  PROVE  /\ Append(s, x) \in Seq(S) /\ Len(Append(s, x)) = Len(s) + 1 /\ Len(s) \in Nat
         /\ Mem(Append(s, x)) = Mem(s) \cup {x}
         /\ Once(s) /\ x \notin Mem(s) => Once(Append(s, x))
         /\ \A b : Sorted(b, s) /\ (\A y \in Mem(s) : Ordered(b, y, x)) => Sorted(b, Append(s, x))
<1> DEFINE t == Append(s, x)
           n == Len(s)
<1>1. /\ t \in Seq(S) /\ Len(t) = n + 1 /\ n \in Nat
      /\ \A i \in 1..n : t[i] = s[i] /\ s[i] \in S
      /\ t[n + 1] = x
  OBVIOUS
<1>2. 1..(n + 1) = (1..n) \cup {n + 1}
  BY <1>1
<1> HIDE DEF t
<1>3. Mem(t) = Mem(s) \cup {x}
  BY <1>1, <1>2 DEF Mem
<1>4. Once(s) /\ x \notin Mem(s) => Once(t)
  BY <1>1, <1>2 DEF Mem, Once
<1>5. ASSUME NEW b, Sorted(b, s), \A y \in Mem(s) : Ordered(b, y, x) PROVE Sorted(b, t)
  <2> SUFFICES ASSUME NEW i \in 1..(n + 1), NEW j \in 1..(n + 1), i < j PROVE Ordered(b, t[i], t[j])
    BY <1>1 DEF Sorted
  <2>1. i \in 1..n /\ t[i] = s[i] /\ s[i] \in Mem(s)
    BY <1>1 DEF Mem
  <2>2. CASE j = n + 1
    BY <1>1, <1>5, <2>1, <2>2
  <2>3. CASE j # n + 1
    BY <1>1, <1>2, <1>5, <2>1, <2>3 DEF Sorted
  <2> QED
    BY <2>2, <2>3
<1> QED
  BY <1>1, <1>3, <1>4, <1>5 DEF t

\* in front,
LEMMA Prepended ==
  ASSUME NEW S, NEW s \in Seq(S), NEW x \in S
  PROVE  /\ <<x>> \o s \in Seq(S) /\ Mem(<<x>> \o s) = Mem(s) \cup {x}
         /\ \A b : Sorted(b, s) /\ (\A y \in Mem(s) : Ordered(b, x, y)) => Sorted(b, <<x>> \o s)
<1> DEFINE t == <<x>> \o s
           n == Len(s)
<1>1. <<x>> \in Seq(S) /\ Len(<<x>>) = 1 /\ <<x>>[1] = x /\ n \in Nat
  OBVIOUS
<1>2. /\ t \in Seq(S) /\ Len(t) = 1 + n
      /\ \A i \in 1..(1 + n) : t[i] = IF i <= 1 THEN <<x>>[i] ELSE s[i - 1]
  BY <1>1, ConcatProperties
<1>3. /\ t[1] = x
      /\ \A i \in 1..n : t[i + 1] = s[i]
      /\ \A i \in 1..(1 + n) : i = 1 \/ (i - 1 \in 1..n /\ t[i] = s[i - 1])
  BY <1>1, <1>2
<1> HIDE DEF t, n
<1>4. Mem(t) = Mem(s) \cup {x}
  <2>1. ASSUME NEW q \in Mem(t) PROVE q \in Mem(s) \cup {x}
    BY <1>2, <1>3, <2>1 DEF Mem, n
  <2>2. ASSUME NEW q \in Mem(s) PROVE q \in Mem(t)
    <3>1. PICK i \in 1..n : q = s[i]
      BY <2>2 DEF Mem, n
    <3>2. i + 1 \in 1..(1 + n) /\ q = t[i + 1]
      BY <1>1, <1>3, <3>1
    <3> QED
      BY <1>2, <3>2 DEF Mem
  <2>3. x \in Mem(t)
    BY <1>1, <1>2, <1>3 DEF Mem
  <2> QED
    BY <2>1, <2>2, <2>3
<1>5. ASSUME NEW b, Sorted(b, s), \A y \in Mem(s) : Ordered(b, x, y) PROVE Sorted(b, t)
  <2> SUFFICES ASSUME NEW i \in 1..(1 + n), NEW j \in 1..(1 + n), i < j PROVE Ordered(b, t[i], t[j])
    BY <1>2 DEF Sorted
  <2>1. j - 1 \in 1..n /\ t[j] = s[j - 1] /\ s[j - 1] \in Mem(s)
    <3>1. j # 1
      BY <1>1
    <3> QED
      BY <1>3, <3>1 DEF Mem, n
  <2>2. CASE i = 1
    BY <1>3, <1>5, <2>1, <2>2
  <2>3. CASE i # 1
    <3>1. i - 1 \in 1..n /\ t[i] = s[i - 1] /\ i - 1 < j - 1
      BY <1>1, <1>3, <2>3
    <3> QED
      BY <1>5, <2>1, <3>1 DEF Sorted, n
  <2> QED
    BY <2>2, <2>3
<1> QED
  BY <1>2, <1>4, <1>5 DEF t

\* and the list without its first element.
LEMMA HeadAndTail ==
  ASSUME NEW S, NEW s \in Seq(S), s # <<>>
  PROVE  /\ Head(s) \in S /\ Tail(s) \in Seq(S) /\ Len(s) = Len(Tail(s)) + 1 /\ Len(Tail(s)) \in Nat
         /\ Mem(s) = Mem(Tail(s)) \cup {Head(s)}
         /\ Once(s) => Once(Tail(s)) /\ Head(s) \notin Mem(Tail(s))
         /\ \A b : Sorted(b, s) => Sorted(b, Tail(s)) /\ \A y \in Mem(Tail(s)) : Ordered(b, Head(s), y)
<1> DEFINE t == Tail(s)
           n == Len(t)
           x == Head(s)
<1>1. /\ x \in S /\ t \in Seq(S) /\ n = Len(s) - 1 /\ Len(s) \in Nat \ {0} /\ x = s[1]
      /\ \A i \in 1..n : t[i] = s[i + 1]
  BY HeadTailProperties, EmptySeq
<1>2. n \in Nat /\ Len(s) = n + 1
  BY <1>1
<1> HIDE DEF t, n, x
<1>3. \A i \in 1..(n + 1) : i = 1 \/ (i - 1 \in 1..n /\ s[i] = t[i - 1])
  <2> SUFFICES ASSUME NEW i \in 1..(n + 1), i # 1 PROVE i - 1 \in 1..n /\ s[i] = t[i - 1]
    OBVIOUS
  <2>1. i - 1 \in 1..n /\ (i - 1) + 1 = i
    BY <1>2
  <2> QED
    BY <1>1, <2>1
<1>4. \A i \in 1..n : i + 1 \in 1..(n + 1) /\ i + 1 # 1
  BY <1>2
<1>5. Mem(s) = Mem(t) \cup {x}
  <2>1. ASSUME NEW q \in Mem(s) PROVE q \in Mem(t) \cup {x}
    BY <1>1, <1>2, <1>3, <2>1 DEF Mem, n
  <2>2. ASSUME NEW q \in Mem(t) PROVE q \in Mem(s)
    BY <1>1, <1>2, <1>4, <2>2 DEF Mem, n
  <2>3. x \in Mem(s)
    BY <1>1 DEF Mem
  <2> QED
    BY <2>1, <2>2, <2>3
<1>6. ASSUME Once(s) PROVE Once(t) /\ x \notin Mem(t)
  <2>1. ASSUME NEW i \in 1..n, NEW j \in 1..n, t[i] = t[j] PROVE i = j
    <3>1. i + 1 = j + 1
      BY <1>1, <1>2, <1>4, <1>6, <2>1 DEF Once
    <3> QED
      BY <1>2, <3>1
  <2>2. ASSUME NEW i \in 1..n PROVE t[i] # x
    <3>1. 1 \in 1..Len(s) /\ i + 1 \in 1..Len(s) /\ i + 1 # 1
      BY <1>2, <1>4
    <3> QED
      BY <1>1, <1>6, <3>1 DEF Once
  <2> QED
    BY <2>1, <2>2 DEF Once, Mem, n
<1>7. ASSUME NEW b, Sorted(b, s) PROVE Sorted(b, t) /\ \A y \in Mem(t) : Ordered(b, x, y)
  <2>1. ASSUME NEW i \in 1..n, NEW j \in 1..n, i < j PROVE Ordered(b, t[i], t[j])
    <3>1. i + 1 < j + 1
      BY <2>1
    <3> QED
      BY <1>1, <1>2, <1>4, <1>7, <3>1 DEF Sorted
  <2>2. ASSUME NEW i \in 1..n PROVE Ordered(b, x, t[i])
    <3>1. 1 \in 1..Len(s) /\ i + 1 \in 1..Len(s) /\ 1 < i + 1
      BY <1>2, <1>4
    <3> QED
      BY <1>1, <1>7, <3>1 DEF Sorted
  <2> QED
    BY <2>1, <2>2 DEF Sorted, Mem, n
<1> QED
  BY <1>1, <1>2, <1>5, <1>6, <1>7 DEF t, x, n

\* A task pushed at the back comes after all that were pushed before it.
LEMMA PushedLast ==
  ASSUME NEW S, NEW b \in Seq(S), NEW x \in S, x \notin Mem(b)
  PROVE  /\ \A t, u : u # x /\ Ordered(b, t, u) /\ t # x => Ordered(Append(b, x), t, u)
         /\ \A t : t # x => Ordered(Append(b, x), t, x)
<1> DEFINE c == Append(b, x)
           n == Len(b)
<1>1. /\ Len(c) = n + 1 /\ n \in Nat
      /\ \A i \in 1..n : c[i] = b[i]
      /\ c[n + 1] = x
  OBVIOUS
<1>2. \A i \in 1..n : i \in 1..(n + 1) /\ i < n + 1
  BY <1>1
<1>3. Mem(c) = Mem(b) \cup {x}
  BY Appended
<1> HIDE DEF c, n
<1>4. ASSUME NEW t, NEW u, t # x, u # x, Ordered(b, t, u) PROVE Ordered(c, t, u)
  <2> SUFFICES ASSUME t \in Mem(b), u \in Mem(b)
               PROVE  \E k, l \in 1..Len(c) : k < l /\ c[k] = t /\ c[l] = u
    BY <1>3, <1>4 DEF Ordered
  <2>1. PICK k \in 1..n, l \in 1..n : k < l /\ b[k] = t /\ b[l] = u
    BY <1>4 DEF Ordered, n
  <2> QED
    BY <1>1, <1>2, <2>1
<1>5. ASSUME NEW t, t # x PROVE Ordered(c, t, x)
  <2> SUFFICES ASSUME t \in Mem(b)
               PROVE  \E k, l \in 1..Len(c) : k < l /\ c[k] = t /\ c[l] = x
    BY <1>3, <1>5 DEF Ordered
  <2>1. PICK k \in 1..n : b[k] = t
    BY DEF Mem, n
  <2>2. n + 1 \in 1..(n + 1)
    BY <1>1
  <2> QED
    BY <1>1, <1>2, <2>1, <2>2
<1> QED
  BY <1>4, <1>5 DEF c
-----------------------------------------------------------------------------
(* The game thread.                                                        *)

\* The steps of module Dispatcher, from any thread that calls it.
DispatcherStep ==
  \/ \E c \in Callers, t \in Tasks, front \in BOOLEAN : AddTask(c, t, front)
  \/ \E c \in Callers, t \in Tasks : RefuseTask(c, t)
  \/ \E c \in Callers : Notify(c) \/ Shutdown(c)
  \/ \E t \in Timed : Expire(t)
  \/ Stop \/ SpuriousWakeup \/ TestState \/ Wait \/ Take \/ NothingToTake
  \/ SkipExpired \/ Execute \/ Return

\* The tasks the dispatcher knows, with the lists written as Mem writes them.
LEMMA KnownIs == TypeOK => Known = Mem(taskList) \cup Mem(ran) \cup deleted \cup {current}
BY Domains DEF TypeOK, Known, Queued, Executed

\* A task that is none of the known ones was never pushed at the back, and
\* neither was the last task.
LEMMA NewTasks ==
  ASSUME DispatcherInv
  PROVE  /\ \A t : t \notin Known => t \notin Mem(back)
         /\ LastTask \notin Mem(back)
<1>1. Mem(back) \subseteq Tasks
  BY LenProperties DEF DispatcherInv, TypeOK, Mem
<1> QED
  BY <1>1, DispatcherAssumption DEF DispatcherInv

\* Dispatcher::addTask, at the back or in front, keeps the invariant.
LEMMA AddTaskKeeps ==
  ASSUME DispatcherInv, NEW c \in Callers, NEW t \in Tasks, NEW front \in BOOLEAN,
         AddTask(c, t, front)
  PROVE  DispatcherInv'
<1>1. /\ TypeOK /\ InOrder /\ Mem(back) \subseteq Known
      /\ pc = "running" => current \in Mem(ran)
      /\ t \notin Known /\ t # current
      /\ taskList \in Seq(AnyTask) /\ back \in Seq(Tasks) /\ ran \in Seq(AnyTask) /\ t \in AnyTask
      /\ taskList' = (IF front THEN <<t>> \o taskList ELSE Append(taskList, t))
      /\ back' = IF front THEN back ELSE Append(back, t)
      /\ pc' = pc /\ current' = current /\ ran' = ran /\ deleted' = deleted
      /\ threadState' = threadState /\ expired' = expired
  BY DEF DispatcherInv, TypeOK, AddTask, Push, mainVars, AnyTask, Known
<1>2. t \notin Mem(back) /\ t \notin Mem(ran) /\ t \notin Mem(taskList)
  BY <1>1, KnownIs, NewTasks
<1>3. Mem(taskList') = Mem(taskList) \cup {t} /\ taskList' \in Seq(AnyTask)
  <2>1. CASE front
    BY <1>1, <2>1, Prepended
  <2>2. CASE ~front
    BY <1>1, <2>2, Appended
  <2> QED
    BY <2>1, <2>2
<1>4. Mem(back') \subseteq Mem(back) \cup {t} /\ back' \in Seq(Tasks)
  BY <1>1, Appended
<1>5. TypeOK'
  <2>1. call' \in [Callers -> {"idle", "notify"}]
    BY <1>1 DEF AddTask, TypeOK
  <2> QED
    BY <1>1, <1>3, <1>4, <2>1 DEF TypeOK, AnyTask
<1>6. (Mem(back) \subseteq Known)'
  <2>1. Known' = Known \cup {t}
    <3>1. Known' = Mem(taskList') \cup Mem(ran') \cup deleted' \cup {current'}
      BY <1>5, Domains DEF TypeOK, Known, Queued, Executed
    <3> QED
      BY <1>1, <1>3, <3>1, KnownIs
  <2> QED
    BY <1>1, <1>4, <2>1
<1>7. InOrder'
  <2>1. CASE front
    <3>1. \A u : Ordered(back, t, u) /\ Ordered(back, u, t)
      BY <1>2 DEF Ordered
    <3>2. Sorted(back, taskList')
      BY <1>1, <2>1, <3>1, Prepended DEF InOrder
    <3> QED
      BY <1>1, <1>3, <2>1, <3>1, <3>2 DEF InOrder
  <2>2. CASE ~front
    <3>1. back' = Append(back, t) /\ taskList' = Append(taskList, t)
      BY <1>1, <2>2
    <3>2. /\ \A u, v : u # t /\ v # t /\ Ordered(back, u, v) => Ordered(back', u, v)
          /\ \A u : u # t => Ordered(back', u, t)
      BY <1>1, <1>2, <3>1, PushedLast
    <3>3. Sorted(back', ran) /\ Sorted(back', taskList)
      <4>1. ASSUME NEW s, s \in {ran, taskList}, NEW i \in 1..Len(s), NEW j \in 1..Len(s), i < j
            PROVE  Ordered(back', s[i], s[j])
        <5>1. s[i] \in Mem(s) /\ s[j] \in Mem(s)
          BY DEF Mem
        <5>2. Ordered(back, s[i], s[j])
          BY <1>1, <4>1 DEF InOrder, Sorted
        <5> QED
          BY <1>2, <3>2, <4>1, <5>1, <5>2
      <4> QED
        BY <4>1 DEF Sorted
    <3>4. Sorted(back', taskList')
      BY <1>1, <1>2, <3>1, <3>2, <3>3, Appended
    <3>5. \A u \in Mem(ran'), v \in Mem(taskList') : Ordered(back', u, v)
      BY <1>1, <1>2, <1>3, <3>2 DEF InOrder
    <3>6. pc = "taken" => /\ \A u \in Mem(ran) : Ordered(back', u, current)
                          /\ \A v \in Mem(taskList') : Ordered(back', current, v)
      BY <1>1, <1>2, <1>3, <3>2 DEF InOrder
    <3> QED
      BY <1>1, <3>3, <3>4, <3>5, <3>6 DEF InOrder
  <2> QED
    BY <2>1, <2>2
<1> QED
  BY <1>1, <1>5, <1>6, <1>7 DEF DispatcherInv

\* The steps that leave the lists alone.
LEMMA QuietKeeps ==
  ASSUME DispatcherInv, TypeOK',
         /\ taskList' = taskList /\ ran' = ran /\ back' = back
         /\ pc' \in {"taken", "running"} => pc' = pc /\ current' = current,
         Mem(back) \subseteq Known'
  PROVE  DispatcherInv'
BY DEF DispatcherInv, InOrder

\* So does every other step of the game thread and its callers.
LEMMA DispatcherStepKeeps ==
  ASSUME DispatcherInv, DispatcherStep
  PROVE  DispatcherInv'
<1>0. /\ TypeOK /\ InOrder /\ Mem(back) \subseteq Known
      /\ pc = "running" => current \in Mem(ran)
      /\ taskList \in Seq(AnyTask) /\ back \in Seq(Tasks) /\ ran \in Seq(AnyTask)
  BY DEF DispatcherInv, TypeOK, AnyTask
<1> DEFINE Place == Mem(taskList) \cup Mem(ran) \cup deleted \cup {current}
<1>k. TypeOK' => Known' = Place'
  BY Domains DEF TypeOK, Known, Queued, Executed
<1>l. Known = Place
  BY <1>0, KnownIs
<1>1. CASE \E c \in Callers, t \in Tasks, front \in BOOLEAN : AddTask(c, t, front)
  BY <1>1, AddTaskKeeps
<1>2. CASE \E c \in Callers, t \in Tasks : RefuseTask(c, t)
  <2>1. PICK c \in Callers, t \in Tasks : RefuseTask(c, t)
    BY <1>2
  <2>2. TypeOK'
    BY <1>0, <2>1 DEF RefuseTask, TypeOK, mainVars
  <2> QED
    BY <1>0, <1>k, <1>l, <2>1, <2>2, QuietKeeps DEF RefuseTask, mainVars
<1>3. CASE \E c \in Callers : Notify(c)
  <2>1. PICK c \in Callers : Notify(c)
    BY <1>3
  <2>2. TypeOK'
    BY <1>0, <2>1 DEF Notify, TypeOK
  <2> QED
    BY <1>0, <1>k, <1>l, <2>1, <2>2, QuietKeeps DEF Notify
<1>4. CASE \E c \in Callers : Shutdown(c)
  <2>1. PICK c \in Callers : Shutdown(c)
    BY <1>4
  <2>2. /\ taskList' = Append(taskList, LastTask) /\ LastTask \in AnyTask
        /\ pc' = IF pc = "waiting" THEN "woken" ELSE pc
        /\ current' = current /\ ran' = ran /\ back' = back /\ deleted' = deleted
    BY <2>1 DEF Shutdown, AnyTask
  <2>3. Mem(taskList') = Mem(taskList) \cup {LastTask} /\ taskList' \in Seq(AnyTask)
    BY <1>0, <2>2, Appended
  <2>4. \A u : Ordered(back, u, LastTask)
    BY NewTasks DEF Ordered
  <2>5. Sorted(back, taskList')
    BY <1>0, <2>2, <2>4, Appended DEF InOrder
  <2>6. InOrder'
    BY <1>0, <2>2, <2>3, <2>4, <2>5 DEF InOrder
  <2>7. TypeOK'
    BY <1>0, <2>1, <2>3 DEF Shutdown, TypeOK, AnyTask
  <2> QED
    BY <1>0, <1>k, <1>l, <2>2, <2>3, <2>6, <2>7 DEF DispatcherInv
<1>5. CASE \E t \in Timed : Expire(t)
  <2>1. PICK t \in Timed : Expire(t)
    BY <1>5
  <2>2. TypeOK'
    BY <1>0, <2>1 DEF Expire, TypeOK, mainVars
  <2> QED
    BY <1>0, <1>k, <1>l, <2>1, <2>2, QuietKeeps DEF Expire, mainVars
<1>6. CASE Stop
  <2>1. TypeOK'
    BY <1>0, <1>6 DEF Stop, TypeOK, mainVars
  <2> QED
    BY <1>0, <1>k, <1>l, <1>6, <2>1, QuietKeeps DEF Stop, mainVars
<1>7. CASE SpuriousWakeup \/ TestState \/ Wait \/ NothingToTake
  <2>1. /\ pc' \in {"woken", "ended", "lock", "waiting", "test"} /\ pc \in {"waiting", "test", "lock", "woken"}
        /\ UNCHANGED <<threadState, taskList, current, call, expired, ran, deleted, back>>
    BY <1>7 DEF SpuriousWakeup, TestState, Wait, NothingToTake
  <2>2. TypeOK'
    BY <1>0, <2>1 DEF TypeOK
  <2> QED
    BY <1>0, <1>k, <1>l, <2>1, <2>2, QuietKeeps
<1>8. CASE Take
  <2>1. /\ taskList # <<>> /\ current' = Head(taskList) /\ taskList' = Tail(taskList) /\ pc' = "taken"
        /\ ran' = ran /\ back' = back /\ deleted' = deleted /\ pc \in {"lock", "woken"}
    BY <1>8 DEF Take
  <2>2. /\ current' \in AnyTask /\ taskList' \in Seq(AnyTask)
        /\ Mem(taskList) = Mem(taskList') \cup {current'}
        /\ Sorted(back, taskList') /\ \A y \in Mem(taskList') : Ordered(back, current', y)
    BY <1>0, <2>1, HeadAndTail DEF InOrder
  <2>3. InOrder'
    BY <1>0, <2>1, <2>2 DEF InOrder
  <2>4. TypeOK'
    BY <1>0, <1>8, <2>1, <2>2, DispatcherAssumption DEF TypeOK, Take, AnyTask
  <2>5. current = NoTask /\ NoTask \notin Mem(back)
    <3>1. Mem(back) \subseteq Tasks
      BY <1>0, LenProperties DEF Mem
    <3> QED
      BY <1>0, <2>1, <3>1, DispatcherAssumption DEF TypeOK
  <2> QED
    BY <1>0, <1>k, <1>l, <2>1, <2>2, <2>3, <2>4, <2>5 DEF DispatcherInv
<1>9. CASE SkipExpired
  <2>1. /\ deleted' = deleted \cup {current} /\ current' = NoTask /\ pc' = "test"
        /\ taskList' = taskList /\ ran' = ran /\ back' = back
    BY <1>9 DEF SkipExpired
  <2>2. TypeOK'
    BY <1>0, <1>9, DispatcherAssumption DEF SkipExpired, HasExpired, TypeOK
  <2> QED
    BY <1>0, <1>k, <1>l, <2>1, <2>2, QuietKeeps
<1>10. CASE Execute
  <2>1. /\ pc = "taken" /\ pc' = "running" /\ ran' = Append(ran, current) /\ current' = current
        /\ taskList' = taskList /\ back' = back /\ deleted' = deleted
    BY <1>10 DEF Execute
  <2>2. current \in AnyTask
    BY <1>0, <2>1 DEF TypeOK, AnyTask
  <2>3. ran' \in Seq(AnyTask) /\ Mem(ran') = Mem(ran) \cup {current}
    BY <1>0, <2>1, <2>2, Appended
  <2>4. Sorted(back, ran')
    BY <1>0, <2>1, <2>2, Appended DEF InOrder
  <2>5. InOrder'
    BY <1>0, <2>1, <2>3, <2>4 DEF InOrder
  <2>6. TypeOK'
    BY <1>0, <1>10, <2>1, <2>3 DEF Execute, TypeOK, AnyTask
  <2> QED
    BY <1>0, <1>k, <1>l, <2>1, <2>3, <2>5, <2>6 DEF DispatcherInv
<1>11. CASE Return
  <2>1. /\ pc = "running" /\ pc' = "test" /\ current' = NoTask
        /\ taskList' = taskList /\ ran' = ran /\ back' = back /\ deleted' = deleted
    BY <1>11 DEF Return, AfterRun
  <2>2. TypeOK'
    BY <1>0, <1>11 DEF Return, AfterRun, LastState, TypeOK
  <2> QED
    BY <1>0, <1>k, <1>l, <2>1, <2>2, QuietKeeps
<1> QED
  BY <1>1, <1>2, <1>3, <1>4, <1>5, <1>6, <1>7, <1>8, <1>9, <1>10, <1>11 DEF DispatcherStep
-----------------------------------------------------------------------------
(* The database thread.                                                    *)

\* The steps of module DatabaseTasks, from its thread and from the game thread.
DbStep ==
  \/ \E q \in Queries : Db!AddTask(q) \/ Db!RefuseTask(q)
  \/ Db!Notify \/ Db!Stop \/ Db!FlushBegin \/ Db!Shutdown \/ Db!FlushEnd
  \/ Db!TestState \/ Db!Wait \/ Db!SpuriousWakeup \/ Db!NothingToTake
  \/ Db!FlushPop \/ Db!FlushRun \/ Db!Take \/ Db!RunTask

\* How many queries are in flight, when two threads do not hold the same one.
LEMMA Flying ==
  ASSUME NEW a, NEW b, a = b => a = NoTask
  PROVE  Cardinality({a, b} \ {NoTask}) = (IF a = NoTask THEN 0 ELSE 1) + (IF b = NoTask THEN 0 ELSE 1)
<1>1. Cardinality({}) = 0 /\ \A x : Cardinality({x}) = 1
  BY FS_EmptySet, FS_Singleton
<1>2. CASE a = NoTask /\ b = NoTask
  <2>1. {a, b} \ {NoTask} = {}
    BY <1>2
  <2> QED
    BY <1>1, <1>2, <2>1
<1>3. CASE a # NoTask /\ b = NoTask
  <2>1. {a, b} \ {NoTask} = {a}
    BY <1>3
  <2> QED
    BY <1>1, <1>3, <2>1
<1>4. CASE a = NoTask /\ b # NoTask
  <2>1. {a, b} \ {NoTask} = {b}
    BY <1>4
  <2> QED
    BY <1>1, <1>4, <2>1
<1>5. CASE a # NoTask /\ b # NoTask
  <2>1. {a, b} \ {NoTask} = {a} \cup {b} /\ b \notin {a} /\ IsFiniteSet({a})
    BY <1>5, FS_Singleton
  <2>2. Cardinality({a} \cup {b}) = Cardinality({a}) + 1
    BY <2>1, FS_AddElement
  <2> QED
    BY <1>1, <1>5, <2>1, <2>2
<1> QED
  BY <1>2, <1>3, <1>4, <1>5

\* Every step on the list of queries, of either thread, keeps each query in one place.
LEMMA DbStepKeeps ==
  ASSUME DbInv, DbStep
  PROVE  DbInv'
<1> DEFINE InAir == {dbRunning, flushing} \ {NoTask}
<1>0. /\ DbTypeOK /\ OnePlace /\ Found /\ NoTask \notin Queries
      /\ Len(dbTasks) \in Nat /\ Len(done) \in Nat
      /\ Mem(dbTasks) \subseteq Queries /\ Mem(done) \subseteq Queries
  BY TasksAssumption, LenProperties DEF DbInv, DbTypeOK, Mem
<1>f. Cardinality(InAir) = (IF dbRunning = NoTask THEN 0 ELSE 1) + (IF flushing = NoTask THEN 0 ELSE 1)
  BY <1>0, Flying DEF OnePlace
<1>g. (dbRunning = flushing => dbRunning = NoTask)'
        => Cardinality(InAir') = (IF dbRunning' = NoTask THEN 0 ELSE 1) + (IF flushing' = NoTask THEN 0 ELSE 1)
  BY Flying
<1>1. ASSUME NEW q \in Queries, Db!AddTask(q) PROVE DbInv'
  <2>1. /\ q \notin Db!Elems(accepted)
        /\ dbTasks' = Append(dbTasks, q) /\ accepted' = Append(accepted, q)
        /\ UNCHANGED <<dbState, dbPc, dbRunning, flushing, done, refused>>
    BY <1>1 DEF Db!AddTask, Db!Push
  <2>2. q \notin Mem(accepted)
    BY <1>0, <2>1, Domains DEF Db!Elems, DbTypeOK
  <2>3. /\ dbTasks' \in Seq(Queries) /\ Mem(dbTasks') = Mem(dbTasks) \cup {q}
        /\ Len(dbTasks') = Len(dbTasks) + 1
        /\ Once(dbTasks) /\ q \notin Mem(dbTasks) => Once(dbTasks')
    BY <1>0, <2>1, Appended DEF DbTypeOK
  <2>4. /\ accepted' \in Seq(Queries) /\ Mem(accepted') = Mem(accepted) \cup {q}
        /\ Len(accepted') = Len(accepted) + 1
    BY <1>0, <2>1, Appended DEF DbTypeOK
  <2>5. DbTypeOK'
    BY <1>0, <2>1, <2>3, <2>4 DEF DbTypeOK
  <2>6. q \notin Mem(dbTasks) /\ q \notin Mem(done) /\ q \notin InAir /\ q # NoTask
    BY <1>0, <2>2 DEF Found
  <2>7. OnePlace'
    BY <1>0, <2>1, <2>3, <2>6 DEF OnePlace
  <2>8. Found'
    <3>1. InAir' = InAir
      BY <2>1
    <3>2. Mem(accepted') = Mem(dbTasks') \cup InAir' \cup Mem(done')
      BY <1>0, <2>1, <2>3, <2>4, <3>1 DEF Found
    <3>3. Len(accepted') = Len(dbTasks') + Cardinality(InAir') + Len(done')
      BY <1>0, <1>f, <2>1, <2>3, <2>4, <3>1 DEF Found
    <3> QED
      BY <3>2, <3>3 DEF Found
  <2> QED
    BY <2>5, <2>7, <2>8 DEF DbInv
<1>2. ASSUME NEW q \in Queries, Db!RefuseTask(q) PROVE DbInv'
  <2>1. /\ refused' = refused \cup {q}
        /\ UNCHANGED <<dbState, dbTasks, dbPc, dbRunning, flushing, accepted, done>>
    BY <1>2 DEF Db!RefuseTask
  <2> QED
    BY <1>0, <2>1 DEF DbInv, DbTypeOK, OnePlace, Found
<1>3. CASE Db!Notify \/ Db!Stop \/ Db!FlushBegin \/ Db!Shutdown \/ Db!FlushEnd
           \/ Db!TestState \/ Db!Wait \/ Db!SpuriousWakeup \/ Db!NothingToTake
  <2>1. /\ dbState' \in {dbState, "CLOSING", "TERMINATED"}
        /\ dbPc' = "run" <=> dbPc = "run"
        /\ UNCHANGED <<dbTasks, dbRunning, flushing, accepted, done, refused>>
    BY <1>3 DEF Db!Notify, Db!Stop, Db!FlushBegin, Db!Shutdown, Db!FlushEnd, Db!TestState, Db!Wait,
                Db!SpuriousWakeup, Db!NothingToTake
  <2> QED
    BY <1>0, <2>1 DEF DbInv, DbTypeOK, OnePlace, Found, States
<1>4. CASE Db!FlushPop
  <2>1. /\ flushing = NoTask /\ dbTasks # <<>>
        /\ flushing' = Head(dbTasks) /\ dbTasks' = Tail(dbTasks)
        /\ UNCHANGED <<dbState, dbPc, dbRunning, accepted, done, refused>>
    BY <1>4 DEF Db!FlushPop
  <2>2. /\ flushing' \in Queries /\ dbTasks' \in Seq(Queries) /\ Len(dbTasks) = Len(dbTasks') + 1
        /\ Mem(dbTasks) = Mem(dbTasks') \cup {flushing'} /\ Len(dbTasks') \in Nat
        /\ Once(dbTasks) => Once(dbTasks') /\ flushing' \notin Mem(dbTasks')
    BY <1>0, <2>1, HeadAndTail DEF DbTypeOK
  <2>3. DbTypeOK'
    BY <1>0, <2>1, <2>2 DEF DbTypeOK
  <2>4. OnePlace'
    BY <1>0, <2>1, <2>2 DEF OnePlace
  <2>5. Found'
    <3>1. InAir' = InAir \cup {flushing'} /\ flushing' # NoTask
      BY <1>0, <2>1, <2>2
    <3>2. Mem(accepted') = Mem(dbTasks') \cup InAir' \cup Mem(done')
      BY <1>0, <2>1, <2>2, <3>1 DEF Found
    <3>3. Cardinality(InAir') = Cardinality(InAir) + 1
      BY <1>f, <1>g, <2>1, <2>4, <3>1 DEF OnePlace
    <3>4. Len(accepted') = Len(dbTasks') + Cardinality(InAir') + Len(done')
      BY <1>0, <1>f, <2>1, <2>2, <3>3 DEF Found
    <3> QED
      BY <3>2, <3>4 DEF Found
  <2> QED
    BY <2>3, <2>4, <2>5 DEF DbInv
<1>5. CASE Db!Take
  <2>1. /\ dbPc # "run" /\ dbPc' = "run" /\ dbTasks # <<>>
        /\ dbRunning' = Head(dbTasks) /\ dbTasks' = Tail(dbTasks)
        /\ UNCHANGED <<dbState, flushing, accepted, done, refused>>
    BY <1>5 DEF Db!Take, Db!Rest
  <2>2. /\ dbRunning' \in Queries /\ dbTasks' \in Seq(Queries) /\ Len(dbTasks) = Len(dbTasks') + 1
        /\ Mem(dbTasks) = Mem(dbTasks') \cup {dbRunning'} /\ Len(dbTasks') \in Nat
        /\ Once(dbTasks) => Once(dbTasks') /\ dbRunning' \notin Mem(dbTasks')
        /\ dbRunning = NoTask
    BY <1>0, <2>1, HeadAndTail DEF DbTypeOK
  <2>3. DbTypeOK'
    BY <1>0, <2>1, <2>2 DEF DbTypeOK
  <2>4. OnePlace'
    BY <1>0, <2>1, <2>2 DEF OnePlace
  <2>5. Found'
    <3>1. InAir' = InAir \cup {dbRunning'} /\ dbRunning' # NoTask
      BY <1>0, <2>1, <2>2
    <3>2. Mem(accepted') = Mem(dbTasks') \cup InAir' \cup Mem(done')
      BY <1>0, <2>1, <2>2, <3>1 DEF Found
    <3>3. Cardinality(InAir') = Cardinality(InAir) + 1
      BY <1>f, <1>g, <2>1, <2>2, <2>4, <3>1 DEF OnePlace
    <3>4. Len(accepted') = Len(dbTasks') + Cardinality(InAir') + Len(done')
      BY <1>0, <1>f, <2>1, <2>2, <3>3 DEF Found
    <3> QED
      BY <3>2, <3>4 DEF Found
  <2> QED
    BY <2>3, <2>4, <2>5 DEF DbInv
<1>6. CASE Db!FlushRun
  <2>1. /\ flushing # NoTask /\ flushing' = NoTask /\ done' = Append(done, flushing)
        /\ UNCHANGED <<dbState, dbPc, dbTasks, dbRunning, accepted, refused>>
    BY <1>6 DEF Db!FlushRun
  <2>2. /\ flushing \in Queries /\ flushing \notin Mem(done)
    BY <1>0, <2>1 DEF DbTypeOK, OnePlace
  <2>3. /\ done' \in Seq(Queries) /\ Mem(done') = Mem(done) \cup {flushing}
        /\ Len(done') = Len(done) + 1 /\ Once(done) => Once(done')
    BY <1>0, <2>1, <2>2, Appended DEF DbTypeOK
  <2>4. DbTypeOK'
    BY <1>0, <2>1, <2>3 DEF DbTypeOK
  <2>5. OnePlace'
    BY <1>0, <2>1, <2>2, <2>3 DEF OnePlace, DbTypeOK
  <2>6. Found'
    <3>1. InAir = InAir' \cup {flushing}
      BY <1>0, <2>1 DEF OnePlace
    <3>2. Mem(accepted') = Mem(dbTasks') \cup InAir' \cup Mem(done')
      BY <1>0, <2>1, <2>3, <3>1 DEF Found
    <3>3. Cardinality(InAir) = Cardinality(InAir') + 1
      BY <1>f, <1>g, <2>1, <2>5 DEF OnePlace
    <3>4. Len(accepted') = Len(dbTasks') + Cardinality(InAir') + Len(done')
      BY <1>0, <1>f, <1>g, <2>1, <2>3, <2>5, <3>3 DEF Found, OnePlace
    <3> QED
      BY <3>2, <3>4 DEF Found
  <2> QED
    BY <2>4, <2>5, <2>6 DEF DbInv
<1>7. CASE Db!RunTask
  <2>1. /\ dbPc = "run" /\ dbPc' = "test" /\ dbRunning' = NoTask /\ done' = Append(done, dbRunning)
        /\ UNCHANGED <<dbState, dbTasks, flushing, accepted, refused>>
    BY <1>7 DEF Db!RunTask, Db!Running
  <2>2. /\ dbRunning \in Queries /\ dbRunning # NoTask /\ dbRunning \notin Mem(done)
    BY <1>0, <2>1 DEF DbTypeOK, OnePlace
  <2>3. /\ done' \in Seq(Queries) /\ Mem(done') = Mem(done) \cup {dbRunning}
        /\ Len(done') = Len(done) + 1 /\ Once(done) => Once(done')
    BY <1>0, <2>1, <2>2, Appended DEF DbTypeOK
  <2>4. DbTypeOK'
    BY <1>0, <2>1, <2>3 DEF DbTypeOK
  <2>5. OnePlace'
    BY <1>0, <2>1, <2>2, <2>3 DEF OnePlace, DbTypeOK
  <2>6. Found'
    <3>1. InAir = InAir' \cup {dbRunning}
      BY <1>0, <2>1, <2>2 DEF OnePlace
    <3>2. Mem(accepted') = Mem(dbTasks') \cup InAir' \cup Mem(done')
      BY <1>0, <2>1, <2>3, <3>1 DEF Found
    <3>3. Cardinality(InAir) = Cardinality(InAir') + 1
      BY <1>f, <1>g, <2>1, <2>2, <2>5 DEF OnePlace
    <3>4. Len(accepted') = Len(dbTasks') + Cardinality(InAir') + Len(done')
      BY <1>0, <1>f, <1>g, <2>1, <2>2, <2>3, <2>5, <3>3 DEF Found, OnePlace
    <3> QED
      BY <3>2, <3>4 DEF Found
  <2> QED
    BY <2>4, <2>5, <2>6 DEF DbInv
<1> QED
  BY <1>1, <1>2, <1>3, <1>4, <1>5, <1>6, <1>7 DEF DbStep
-----------------------------------------------------------------------------
(* The two threads together.                                               *)

\* A step of the server is a step of each thread's module, or leaves it as it is.
LEMMA EachThread ==
  ASSUME TasksNext, DbInv
  PROVE  /\ DispatcherStep \/ UNCHANGED vars
         /\ DbStep \/ UNCHANGED dbVars
<1>0. /\ DbThread \in Callers /\ Self \in Callers /\ WithCallback \subseteq Tasks
      /\ Bye \in Tasks /\ FALSE \in BOOLEAN
  BY TasksAssumption, DispatcherAssumption
<1>a. \A c \in Callers, t \in Tasks, front \in BOOLEAN : AddTask(c, t, front) => DispatcherStep
  BY DEF DispatcherStep
<1>b. \A c \in Callers, t \in Tasks : RefuseTask(c, t) => DispatcherStep
  BY DEF DispatcherStep
<1>c. \A c \in Callers : \A q : CallbackPosted(c, q) => DispatcherStep \/ UNCHANGED vars
  BY <1>0, <1>a, <1>b DEF CallbackPosted
<1>1. CASE \E c \in Callers, t \in Tasks, front \in BOOLEAN : Arrives(c, t, front)
  BY <1>1, <1>a, <1>b DEF Arrives
<1>2. CASE \E q \in Queries : QueryAdded(q)
  BY <1>2 DEF QueryAdded, DbStep
<1>3. CASE Save \/ StopDb \/ ShutdownDb
  BY <1>3 DEF Save, StopDb, ShutdownDb, DbStep
<1>4. CASE GoodbyeQueued
  BY <1>0, <1>4, <1>a DEF GoodbyeQueued
<1>5. CASE \E c \in Callers : Notify(c) /\ UNCHANGED dbVars
  BY <1>5 DEF DispatcherStep
<1>6. CASE \E t \in Timed : Expire(t) /\ UNCHANGED dbVars
  BY <1>6 DEF DispatcherStep
<1>7. CASE SpuriousWakeup /\ UNCHANGED dbVars
  BY <1>7 DEF DispatcherStep
<1>8. CASE DbThreadStep
  BY <1>0, <1>8, <1>c DEF DbThreadStep, DbRun, DbStep
<1>9. CASE DbFlushStep
  BY <1>0, <1>9, <1>c DEF DbFlushStep, DbFlushRun, DbStep
<1>10. CASE DbNotify \/ DbSpurious
  BY <1>10 DEF DbNotify, DbSpurious, DbStep
<1>11. CASE StopSelf \/ ShutdownSelf \/ TaskReturns
  BY <1>0, <1>11 DEF StopSelf, ShutdownSelf, TaskReturns, DispatcherStep
<1>12. CASE UNCHANGED dbVars /\ (TestState \/ Wait \/ Take \/ NothingToTake \/ SkipExpired \/ Execute)
  BY <1>12 DEF DispatcherStep
<1> QED
  BY <1>1, <1>2, <1>3, <1>4, <1>5, <1>6, <1>7, <1>8, <1>9, <1>10, <1>11, <1>12
     DEF TasksNext, TasksThread

\* The invariant holds in every state of the server: the dispatcher starts with
\* nothing pushed, and each thread's steps keep its part.
THEOREM TasksInvariant == TasksSpec => [](DispatcherInv /\ DbInv)
<1>1. TasksInit => DispatcherInv
  <2> SUFFICES ASSUME TasksInit PROVE DispatcherInv
    OBVIOUS
  <2>1. /\ taskList = <<>> /\ ran = <<>> /\ back = <<>> /\ pc = "test"
    BY DEF TasksInit, Init
  <2>2. TypeOK
    BY DEF TasksInit, Init, TypeOK
  <2> QED
    BY <2>1, <2>2, EmptyList DEF DispatcherInv, InOrder
<1>2. TasksInit => DbInv
  <2> SUFFICES ASSUME TasksInit PROVE DbInv
    OBVIOUS
  <2>1. /\ dbTasks = <<>> /\ done = <<>> /\ accepted = <<>> /\ refused = {}
        /\ dbState = "RUNNING" /\ dbPc = "test" /\ dbRunning = NoTask /\ flushing = NoTask
    BY DEF TasksInit, Db!Init
  <2>2. DbTypeOK
    BY <2>1 DEF DbTypeOK, States
  <2>3. Len(dbTasks) = 0 /\ Mem(dbTasks) = {} /\ Once(dbTasks)
    BY <2>1, EmptyList
  <2>4. Cardinality({dbRunning, flushing} \ {NoTask}) = 0
    BY <2>1, FS_EmptySet
  <2> QED
    BY <2>1, <2>2, <2>3, <2>4 DEF DbInv, OnePlace, Found
<1>3. DispatcherInv /\ DbInv /\ [TasksNext]_allVars => (DispatcherInv /\ DbInv)'
  <2> SUFFICES ASSUME DispatcherInv, DbInv, [TasksNext]_allVars PROVE DispatcherInv' /\ DbInv'
    OBVIOUS
  <2>1. /\ DispatcherStep \/ UNCHANGED vars
        /\ DbStep \/ UNCHANGED dbVars
    BY EachThread DEF allVars
  <2>2. ASSUME UNCHANGED vars PROVE DispatcherInv'
    <3>1. /\ UNCHANGED <<threadState, taskList, pc, current>>
          /\ UNCHANGED <<call, expired, ran, deleted, back>>
      BY <2>2 DEF vars
    <3>2. TypeOK' /\ Known' = Known
      BY <3>1 DEF DispatcherInv, TypeOK, Known, Queued, Executed
    <3> QED
      BY <3>1, <3>2, QuietKeeps DEF DispatcherInv
  <2>3. ASSUME UNCHANGED dbVars PROVE DbInv'
    BY <2>3 DEF dbVars, DbInv, DbTypeOK, OnePlace, Found
  <2>4. DispatcherInv'
    BY <2>1, <2>2, DispatcherStepKeeps
  <2>5. DbInv'
    BY <2>1, <2>3, DbStepKeeps
  <2> QED
    BY <2>4, <2>5
<1> QED
  BY <1>1, <1>2, <1>3, PTL DEF TasksSpec

\* What was pushed at the back of the dispatcher's list runs in the order it was
\* pushed in, whatever is pushed in front of it or expires (tasks.cpp:41-95).
THEOREM BackTasksRunInOrder == TasksSpec => []BackTasksInOrder
<1>1. DispatcherInv => BackTasksInOrder
  <2> SUFFICES ASSUME DispatcherInv,
                      NEW i \in DOMAIN (ran \o taskList), NEW j \in DOMAIN (ran \o taskList), i < j,
                      (ran \o taskList)[i] \in Backs, (ran \o taskList)[j] \in Backs
               PROVE  PushedBefore((ran \o taskList)[i], (ran \o taskList)[j])
    BY DEF BackTasksInOrder
  <2> DEFINE s == ran \o taskList
             m == Len(ran)
             n == Len(taskList)
  <2>1. /\ ran \in Seq(AnyTask) /\ taskList \in Seq(AnyTask) /\ back \in Seq(Tasks) /\ InOrder
        /\ m \in Nat /\ n \in Nat
    BY LenProperties DEF DispatcherInv, TypeOK, AnyTask
  <2>2. /\ DOMAIN s = 1..(m + n)
        /\ \A k \in 1..(m + n) : s[k] = IF k <= m THEN ran[k] ELSE taskList[k - m]
    BY <2>1, ConcatProperties, LenProperties
  <2>3. Backs = Mem(back) /\ DOMAIN back = 1..Len(back)
    BY <2>1, Domains, LenProperties DEF Backs
  <2> HIDE DEF s, m, n
  <2>4. /\ i \in 1..m => s[i] = ran[i] /\ s[i] \in Mem(ran)
        /\ j \in 1..m => s[j] = ran[j] /\ s[j] \in Mem(ran)
        /\ i \notin 1..m => i - m \in 1..n /\ s[i] = taskList[i - m]
        /\ j \notin 1..m => j - m \in 1..n /\ s[j] = taskList[j - m] /\ s[j] \in Mem(taskList)
    <3>1. i \in 1..(m + n) /\ j \in 1..(m + n)
      BY <2>2 DEF s
    <3>2. \A k \in 1..(m + n) : IF k <= m THEN k \in 1..m ELSE k - m \in 1..n /\ k \notin 1..m
      BY <2>1
    <3> QED
      BY <2>2, <3>1, <3>2 DEF Mem, m, n
  <2>5. Ordered(back, s[i], s[j])
    <3>1. CASE j \in 1..m
      <4>1. i \in 1..m
        BY <2>1, <2>2, <3>1 DEF s
      <4> QED
        BY <2>1, <2>4, <3>1, <4>1 DEF InOrder, Sorted, m
    <3>2. CASE i \in 1..m /\ j \notin 1..m
      BY <2>1, <2>4, <3>2 DEF InOrder
    <3>3. CASE i \notin 1..m /\ j \notin 1..m
      <4>1. i - m \in 1..n /\ j - m \in 1..n /\ i - m < j - m
        BY <2>1, <2>2, <2>4, <3>3 DEF s
      <4> QED
        BY <2>1, <2>4, <3>3, <4>1 DEF InOrder, Sorted, n
    <3> QED
      BY <3>1, <3>2, <3>3
  <2> QED
    BY <2>3, <2>5 DEF Ordered, PushedBefore, s
<1> QED
  BY <1>1, TasksInvariant, PTL

\* A query that addTask accepted is in the list, in flight or executed, and in one
\* of them only: the database thread and a flush of the game thread never run the
\* same query (databasetasks.cpp:34-52, 86-96).
THEOREM QueriesRunOnce == TasksSpec => []EachQueryOnce
<1>1. DbInv => EachQueryOnce
  <2> SUFFICES ASSUME DbInv PROVE EachQueryOnce
    OBVIOUS
  <2>1. /\ Db!Elems(accepted) = Mem(accepted) /\ Db!Elems(dbTasks) = Mem(dbTasks)
        /\ Db!Elems(done) = Mem(done)
    BY Domains DEF DbInv, DbTypeOK, Db!Elems
  <2>2. Db!InFlight = {dbRunning, flushing} \ {NoTask}
    BY DEF Db!InFlight
  <2>3. Found /\ (dbRunning = flushing => dbRunning = NoTask)
    BY DEF DbInv, OnePlace
  <2>4. Db!Elems(accepted) = Db!Elems(dbTasks) \cup Db!InFlight \cup Db!Elems(done)
    BY <2>1, <2>2, <2>3 DEF Found
  <2>5. Len(accepted) = Len(dbTasks) + Cardinality(Db!InFlight) + Len(done)
    BY <2>2, <2>3 DEF Found
  <2> QED
    <3>1. dbRunning = flushing => dbRunning = NoTask
      BY <2>3
    <3>c. Db!Cardinality(Db!InFlight) = Cardinality(Db!InFlight)
      BY DEF Cardinality, Db!Cardinality
    <3>2. Db!EachQueryOnce
      BY <2>4, <2>5, <3>1, <3>c DEF Db!EachQueryOnce
    <3> QED
      BY <3>2 DEF EachQueryOnce
<1> QED
  BY <1>1, TasksInvariant, PTL
=============================================================================
