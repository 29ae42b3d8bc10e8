-------------------------- MODULE Scheduler_proofs --------------------------
(***************************************************************************)
(* Theorems about Scheduler for any number of user tasks: wherever the     *)
(* timer interrupts the creation and the killing of tasks, address spaces  *)
(* stay apart, the machine agrees with the task it runs, the dummy is not  *)
(* needed and only dead tasks leave the list.                              *)
(***************************************************************************)
EXTENDS Scheduler, Induction

Entering == {"enterStack", "enterCode"}
Leaving  == {"leaveStack", "leaveCode"}

\* The stages of TestUserspace, by what has been made of the task.
Unlinked   == {"copy", "malloc", "mallocEnd", "link"}
Numbered   == {"created", "pageDir", "mapStack", "fill", "mapCode", "ready"} \cup Changes
Building   == Unlinked \cup {"id"} \cup Numbered
NoPageDir  == {"created", "pageDir"}
NoStack    == NoPageDir \cup {"enterStack", "mapStack"}
NoContext  == NoStack \cup {"leaveStack", "fill"}
NoCode     == NoContext \cup {"enterCode", "mapCode"}

\* A user task before AllocatePD or Link has been called for it, and one that
\* TestUserspace has finished.
Unmade(u) == task[u] = Zeroed /\ mapped[u] = {} /\ u \notin Linked

Whole(u) ==
    /\ task[u].id \in 1 .. currentID - 1
    /\ task[u].status \in {"READY", "RUNNING", "DEAD"}
    /\ task[u].pageDir = u /\ task[u].rsp0 = u
    /\ mapped[u] = {"stack", "code"}

\* The fields of the task that is being made are those assigned so far.
Half(u) ==
    /\ u \in Linked
    /\ task[u].id \in 1 .. currentID - 1
    /\ task[u].status = IF pc = "created" THEN "READY" ELSE "CREATED"
    /\ task[u].pageDir = IF pc \in NoPageDir THEN NULL ELSE u
    /\ task[u].rsp0 = IF pc \in NoContext THEN NULL ELSE u
    /\ mapped[u] = CASE pc \in NoStack           -> {}
                     [] pc \in NoCode \ NoStack  -> {"stack"}
                     [] OTHER                    -> {"stack", "code"}

BuildInv ==
    /\ pc \in Building \cup {"unlock", "mark"} => new \in Users
    /\ pc \in Unlinked => Unmade(new)
    /\ pc = "id" => new \in Linked /\ task[new] = Zeroed /\ mapped[new] = {}
    /\ pc \in Numbered => Half(new)
    /\ pc \in {"unlock", "mark"} => Whole(new)
    /\ \A u \in Users : (pc \in Building /\ u = new) \/ Unmade(u) \/ Whole(u)

\* firstTask stays first, and a number finds the task that has it.
ListInv ==
    /\ tasks # <<>> /\ tasks[1] = Kernel
    /\ currentID >= 1
    /\ task[Kernel].id = 0 /\ task[Dummy].id = 0
    /\ task[Kernel].status \in {"READY", "RUNNING"} /\ task[Dummy].status = "DUMMY"
    /\ \A t, u \in Linked \cap Users : task[t].id = task[u].id => t = u

\* ChangePageDir has stored the new task's directory and not yet the kernel's.
Inside ==
    \/ pc \in {"mapStack", "mapCode"}
    \/ pc \in Entering /\ store # "pageDir"
    \/ pc \in Leaving /\ store = "pageDir"

\* The directories the scheduler and the CPU have for the kernel task: a tick
\* between two stores of ChangePageDir leaves either the old or the new one.
DirInv ==
    /\ task[Kernel].pageDir = IF Inside THEN new ELSE Kernel
    /\ task[Kernel].rsp0 = Kernel
    /\ store # "pageDir" => pc \in Changes
    /\ store # "pageDir" \/ pc \in {"mapStack", "mapCode"} \cup Leaving => old = Kernel
    /\ currentTask # Kernel \/ store = "pageDir" =>
         cr3 = task[currentTask].pageDir /\ g_PageDir = cr3
    /\ store = "g_PageDir" => cr3 = task[currentTask].pageDir

CurrentInv ==
    /\ currentTask \in Linked
    /\ task[currentTask].status \in {"READY", "RUNNING"}
    /\ currentTask # Kernel =>
         currentTask \in Users /\ Whole(currentTask) /\ tss = task[currentTask].rsp0

RunInv == BuildInv /\ ListInv /\ DirInv /\ CurrentInv

\* Once the machine has stopped no step follows, and less needs to hold.
IInv ==
    /\ TypeOK
    /\ SpacesStayApart
    /\ DummyNeverRuns
    /\ machine = "runs" => RunInv

-----------------------------------------------------------------------------
(* The operators on the list. *)

\* The equation by which Without defines a function ...
Solves(f, s, gone, n) ==
    f = [i \in 0 .. n |-> IF i = 0 THEN <<>>
                          ELSE IF s[i] \in gone THEN f[i - 1] ELSE Append(f[i - 1], s[i])]

\* ... has a solution.
LEMMA WithoutRecursion ==
    ASSUME NEW s, NEW gone, NEW n \in Nat
    PROVE  \E f : Solves(f, s, gone, n)
  <1> DEFINE Step(f, i) == IF i = 0 THEN <<>>
                           ELSE IF s[i] \in gone THEN f[i - 1] ELSE Append(f[i - 1], s[i])
             Exists(k) == \E f : f = [i \in 0 .. k |-> Step(f, i)]
             Good == {k \in Nat : Exists(k)}
  <1>1. 0 \in Good
    <2>1. [i \in 0 .. 0 |-> <<>>] = [i \in 0 .. 0 |-> Step([j \in 0 .. 0 |-> <<>>], i)]
      OBVIOUS
    <2> QED
      BY <2>1
  <1>2. ASSUME NEW k \in Nat, k \in Good PROVE k + 1 \in Good
    <2>1. PICK f : f = [i \in 0 .. k |-> Step(f, i)]
      BY <1>2
    <2> DEFINE g == [i \in 0 .. k + 1 |-> IF i <= k THEN f[i] ELSE Step(f, i)]
    <2>2. ASSUME NEW i \in 0 .. k + 1 PROVE g[i] = Step(g, i)
      <3>1. CASE i = 0
        BY <2>1, <3>1
      <3>2. CASE i # 0
        <4>1. i - 1 \in 0 .. k /\ g[i - 1] = f[i - 1]
          BY <3>2
        <4>2. g[i] = Step(f, i)
          <5>1. CASE i <= k
            <6>1. i \in 0 .. k /\ g[i] = f[i]
              BY <5>1
            <6> QED
              BY <2>1, <6>1
          <5>2. CASE ~ (i <= k)
            BY <5>2
          <5> QED
            BY <5>1, <5>2
        <4> QED
          BY <4>1, <4>2
      <3> QED
        BY <3>1, <3>2
    <2>3. g = [i \in 0 .. k + 1 |-> g[i]]
      OBVIOUS
    <2>4. g = [i \in 0 .. k + 1 |-> Step(g, i)]
      BY <2>2, <2>3
    <2>5. Exists(k + 1)
      <3> HIDE DEF g
      <3> QED
        BY <2>4
    <2> HIDE DEF Exists
    <2> QED
      BY <2>5
  <1> HIDE DEF Good
  <1>3. n \in Good
    BY <1>1, <1>2, SetInduction
  <1> QED
    BY <1>3 DEF Good, Solves

\* Without unlinks exactly the tasks that are gone, makes no task appear twice,
\* and leaves the first one first.
Distinct(s) == \A i, j \in 1 .. Len(s) : s[i] = s[j] => i = j

Keeps(s, n, gone, kept) ==
    /\ \A j \in 1 .. Len(kept) : kept[j] \notin gone /\ \E i \in 1 .. n : s[i] = kept[j]
    /\ \A i \in 1 .. n : s[i] \notin gone => \E j \in 1 .. Len(kept) : kept[j] = s[i]
    /\ Distinct(s) => Distinct(kept)
    /\ n > 0 /\ s[1] \notin gone => kept # <<>> /\ kept[1] = s[1]

LEMMA WithoutKeeps ==
    ASSUME NEW T, NEW s \in Seq(T), NEW gone
    PROVE  Without(s, gone) \in Seq(T) /\ Keeps(s, Len(s), gone, Without(s, gone))
  <1> DEFINE f == CHOOSE f : Solves(f, s, gone, Len(s))
  <1>1. Solves(f, s, gone, Len(s))
    BY WithoutRecursion
  <1>2. Without(s, gone) = f[Len(s)]
    BY DEF Without, Solves
  <1> HIDE DEF f
  <1>3. \A i \in 0 .. Len(s) :
          f[i] = IF i = 0 THEN <<>>
                 ELSE IF s[i] \in gone THEN f[i - 1] ELSE Append(f[i - 1], s[i])
    BY <1>1 DEF Solves
  <1> DEFINE Fine(k) == f[k] \in Seq(T) /\ Keeps(s, k, gone, f[k])
             Good == {k \in Nat : k <= Len(s) => Fine(k)}
  <1>4. 0 \in Good
    <2>1. f[0] = <<>>
      BY <1>3
    <2>2. Keeps(s, 0, gone, <<>>)
      BY DEF Keeps, Distinct
    <2>3. Fine(0)
      BY <2>1, <2>2
    <2> HIDE DEF Fine
    <2> QED
      BY <2>3
  <1>5. ASSUME NEW k \in Nat, k \in Good PROVE k + 1 \in Good
    <2> SUFFICES ASSUME k + 1 <= Len(s)
                 PROVE  Fine(k + 1)
      OBVIOUS
    <2>1. f[k] \in Seq(T) /\ Keeps(s, k, gone, f[k])
      BY <1>5
    <2>2. s[k + 1] \in T
      OBVIOUS
    <2>3. f[k + 1] = IF s[k + 1] \in gone THEN f[k] ELSE Append(f[k], s[k + 1])
      <3>1. k + 1 \in 0 .. Len(s) /\ k + 1 # 0 /\ k + 1 - 1 = k
        OBVIOUS
      <3> QED
        BY <1>3, <3>1
    <2>4. CASE s[k + 1] \in gone
      BY <2>1, <2>3, <2>4 DEF Keeps
    <2>5. CASE s[k + 1] \notin gone
      <3> DEFINE g == f[k]
                 h == Append(g, s[k + 1])
      <3>1. /\ h \in Seq(T) /\ Len(h) = Len(g) + 1 /\ h[Len(g) + 1] = s[k + 1]
            /\ \A j \in 1 .. Len(g) : h[j] = g[j]
            /\ Len(g) \in Nat
        BY <2>1, <2>2
      <3>2. f[k + 1] = h
        BY <2>3, <2>5
      <3> HIDE DEF g, h
      <3>3. g \in Seq(T) /\ Keeps(s, k, gone, g)
        BY <2>1 DEF g
      <3>4. ASSUME NEW j \in 1 .. Len(h)
            PROVE  h[j] \notin gone /\ \E i \in 1 .. k + 1 : s[i] = h[j]
        <4>1. CASE j \in 1 .. Len(g)
          <5>1. h[j] = g[j] /\ h[j] \notin gone
            BY <3>1, <3>3, <4>1 DEF Keeps
          <5>2. PICK i \in 1 .. k : s[i] = g[j]
            BY <3>3, <4>1 DEF Keeps
          <5> QED
            BY <5>1, <5>2
        <4>2. CASE j = Len(g) + 1
          BY <2>5, <3>1, <4>2
        <4> QED
          BY <3>1, <4>1, <4>2
      <3>5. \A i \in 1 .. k + 1 : s[i] \notin gone => \E j \in 1 .. Len(h) : h[j] = s[i]
        BY <3>1, <3>3 DEF Keeps
      <3>6. Distinct(s) => Distinct(h)
        BY <3>1, <3>3 DEF Keeps, Distinct
      <3>7. s[1] \notin gone => h # <<>> /\ h[1] = s[1]
        BY <3>1, <3>3 DEF Keeps
      <3> QED
        BY <3>1, <3>2, <3>4, <3>5, <3>6, <3>7 DEF Keeps
    <2> QED
      BY <2>4, <2>5
  <1> HIDE DEF Good
  <1>6. Len(s) \in Good
    BY <1>4, <1>5, SetInduction
  <1> QED
    BY <1>2, <1>6 DEF Good

\* firstTask has the number 0, whatever other task has it.
LEMMA FirstTaskFound ==
    ASSUME TypeOK, ListInv PROVE TaskGet(0) = Kernel
  <1> DEFINE found == {i \in DOMAIN tasks : task[tasks[i]].id = 0}
  <1>1. tasks \in Seq(Tasks)
    BY DEF TypeOK
  <1>2. 1 \in found /\ found \in SUBSET Nat /\ 0 \notin found
    BY <1>1 DEF ListInv
  <1>3. Min(found) \in found /\ Min(found) <= 1
    BY <1>2, MinIsLeast
  <1>4. Min(found) = 1
    BY <1>2, <1>3
  <1> HIDE DEF found
  <1> QED
    BY <1>2, <1>4 DEF TaskGet, found, ListInv

\* A number no other linked task has finds its task.
LEMMA TaskFound ==
    ASSUME TypeOK, NEW t \in Linked,
           \A u \in Linked : task[u].id = task[t].id => u = t
    PROVE  TaskGet(task[t].id) = t
  <1> DEFINE found == {i \in DOMAIN tasks : task[tasks[i]].id = task[t].id}
  <1>1. tasks \in Seq(Tasks)
    BY DEF TypeOK
  <1>2. found # {} /\ found \in SUBSET Nat
    BY <1>1 DEF Linked
  <1>3. Min(found) \in found
    BY <1>2, MinIsLeast
  <1>4. tasks[Min(found)] = t
    BY <1>3 DEF Linked
  <1> HIDE DEF found
  <1> QED
    BY <1>2, <1>4 DEF TaskGet, found

\* schedule() looks at linked tasks only, and at each of them.
LEMMA SuccessorsAreLinked ==
    ASSUME TypeOK, NEW t \in Linked
    PROVE  /\ Successors(t) \in Seq(Tasks)
           /\ \A k \in DOMAIN Successors(t) : Successors(t)[k] \in Linked
           /\ \A u \in Linked : \E k \in DOMAIN Successors(t) : Successors(t)[k] = u
  <1> DEFINE i == CHOOSE i \in DOMAIN tasks : tasks[i] = t
             behind == SubSeq(tasks, i + 1, Len(tasks))
  <1>1. tasks \in Seq(Tasks) /\ Linked = {tasks[k] : k \in 1 .. Len(tasks)}
    BY DEF TypeOK, Linked
  <1>2. i \in 1 .. Len(tasks)
    BY <1>1
  <1>3. Successors(t) = behind \o tasks
    BY DEF Successors
  <1> HIDE DEF i
  <1>4. behind \in Seq(Tasks) /\ \A k \in 1 .. Len(behind) : behind[k] \in Linked
    <2>1. behind \in Seq(Tasks) /\ Len(behind) = Len(tasks) - i
      BY <1>1, <1>2
    <2>2. ASSUME NEW k \in 1 .. Len(behind) PROVE behind[k] = tasks[i + k] /\ i + k \in 1 .. Len(tasks)
      BY <1>1, <1>2, <2>1
    <2> QED
      BY <1>1, <2>1, <2>2
  <1> HIDE DEF behind
  <1>5. /\ behind \o tasks \in Seq(Tasks)
        /\ Len(behind \o tasks) = Len(behind) + Len(tasks)
        /\ \A k \in 1 .. Len(behind) : (behind \o tasks)[k] = behind[k]
        /\ \A k \in 1 .. Len(tasks) : (behind \o tasks)[Len(behind) + k] = tasks[k]
        /\ Len(behind) \in Nat /\ Len(tasks) \in Nat
    BY <1>1, <1>4
  <1> DEFINE order == behind \o tasks
  <1> HIDE DEF order
  <1>6. ASSUME NEW k \in 1 .. Len(order) PROVE order[k] \in Linked
    <2>1. CASE k <= Len(behind)
      BY <1>4, <1>5, <2>1 DEF order
    <2>2. CASE k > Len(behind)
      <3>1. k - Len(behind) \in 1 .. Len(tasks) /\ k = Len(behind) + (k - Len(behind))
        BY <1>5, <2>2 DEF order
      <3>2. order[k] = tasks[k - Len(behind)]
        BY <1>5, <3>1 DEF order
      <3> QED
        BY <1>1, <3>1, <3>2
    <2> QED
      BY <1>5, <2>1, <2>2
  <1>7. ASSUME NEW u \in Linked PROVE \E k \in 1 .. Len(order) : order[k] = u
    <2>1. PICK k \in 1 .. Len(tasks) : tasks[k] = u
      BY <1>1
    <2>2. Len(behind) + k \in 1 .. Len(order) /\ order[Len(behind) + k] = u
      BY <1>5, <2>1 DEF order
    <2> QED
      BY <2>2
  <1>8. Successors(t) = order /\ order \in Seq(Tasks) /\ DOMAIN order = 1 .. Len(order)
    BY <1>3, <1>5 DEF order
  <1> QED
    BY <1>6, <1>7, <1>8

-----------------------------------------------------------------------------
(* What schedule() finds. *)

\* The task that was preempted is ready again, so there is always a task to
\* switch to, and it is a linked one that is ready.
LEMMA NextTaskIsReady ==
    ASSUME TypeOK, CurrentInv
    PROVE  NextTask \in Linked /\ Requeued[NextTask].status = "READY"
  <1> DEFINE order == Successors(currentTask)
             ready == {i \in DOMAIN order : Eligible(order[i])}
  <1>1. /\ order \in Seq(Tasks)
        /\ \A k \in DOMAIN order : order[k] \in Linked
        /\ \E k \in DOMAIN order : order[k] = currentTask
    BY SuccessorsAreLinked DEF CurrentInv
  <1>2. Eligible(currentTask)
    BY DEF Eligible, Requeued, CurrentInv, TypeOK
  <1>3. ready # {} /\ ready \in SUBSET Nat
    BY <1>1, <1>2
  <1>4. Min(ready) \in ready
    BY <1>3, MinIsLeast
  <1>5. Min(ready) \in DOMAIN order /\ Eligible(order[Min(ready)])
    BY <1>4
  <1>6. Skipped = Min(ready) - 1
    BY <1>3 DEF Skipped
  <1> HIDE DEF order, ready
  <1>7. NextTask = order[Min(ready)]
    BY <1>1, <1>5, <1>6 DEF NextTask, order
  <1> QED
    BY <1>1, <1>5, <1>7 DEF Eligible

\* Whom schedule() deletes, though it does so by number, is a linked user task
\* that is dead.
LEMMA ReapedAreDead ==
    ASSUME TypeOK, RunInv, NEW t \in Reaped
    PROVE  t \in Linked /\ t \in Users /\ task[t].status = "DEAD"
  <1> DEFINE order == Successors(currentTask)
  <1>1. PICK k \in 1 .. Skipped : Reapable(order[k]) /\ t = TaskGet(task[order[k]].id)
    BY DEF Reaped
  <1>2. order \in Seq(Tasks) /\ \A i \in DOMAIN order : order[i] \in Linked
    BY SuccessorsAreLinked DEF RunInv, CurrentInv
  <1>3. k \in DOMAIN order
    <2> DEFINE ready == {i \in DOMAIN order : Eligible(order[i])}
    <2>1. ready # {} => Min(ready) \in DOMAIN order
      <3>1. ready \in SUBSET Nat
        BY <1>2
      <3> QED
        BY <3>1, MinIsLeast
    <2>2. Skipped = IF ready = {} THEN Len(order) ELSE Min(ready) - 1
      BY DEF Skipped
    <2> HIDE DEF order, ready
    <2> QED
      BY <1>2, <2>1, <2>2
  <1> DEFINE d == order[k]
  <1>4. d \in Linked /\ task[d].status = "DEAD"
    BY <1>1, <1>2, <1>3 DEF Reapable
  <1>5. t = TaskGet(task[d].id)
    BY <1>1
  <1> HIDE DEF d, order
  <1>6. d \in Users
    BY <1>4 DEF RunInv, ListInv, Linked, TypeOK, Tasks, TaskRecords
  <1>7. \A u \in Linked : task[u].id = task[d].id => u = d
    <2>1. Whole(d)
      BY <1>4, <1>6 DEF RunInv, BuildInv, Half, Unmade, Zeroed, Building
    <2>2. currentID \in Nat
      BY DEF TypeOK
    <2>3. ASSUME NEW u \in Linked PROVE u \in {Kernel, Dummy} \cup Users
      BY DEF Linked, TypeOK, Tasks
    <2> QED
      BY <1>4, <1>6, <2>1, <2>2, <2>3 DEF RunInv, ListInv, Whole
  <1>8. t = d
    BY <1>4, <1>5, <1>7, TaskFound
  <1> QED
    BY <1>4, <1>6, <1>8

-----------------------------------------------------------------------------
(* The invariant holds at the start, and every step keeps it. *)

LEMMA IInvInit == Init => IInv
  <1> SUFFICES ASSUME Init PROVE IInv
    OBVIOUS
  <1>1. Linked = {Kernel, Dummy}
    BY DEF Init, Linked
  <1>2. TypeOK
    <2>1. tasks \in Seq(Tasks) /\ \A i, j \in DOMAIN tasks : tasks[i] = tasks[j] => i = j
      BY TasksAssumption DEF Init, Tasks
    <2>2. task \in [Tasks -> TaskRecords]
      BY DEF Init, Complete, Zeroed, TaskRecords
    <2> QED
      BY <2>1, <2>2 DEF Init, TypeOK, Tasks, Stages
  <1>3. SpacesStayApart /\ DummyNeverRuns
    BY TasksAssumption DEF Init, SpacesStayApart, DummyNeverRuns, Tasks, Zeroed, Complete
  <1>4. BuildInv
    BY <1>1, TasksAssumption DEF Init, BuildInv, Building, Unlinked, Numbered, Changes, Unmade, Tasks, Zeroed
  <1>5. ListInv
    BY <1>1, TasksAssumption DEF Init, ListInv, Tasks, Complete
  <1>6. DirInv /\ CurrentInv
    BY <1>1, TasksAssumption DEF Init, DirInv, CurrentInv, Inside, Entering, Leaving, Tasks, Complete
  <1> QED
    BY <1>2, <1>3, <1>4, <1>5, <1>6 DEF IInv, RunInv

\* The kernel task takes a step when it runs, alone, on a machine that runs.
LEMMA KernelRuns ==
    ASSUME IInv, NEW stage, At(stage)
    PROVE  /\ RunInv /\ TypeOK /\ pc = stage /\ currentTask = Kernel /\ machine = "runs"
           /\ mapped[Kernel] = {}
           /\ Kernel \in Tasks /\ Kernel \notin Users /\ NULL \notin Tasks
  BY TasksAssumption DEF IInv, At, SpacesStayApart, Tasks

LEMMA AllocatePDStep == ASSUME IInv, NEW u \in Users, AllocatePD(u) PROVE IInv'
  <1>1. /\ RunInv /\ TypeOK /\ pc = "idle" /\ currentTask = Kernel /\ machine = "runs"
        /\ mapped[Kernel] = {}
    BY KernelRuns DEF AllocatePD
  <1>2. /\ new' = u /\ pc' = "copy" /\ Linked' = Linked
        /\ UNCHANGED <<list, task, sched, space, mapped, machine, old, store, freed>>
    BY DEF AllocatePD, Goto, Linked, list
  <1>3. TypeOK'
    BY <1>1, <1>2 DEF AllocatePD, TypeOK, list, sched, space, Stages
  <1>4. BuildInv'
    <2>1. Unmade(u)'
      BY <1>1, <1>2 DEF AllocatePD, RunInv, BuildInv, Building, Unlinked, Numbered, Changes,
           Unmade, Whole, Zeroed
    <2> QED
      BY <1>1, <1>2, <2>1 DEF RunInv, BuildInv, Building, Unlinked, Numbered, Changes,
         Unmade, Whole, list
  <1>5. ListInv' /\ CurrentInv'
    BY <1>1, <1>2 DEF RunInv, ListInv, CurrentInv, Whole, list, sched
  <1>6. DirInv'
    BY <1>1, <1>2 DEF RunInv, DirInv, Inside, Changes, Entering, Leaving, sched, space
  <1>7. SpacesStayApart' /\ DummyNeverRuns'
    BY <1>1, <1>2 DEF IInv, SpacesStayApart, DummyNeverRuns, sched
  <1> QED
    BY <1>3, <1>4, <1>5, <1>6, <1>7 DEF IInv, RunInv

LEMMA CopyPDStep == ASSUME IInv, CopyPD PROVE IInv'
  <1>1. /\ RunInv /\ TypeOK /\ pc = "copy" /\ currentTask = Kernel /\ machine = "runs"
        /\ mapped[Kernel] = {} /\ Kernel \in Tasks
    BY KernelRuns DEF CopyPD
  <1>2. /\ pc' = "malloc" /\ Linked' = Linked
        /\ UNCHANGED <<list, task, sched, space, machine, args, freed>>
    BY DEF CopyPD, Goto, Linked, list
  <1>3. mapped' = mapped
    <2>1. TaskGet(0) = Kernel /\ task[Kernel].pageDir = Kernel
      BY <1>1, FirstTaskFound DEF RunInv, DirInv, BuildInv, Inside, Entering, Leaving
    <2>2. mapped' = [mapped EXCEPT ![new] = {}]
      BY <1>1, <2>1 DEF CopyPD
    <2>3. mapped[new] = {}
      BY <1>1 DEF RunInv, BuildInv, Unlinked, Unmade
    <2> QED
      BY <1>1, <2>2, <2>3 DEF TypeOK
  <1>4. TypeOK'
    BY <1>1, <1>2, <1>3 DEF CopyPD, TypeOK, list, sched, space, args, Stages
  <1>5. BuildInv'
    BY <1>1, <1>2, <1>3 DEF RunInv, BuildInv, Building, Unlinked, Numbered, Changes,
         Unmade, Whole, list, args
  <1>6. ListInv' /\ CurrentInv'
    BY <1>1, <1>2, <1>3 DEF RunInv, ListInv, CurrentInv, list, sched
  <1>7. DirInv'
    BY <1>1, <1>2 DEF RunInv, DirInv, Inside, Changes, Entering, Leaving, sched, space, args
  <1>8. SpacesStayApart' /\ DummyNeverRuns'
    BY <1>1, <1>2, <1>3 DEF IInv, SpacesStayApart, DummyNeverRuns, sched
  <1> QED
    BY <1>4, <1>5, <1>6, <1>7, <1>8 DEF IInv, RunInv

LEMMA MallocStep == ASSUME IInv, Malloc PROVE IInv'
  <1>1. /\ RunInv /\ TypeOK /\ currentTask = Kernel /\ machine = "runs"
        /\ pc \in {"malloc", "mallocEnd"}
    BY KernelRuns DEF Malloc
  <1>2. /\ pc' \in {"mallocEnd", "link"} /\ Linked' = Linked
        /\ UNCHANGED <<list, task, sched, space, mapped, machine, args, freed>>
    BY DEF Malloc, Goto, Linked, list
  <1>3. TypeOK'
    BY <1>1, <1>2 DEF Malloc, TypeOK, list, sched, space, args, Stages
  <1>4. BuildInv'
    BY <1>1, <1>2 DEF RunInv, BuildInv, Building, Unlinked, Numbered, Changes, Unmade, Whole,
         list, args
  <1>5. ListInv' /\ CurrentInv'
    BY <1>1, <1>2 DEF RunInv, ListInv, CurrentInv, list, sched
  <1>6. DirInv'
    BY <1>1, <1>2 DEF RunInv, DirInv, Inside, Changes, Entering, Leaving, sched, space, args
  <1>7. SpacesStayApart' /\ DummyNeverRuns'
    BY <1>1, <1>2 DEF IInv, SpacesStayApart, DummyNeverRuns, sched
  <1> QED
    BY <1>3, <1>4, <1>5, <1>6, <1>7 DEF IInv, RunInv

LEMMA LinkStep == ASSUME IInv, Link PROVE IInv'
  <1>1. /\ RunInv /\ TypeOK /\ pc = "link" /\ currentTask = Kernel /\ machine = "runs"
        /\ Kernel \notin Users
    BY KernelRuns DEF Link
  <1>2. /\ pc' = "id" /\ tasks' = Append(tasks, new)
        /\ UNCHANGED <<task, currentID, sched, space, mapped, machine, args, freed>>
    BY DEF Link, Goto
  <1>3. new \in Users /\ Unmade(new) /\ new \in Tasks
    BY <1>1 DEF RunInv, BuildInv, Unlinked, Building, Tasks
  <1>4. /\ tasks' \in Seq(Tasks) /\ Len(tasks') = Len(tasks) + 1 /\ tasks'[Len(tasks) + 1] = new
        /\ \A i \in 1 .. Len(tasks) : tasks'[i] = tasks[i]
        /\ tasks \in Seq(Tasks) /\ Len(tasks) \in Nat /\ tasks' # <<>>
        /\ tasks # <<>> => Len(tasks) >= 1
    BY <1>1, <1>2, <1>3 DEF TypeOK
  <1>5. Linked' = Linked \cup {new}
    <2>1. Linked = {tasks[i] : i \in 1 .. Len(tasks)}
      BY <1>4 DEF Linked
    <2>2. Linked' = {tasks'[i] : i \in 1 .. Len(tasks')}
      BY <1>4 DEF Linked
    <2> QED
      BY <1>4, <2>1, <2>2
  <1>6. TypeOK'
    <2>1. \A i, j \in DOMAIN tasks' : tasks'[i] = tasks'[j] => i = j
      <3>1. \A i, j \in 1 .. Len(tasks) : tasks[i] = tasks[j] => i = j
        BY <1>1, <1>4 DEF TypeOK
      <3>2. \A i \in 1 .. Len(tasks) : tasks[i] # new
        BY <1>3, <1>4 DEF Unmade, Linked
      <3>3. DOMAIN tasks' = 1 .. Len(tasks) + 1
        BY <1>4
      <3> QED
        BY <1>4, <3>1, <3>2, <3>3
    <2> QED
      BY <1>1, <1>2, <1>4, <2>1 DEF Link, TypeOK, sched, space, args, Stages
  <1>7. BuildInv'
    BY <1>1, <1>2, <1>3, <1>5 DEF RunInv, BuildInv, Building, Unlinked, Numbered, Changes,
         Unmade, Whole, args
  <1>8. ListInv'
    <2>1. tasks' # <<>> /\ tasks'[1] = Kernel
      BY <1>1, <1>4 DEF RunInv, ListInv
    <2>2. ASSUME NEW u \in Linked \cap Users PROVE task[u].id # 0
      BY <1>1, <1>3 DEF RunInv, BuildInv, Unmade, Whole, TypeOK
    <2>3. task[new].id = 0
      BY <1>3 DEF Unmade, Zeroed
    <2> QED
      BY <1>1, <1>2, <1>5, <2>1, <2>2, <2>3 DEF RunInv, ListInv
  <1>9. CurrentInv'
    BY <1>1, <1>2, <1>5 DEF RunInv, CurrentInv, sched
  <1>10. DirInv'
    BY <1>1, <1>2 DEF RunInv, DirInv, Inside, Changes, Entering, Leaving, sched, space, args
  <1>11. SpacesStayApart' /\ DummyNeverRuns'
    BY <1>1, <1>2 DEF IInv, SpacesStayApart, DummyNeverRuns, sched
  <1> QED
    BY <1>6, <1>7, <1>8, <1>9, <1>10, <1>11 DEF IInv, RunInv

LEMMA GetFreeIDStep == ASSUME IInv, GetFreeID PROVE IInv'
  <1>1. /\ RunInv /\ TypeOK /\ pc = "id" /\ currentTask = Kernel /\ machine = "runs"
        /\ Kernel \notin Users
    BY KernelRuns DEF GetFreeID
  <1>2. /\ pc' = "created" /\ currentID' = currentID + 1
        /\ task' = [task EXCEPT ![new].id = currentID]
        /\ UNCHANGED <<tasks, sched, space, mapped, machine, args, freed>>
    BY DEF GetFreeID, Goto
  <1>3. /\ new \in Users /\ new \in Linked /\ task[new] = Zeroed /\ mapped[new] = {}
        /\ new \in Tasks /\ new # Dummy /\ currentID \in Nat /\ currentID >= 1
    BY <1>1, TasksAssumption DEF RunInv, BuildInv, ListInv, Building, Tasks, TypeOK
  <1>4. Linked' = Linked
    BY <1>2 DEF Linked
  <1>5. TypeOK'
    <2>1. [task[new] EXCEPT !.id = currentID] \in TaskRecords
      BY <1>1, <1>3 DEF TypeOK, TaskRecords
    <2>2. task' \in [Tasks -> TaskRecords]
      BY <1>1, <1>2, <1>3, <2>1 DEF TypeOK
    <2> QED
      BY <1>1, <1>2, <1>3, <2>2 DEF GetFreeID, TypeOK, sched, space, args, Stages
  <1>6. /\ \A t \in Tasks : t # new => task'[t] = task[t]
        /\ task'[new] = [Zeroed EXCEPT !.id = currentID]
    BY <1>1, <1>2, <1>3 DEF TypeOK, TaskRecords
  <1>7. BuildInv'
    <2>1. Half(new)'
      BY <1>2, <1>3, <1>4, <1>6
      DEF Half, Zeroed, NoPageDir, NoStack, NoContext, NoCode, args
    <2>2. ASSUME NEW u \in Users, u # new PROVE Unmade(u)' \/ Whole(u)'
      BY <1>1, <1>2, <1>3, <1>4, <1>6, <2>2 DEF RunInv, BuildInv, Unmade, Whole, Tasks
    <2> QED
      BY <1>2, <1>3, <2>1, <2>2 DEF BuildInv, Building, Unlinked, Numbered, Changes, args
  <1>8. ListInv'
    <2>1. ASSUME NEW u \in Linked \cap Users, u # new PROVE task[u].id # currentID
      BY <1>1, <1>3, <2>1 DEF RunInv, BuildInv, Unmade, Whole
    <2> QED
      BY <1>1, <1>2, <1>3, <1>4, <1>6, <2>1 DEF RunInv, ListInv, Tasks, Zeroed
  <1>9. CurrentInv'
    BY <1>1, <1>2, <1>3, <1>4, <1>6 DEF RunInv, CurrentInv, sched, Tasks
  <1>10. DirInv'
    BY <1>1, <1>2, <1>3, <1>6 DEF RunInv, DirInv, Inside, Changes, Entering, Leaving, sched, space,
         args, Tasks
  <1>11. SpacesStayApart' /\ DummyNeverRuns'
    BY <1>1, <1>2, <1>3, <1>6 DEF IInv, SpacesStayApart, DummyNeverRuns, sched, Zeroed, Tasks
  <1> QED
    BY <1>5, <1>7, <1>8, <1>9, <1>10, <1>11 DEF IInv, RunInv

LEMMA SetFieldsStep == ASSUME IInv, SetFields PROVE IInv'
  <1>1. /\ RunInv /\ TypeOK /\ currentTask = Kernel /\ machine = "runs" /\ Kernel \notin Users
        /\ pc \in {"created", "pageDir", "fill", "ready"}
    BY KernelRuns DEF SetFields
  <1>2. /\ UNCHANGED <<list, sched, space, mapped, locks, machine, args, freed>>
        /\ Linked' = Linked
    BY DEF SetFields, Linked, list
  <1>3. /\ new \in Users /\ new \in Tasks /\ new # Dummy /\ new # Kernel /\ Half(new)
        /\ task[new] \in TaskRecords
    BY <1>1, TasksAssumption DEF RunInv, BuildInv, Building, Numbered, Tasks, TypeOK
  <1>4. /\ task' \in [Tasks -> TaskRecords]
        /\ \A t \in Tasks : t # new => task'[t] = task[t]
        /\ task'[new].id = task[new].id
    <2> DEFINE Set(r) == r \in TaskRecords /\ task' = [task EXCEPT ![new] = r] /\ r.id = task[new].id
    <2>1. CASE task' = [task EXCEPT ![new].status = "CREATED"]
      <3>1. Set([task[new] EXCEPT !.status = "CREATED"])
        BY <1>3, <2>1 DEF TaskRecords
      <3> QED
        BY <1>1, <1>3, <3>1 DEF TypeOK
    <2>2. CASE task' = [task EXCEPT ![new].pageDir = new]
      <3>1. Set([task[new] EXCEPT !.pageDir = new])
        BY <1>3, <2>2 DEF TaskRecords
      <3> QED
        BY <1>1, <1>3, <3>1 DEF TypeOK
    <2>3. CASE task' = [task EXCEPT ![new].rsp0 = new, ![new].context = "own"]
      <3> DEFINE r == [task[new] EXCEPT !.rsp0 = new, !.context = "own"]
      <3>1. r \in TaskRecords /\ r.id = task[new].id
        BY <1>3 DEF TaskRecords
      <3>2. task' = [task EXCEPT ![new] = r]
        BY <1>1, <1>3, <2>3 DEF TypeOK
      <3> QED
        BY <1>1, <1>3, <3>1, <3>2 DEF TypeOK
    <2>4. CASE task' = [task EXCEPT ![new].status = "READY"]
      <3>1. Set([task[new] EXCEPT !.status = "READY"])
        BY <1>3, <2>4 DEF TaskRecords
      <3> QED
        BY <1>1, <1>3, <3>1 DEF TypeOK
    <2> QED
      BY <2>1, <2>2, <2>3, <2>4 DEF SetFields
  <1>5. TypeOK'
    BY <1>1, <1>2, <1>4 DEF SetFields, Goto, TypeOK, list, sched, space, args, Stages, Changes
  <1>6. BuildInv'
    <2>1. IF pc = "ready" THEN Whole(new)' ELSE Half(new)'
      BY <1>1, <1>2, <1>3 DEF SetFields, Goto, At, TypeOK, TaskRecords, Half, Whole,
           NoPageDir, NoStack, NoContext, NoCode, list, args
    <2>2. IF pc = "ready" THEN pc' = "idle" ELSE pc' \in Numbered
      BY DEF SetFields, Goto, At, Numbered, Changes
    <2>3. ASSUME NEW u \in Users, u # new PROVE Unmade(u)' \/ Whole(u)'
      BY <1>1, <1>2, <1>3, <1>4, <2>3 DEF RunInv, BuildInv, Unmade, Whole, Tasks, list
    <2> QED
      BY <1>2, <1>3, <2>1, <2>2, <2>3 DEF BuildInv, Building, Unlinked, Numbered, Changes, args
  <1>7. ListInv'
    BY <1>1, <1>2, <1>3, <1>4 DEF RunInv, ListInv, Tasks, list
  <1>8. CurrentInv'
    BY <1>1, <1>2, <1>3, <1>4 DEF RunInv, CurrentInv, sched, Tasks
  <1>9. DirInv'
    <2>1. pc' \in {"idle", "pageDir", "enterStack", "enterCode"}
      BY DEF SetFields, Goto
    <2>2. store = "pageDir" /\ ~Inside /\ ~Inside' /\ store' = store
      BY <1>1, <1>2, <2>1 DEF RunInv, DirInv, Inside, Changes, Entering, Leaving, args
    <2> QED
      BY <1>1, <1>2, <1>3, <1>4, <2>1, <2>2 DEF RunInv, DirInv, Leaving, sched, space, args, Tasks
  <1>10. SpacesStayApart' /\ DummyNeverRuns'
    <2>1. task'[new].pageDir \in {new, NULL}
      BY <1>1, <1>3 DEF SetFields, TypeOK, TaskRecords, IInv, SpacesStayApart
    <2> QED
      BY <1>1, <1>2, <1>3, <1>4, <2>1 DEF IInv, SpacesStayApart, DummyNeverRuns, sched, Tasks
  <1> QED
    BY <1>5, <1>6, <1>7, <1>8, <1>9, <1>10 DEF IInv, RunInv

LEMMA ChangePageDirStep ==
    ASSUME IInv, NEW call \in Changes, ChangePageDir(call) PROVE IInv'
  <1>1. /\ RunInv /\ TypeOK /\ pc = call /\ currentTask = Kernel /\ machine = "runs"
        /\ Kernel \notin Users /\ Kernel \in Tasks
    BY KernelRuns DEF ChangePageDir
  <1>2. /\ UNCHANGED <<list, sched, mapped, locks, machine, new, freed>>
        /\ Linked' = Linked
    BY DEF ChangePageDir, Linked, list
  <1>3. /\ new \in Users /\ new \in Tasks /\ new # Dummy /\ new # Kernel /\ Half(new)
    BY <1>1, TasksAssumption DEF RunInv, BuildInv, Building, Numbered, Tasks
  <1>4. Target(call) = IF Enters(call) THEN new ELSE Kernel
    BY <1>1, <1>3 DEF Target, Half, Enters, Changes, NoPageDir, RunInv, DirInv, Leaving
  <1>5. store = "pageDir" /\ Enters(call) => g_PageDir = Kernel
    BY <1>1 DEF RunInv, DirInv, Enters, Inside, Entering, Leaving
  <1>6. pc' = IF store = "g_PageDir" THEN Then(call) ELSE call
    BY <1>1 DEF ChangePageDir, Goto
  <1>7. Then(call) \in {"mapStack", "fill", "mapCode", "ready"}
    BY DEF Changes, Then
  <1>8. /\ task' \in [Tasks -> TaskRecords]
        /\ \A t \in Tasks : t # Kernel => task'[t] = task[t]
        /\ task'[Kernel] = [task[Kernel] EXCEPT !.pageDir =
                              IF store = "pageDir" THEN Target(call) ELSE @]
    <2>1. task[Kernel] \in TaskRecords /\ Target(call) \in Tasks
      BY <1>1, <1>3, <1>4 DEF TypeOK
    <2>2. \A pd \in Tasks : [task[Kernel] EXCEPT !.pageDir = pd] \in TaskRecords
      BY <2>1 DEF TaskRecords
    <2>3. task[Kernel] = [task[Kernel] EXCEPT !.pageDir = @]
      BY <2>1 DEF TaskRecords
    <2>4. CASE store = "pageDir"
      BY <1>1, <2>1, <2>2, <2>4 DEF ChangePageDir, TaskPageDir, TypeOK
    <2>5. CASE store # "pageDir"
      BY <1>1, <2>3, <2>5 DEF ChangePageDir, TypeOK
    <2> QED
      BY <2>4, <2>5
  <1>9. /\ cr3' \in Tasks /\ g_PageDir' \in Tasks /\ old' \in Tasks \cup {NULL}
        /\ store' \in {"pageDir", "cr3", "g_PageDir"}
    BY <1>1, <1>3, <1>4 DEF ChangePageDir, TypeOK, OldPageDir, space
  <1>10. TypeOK'
    BY <1>1, <1>2, <1>6, <1>7, <1>8, <1>9 DEF TypeOK, list, sched, Stages
  <1>11. BuildInv'
    <2>1. Half(new)'
      BY <1>1, <1>2, <1>3, <1>6, <1>8 DEF Half, NoPageDir, NoStack, NoContext, NoCode, Changes, Then, list
    <2>2. ASSUME NEW u \in Users, u # new PROVE Unmade(u)' \/ Whole(u)'
      BY <1>1, <1>2, <1>8, <2>2 DEF RunInv, BuildInv, Unmade, Whole, Tasks, list
    <2> QED
      BY <1>1, <1>2, <1>3, <1>6, <1>7, <2>1, <2>2
      DEF BuildInv, Building, Unlinked, Numbered, Changes
  <1>12. ListInv' /\ CurrentInv'
    <2>1. /\ task'[Kernel].id = task[Kernel].id /\ task'[Kernel].status = task[Kernel].status
      BY <1>1, <1>8 DEF TypeOK, TaskRecords
    <2> QED
      BY <1>1, <1>2, <1>8, <2>1, TasksAssumption DEF RunInv, ListInv, CurrentInv, list, sched, Tasks
  <1>13. DirInv'
    <2>1. /\ task'[Kernel].rsp0 = task[Kernel].rsp0
          /\ task'[Kernel].pageDir = IF store = "pageDir" THEN Target(call) ELSE task[Kernel].pageDir
      BY <1>1, <1>8 DEF TypeOK, TaskRecords
    <2>2. CASE store = "pageDir"
      BY <1>1, <1>2, <1>4, <1>5, <1>6, <2>1, <2>2 DEF ChangePageDir, OldPageDir, RunInv, DirInv, Inside,
           Entering, Leaving, Changes, Enters, sched
    <2>3. CASE store = "cr3"
      BY <1>1, <1>2, <1>4, <1>6, <2>1, <2>3 DEF ChangePageDir, RunInv, DirInv, Inside,
           Entering, Leaving, Changes, Enters, sched, space
    <2>4. CASE store = "g_PageDir"
      BY <1>1, <1>2, <1>4, <1>6, <2>1, <2>4 DEF ChangePageDir, RunInv, DirInv, Inside, Then,
           Entering, Leaving, Changes, Enters, sched, space
    <2> QED
      BY <1>1, <2>2, <2>3, <2>4 DEF TypeOK
  <1>14. SpacesStayApart' /\ DummyNeverRuns'
    BY <1>1, <1>2, <1>8 DEF IInv, SpacesStayApart, DummyNeverRuns, sched, Tasks
  <1> QED
    BY <1>10, <1>11, <1>12, <1>13, <1>14 DEF IInv, RunInv

LEMMA StackMapUserStep == ASSUME IInv, StackMapUser PROVE IInv'
  <1>1. /\ RunInv /\ TypeOK /\ pc = "mapStack" /\ currentTask = Kernel /\ machine = "runs"
        /\ mapped[Kernel] = {} /\ Kernel \notin Users
    BY KernelRuns DEF StackMapUser
  <1>2. /\ pc' = "leaveStack" /\ Linked' = Linked
        /\ UNCHANGED <<list, task, sched, space, args, freed>>
    BY DEF StackMapUser, Goto, Linked, list
  <1>3. /\ new \in Users /\ new \in Tasks /\ Half(new)
        /\ store = "pageDir" /\ old = Kernel
        /\ task[new].pageDir = new /\ g_PageDir = new /\ cr3 = new
    BY <1>1 DEF RunInv, BuildInv, DirInv, Inside, Building, Numbered, Changes, Half, NoPageDir,
       Tasks, TypeOK
  <1>4. /\ machine' = "runs"
        /\ mapped' = [mapped EXCEPT ![new] = {"stack"}]
    <2>1. mapped[new] = {}
      BY <1>1, <1>3 DEF Half, NoStack, NoPageDir
    <2> QED
      BY <1>1, <1>3, <2>1 DEF StackMapUser, MapPages, TypeOK
  <1>5. /\ mapped' \in [Tasks -> SUBSET {"stack", "code"}]
        /\ mapped'[new] = {"stack"}
        /\ \A t \in Tasks : t # new => mapped'[t] = mapped[t]
    BY <1>1, <1>3, <1>4 DEF TypeOK
  <1>6. TypeOK'
    BY <1>1, <1>2, <1>4, <1>5 DEF StackMapUser, TypeOK, list, sched, space, args, Stages, Changes
  <1>7. BuildInv'
    <2>1. Half(new)'
      BY <1>1, <1>2, <1>3, <1>5 DEF Half, NoPageDir, NoStack, NoContext, NoCode, list, args
    <2>2. ASSUME NEW u \in Users, u # new PROVE Unmade(u)' \/ Whole(u)'
      BY <1>1, <1>2, <1>5, <2>2 DEF RunInv, BuildInv, Unmade, Whole, Tasks, list
    <2> QED
      BY <1>2, <1>3, <2>1, <2>2 DEF BuildInv, Building, Unlinked, Numbered, Changes, args
  <1>8. ListInv' /\ CurrentInv'
    BY <1>1, <1>2 DEF RunInv, ListInv, CurrentInv, list, sched
  <1>9. DirInv'
    BY <1>1, <1>2, <1>3 DEF RunInv, DirInv, Inside, Changes, Entering, Leaving, sched, space, args
  <1>10. SpacesStayApart' /\ DummyNeverRuns'
    BY <1>1, <1>2, <1>3, <1>4, <1>5 DEF IInv, SpacesStayApart, DummyNeverRuns, sched, Tasks
  <1> QED
    BY <1>6, <1>7, <1>8, <1>9, <1>10 DEF IInv, RunInv

LEMMA MapCodeStep == ASSUME IInv, MapCode PROVE IInv'
  <1>1. /\ RunInv /\ TypeOK /\ pc = "mapCode" /\ currentTask = Kernel /\ machine = "runs"
        /\ mapped[Kernel] = {} /\ Kernel \notin Users
    BY KernelRuns DEF MapCode
  <1>2. /\ pc' = "leaveCode" /\ Linked' = Linked
        /\ UNCHANGED <<list, task, sched, space, args, freed>>
    BY DEF MapCode, Goto, Linked, list
  <1>3. /\ new \in Users /\ new \in Tasks /\ Half(new)
        /\ store = "pageDir" /\ old = Kernel
        /\ task[new].pageDir = new /\ g_PageDir = new /\ cr3 = new
    BY <1>1 DEF RunInv, BuildInv, DirInv, Inside, Building, Numbered, Changes, Half, NoPageDir,
       Tasks, TypeOK
  <1>4. /\ machine' = "runs"
        /\ mapped' = [mapped EXCEPT ![new] = {"stack", "code"}]
    <2>1. mapped[new] = {"stack"}
      BY <1>1, <1>3 DEF Half, NoCode, NoContext, NoStack, NoPageDir
    <2>2. mapped' = [mapped EXCEPT ![new] = {"stack"} \cup {"code"}]
      BY <1>1, <1>3, <2>1 DEF MapCode, MapPages, TypeOK
    <2>3. {"stack"} \cup {"code"} = {"stack", "code"}
      OBVIOUS
    <2>4. mapped'[new] = {"stack", "code"}
      BY <1>1, <1>3, <2>2 DEF TypeOK
    <2> QED
      BY <1>1, <1>3, <2>2, <2>3, <2>4 DEF MapCode, MapPages
  <1>5. /\ mapped' \in [Tasks -> SUBSET {"stack", "code"}]
        /\ mapped'[new] = {"stack", "code"}
        /\ \A t \in Tasks : t # new => mapped'[t] = mapped[t]
    BY <1>1, <1>3, <1>4 DEF TypeOK
  <1>6. TypeOK'
    BY <1>1, <1>2, <1>4, <1>5 DEF MapCode, TypeOK, list, sched, space, args, Stages, Changes
  <1>7. BuildInv'
    <2>1. Half(new)'
      BY <1>1, <1>2, <1>3, <1>5 DEF Half, NoPageDir, NoStack, NoContext, NoCode, list, args
    <2>2. ASSUME NEW u \in Users, u # new PROVE Unmade(u)' \/ Whole(u)'
      BY <1>1, <1>2, <1>5, <2>2 DEF RunInv, BuildInv, Unmade, Whole, Tasks, list
    <2> QED
      BY <1>2, <1>3, <2>1, <2>2 DEF BuildInv, Building, Unlinked, Numbered, Changes, args
  <1>8. ListInv' /\ CurrentInv'
    BY <1>1, <1>2 DEF RunInv, ListInv, CurrentInv, list, sched
  <1>9. DirInv'
    BY <1>1, <1>2, <1>3 DEF RunInv, DirInv, Inside, Changes, Entering, Leaving, sched, space, args
  <1>10. SpacesStayApart' /\ DummyNeverRuns'
    BY <1>1, <1>2, <1>3, <1>4, <1>5 DEF IInv, SpacesStayApart, DummyNeverRuns, sched, Tasks
  <1> QED
    BY <1>6, <1>7, <1>8, <1>9, <1>10 DEF IInv, RunInv

LEMMA TaskKillStep == ASSUME IInv, NEW u \in Users, TaskKill(u) PROVE IInv'
  <1>1. /\ RunInv /\ TypeOK /\ pc = "idle" /\ currentTask = Kernel /\ machine = "runs"
        /\ mapped[Kernel] = {} /\ Kernel \notin Users /\ u \in Linked
    BY KernelRuns DEF TaskKill
  <1>2. /\ pc' = "unlock" /\ Linked' = Linked
        /\ UNCHANGED <<list, task, sched, space, mapped, machine, old, store, freed>>
    BY DEF TaskKill, Goto, Linked, list
  <1>3. Whole(u)
    BY <1>1 DEF RunInv, BuildInv, Building, Unlinked, Numbered, Changes, Unmade
  <1>4. new' = u
    <2>1. \A t \in Linked : task[t].id = task[u].id => t = u
      <3>1. \A t \in Linked : t \in {Kernel, Dummy} \cup Users
        BY <1>1 DEF Linked, TypeOK, Tasks
      <3> QED
        BY <1>1, <1>3, <3>1 DEF RunInv, ListInv, Whole, TypeOK
    <2> QED
      BY <1>1, <2>1, TaskFound DEF TaskKill
  <1>5. TypeOK'
    BY <1>1, <1>2, <1>4 DEF TaskKill, TypeOK, list, sched, space, Stages
  <1>6. BuildInv'
    BY <1>1, <1>2, <1>3, <1>4 DEF RunInv, BuildInv, Building, Unlinked, Numbered, Changes,
       Unmade, Whole, list
  <1>7. ListInv' /\ CurrentInv'
    BY <1>1, <1>2 DEF RunInv, ListInv, CurrentInv, Whole, list, sched
  <1>8. DirInv'
    BY <1>1, <1>2 DEF RunInv, DirInv, Inside, Changes, Entering, Leaving, sched, space
  <1>9. SpacesStayApart' /\ DummyNeverRuns'
    BY <1>1, <1>2 DEF IInv, SpacesStayApart, DummyNeverRuns, sched
  <1> QED
    BY <1>5, <1>6, <1>7, <1>8, <1>9 DEF IInv, RunInv

LEMMA MarkStep == ASSUME IInv, Mark PROVE IInv'
  <1>1. /\ RunInv /\ TypeOK /\ currentTask = Kernel /\ machine = "runs" /\ Kernel \notin Users
        /\ pc \in {"unlock", "mark"}
    BY KernelRuns DEF Mark
  <1>2. /\ UNCHANGED <<list, sched, space, mapped, machine, args, freed>>
        /\ Linked' = Linked
        /\ pc' = IF pc = "unlock" THEN "mark" ELSE "idle"
    BY DEF Mark, At, Goto, Linked, list
  <1>3. /\ new \in Users /\ new \in Tasks /\ new # Dummy /\ new # Kernel /\ Whole(new)
        /\ task[new] \in TaskRecords
    BY <1>1, TasksAssumption DEF RunInv, BuildInv, Tasks, TypeOK
  <1>4. /\ task' \in [Tasks -> TaskRecords]
        /\ \A t \in Tasks : t # new => task'[t] = task[t]
        /\ task'[new] = [task[new] EXCEPT !.status = IF pc = "mark" THEN "DEAD" ELSE @]
    <2>1. CASE pc = "mark"
      <3>1. [task[new] EXCEPT !.status = "DEAD"] \in TaskRecords
        BY <1>3 DEF TaskRecords
      <3> QED
        BY <1>1, <1>3, <2>1, <3>1 DEF Mark, At, TypeOK
    <2>2. CASE pc = "unlock"
      <3>1. task' = task
        BY <2>2 DEF Mark, At
      <3>2. task[new] = [task[new] EXCEPT !.status = @]
        BY <1>3 DEF TaskRecords
      <3> QED
        BY <1>1, <2>2, <3>1, <3>2 DEF TypeOK
    <2> QED
      BY <1>1, <2>1, <2>2
  <1>5. /\ task'[new].id = task[new].id /\ task'[new].pageDir = new /\ task'[new].rsp0 = new
        /\ task'[new].status \in {task[new].status, "DEAD"}
    BY <1>3, <1>4 DEF TaskRecords, Whole
  <1>6. TypeOK'
    BY <1>1, <1>2, <1>4 DEF Mark, TypeOK, list, sched, space, args, Stages
  <1>7. BuildInv'
    <2>1. Whole(new)'
      BY <1>2, <1>3, <1>5 DEF Whole, list, args
    <2>2. ASSUME NEW u \in Users, u # new PROVE Unmade(u)' \/ Whole(u)'
      BY <1>1, <1>2, <1>4, <2>2 DEF RunInv, BuildInv, Building, Unlinked, Numbered, Changes,
         Unmade, Whole, Tasks, list
    <2> QED
      BY <1>2, <1>3, <2>1, <2>2 DEF BuildInv, Building, Unlinked, Numbered, Changes, args
  <1>8. ListInv'
    <2>1. \A t \in Tasks : task'[t].id = task[t].id
      BY <1>4, <1>5
    <2>2. Linked \subseteq Tasks /\ Kernel \in Tasks /\ Dummy \in Tasks
      BY <1>1 DEF TypeOK, Linked, Tasks
    <2>3. \A t, u \in Linked' \cap Users : task'[t].id = task'[u].id => t = u
      BY <1>1, <1>2, <2>1, <2>2 DEF RunInv, ListInv
    <2> QED
      BY <1>1, <1>2, <1>3, <1>4, <2>2, <2>3 DEF RunInv, ListInv, list
  <1>11. CurrentInv'
    BY <1>1, <1>2, <1>3, <1>4 DEF RunInv, CurrentInv, sched, Tasks
  <1>9. DirInv'
    BY <1>1, <1>2, <1>3, <1>4 DEF RunInv, DirInv, Inside, Changes, Entering, Leaving, sched, space,
       args, Tasks
  <1>10. SpacesStayApart' /\ DummyNeverRuns'
    BY <1>1, <1>2, <1>3, <1>4, <1>5 DEF IInv, SpacesStayApart, DummyNeverRuns, sched, Tasks
  <1> QED
    BY <1>6, <1>7, <1>8, <1>9, <1>10, <1>11 DEF IInv, RunInv

\* What schedule() finds depends on nothing else.
LEMMA SameOutcome ==
    ASSUME UNCHANGED <<tasks, task, currentTask, locks, mapped, g_PageDir>>
    PROVE  ReapOutcome' = ReapOutcome
  <1>1. Successors(currentTask)' = Successors(currentTask)
    BY DEF Successors
  <1>2. Requeued' = Requeued
    BY DEF Requeued
  <1>3. Skipped' = Skipped
    BY <1>1, <1>2 DEF Skipped, Eligible
  <1>4. \A id : TaskGet(id)' = TaskGet(id)
    BY DEF TaskGet
  <1>5. Reaped' = Reaped
    BY <1>1, <1>3, <1>4 DEF Reaped, Reapable
  <1> QED
    BY <1>5 DEF ReapOutcome

LEMMA TickFailsStep == ASSUME IInv, TickFails PROVE IInv'
  <1>1. /\ UNCHANGED <<list, task, sched, space, mapped, locks, local, freed>>
        /\ machine' = ReapOutcome /\ ReapOutcome # "runs"
    BY DEF TickFails
  <1>2. ReapOutcome \in {"runs", "panicked", "stuck"}
    BY DEF ReapOutcome
  <1>3. TypeOK'
    BY <1>1, <1>2 DEF IInv, TypeOK, list, sched, space, local, args
  <1>4. ReapOutcome' = ReapOutcome
    BY <1>1, SameOutcome DEF list, sched, space
  <1>5. SpacesStayApart' /\ DummyNeverRuns'
    BY <1>1, <1>4 DEF IInv, SpacesStayApart, DummyNeverRuns, sched
  <1> QED
    BY <1>1, <1>3, <1>5 DEF IInv

LEMMA IretqStep == ASSUME IInv, Iretq PROVE IInv'
  <1>1. /\ UNCHANGED <<list, task, currentTask, tss, space, mapped, locks, machine, local, freed>>
        /\ unfinished' = FALSE /\ machine = "runs" /\ Linked' = Linked
    BY DEF Iretq, Linked, list
  <1>2. TypeOK'
    BY <1>1 DEF IInv, TypeOK, list, space, local, args
  <1>3. BuildInv' /\ ListInv'
    BY <1>1 DEF IInv, RunInv, BuildInv, ListInv, Unmade, Whole, Half, list, local, args
  <1>4. DirInv' /\ CurrentInv'
    BY <1>1 DEF IInv, RunInv, DirInv, CurrentInv, Inside, Whole, list, space, local, args
  <1>5. SpacesStayApart' /\ DummyNeverRuns'
    BY <1>1 DEF IInv, SpacesStayApart, DummyNeverRuns
  <1> QED
    BY <1>2, <1>3, <1>4, <1>5 DEF IInv, RunInv

\* What a tick unlinks, and what it leaves.
LEMMA TickUnlinks ==
    ASSUME TypeOK, RunInv, tasks' = Without(tasks, Reaped)
    PROVE  /\ Linked' = Linked \ Reaped
           /\ tasks' \in Seq(Tasks)
           /\ \A i, j \in DOMAIN tasks' : tasks'[i] = tasks'[j] => i = j
           /\ tasks' # <<>> /\ tasks'[1] = Kernel
  <1>1. tasks \in Seq(Tasks) /\ Distinct(tasks)
    BY DEF TypeOK, Distinct
  <1>2. tasks' \in Seq(Tasks) /\ Keeps(tasks, Len(tasks), Reaped, tasks')
    BY <1>1, WithoutKeeps
  <1>3. Linked = {tasks[i] : i \in 1 .. Len(tasks)} /\ Linked' = {tasks'[i] : i \in 1 .. Len(tasks')}
    BY <1>1, <1>2 DEF Linked
  <1>4. Linked' = Linked \ Reaped
    <2>1. ASSUME NEW t \in Linked' PROVE t \in Linked \ Reaped
      <3>1. PICK j \in 1 .. Len(tasks') : tasks'[j] = t
        BY <1>3
      <3>2. t \notin Reaped /\ \E i \in 1 .. Len(tasks) : tasks[i] = t
        BY <1>2, <3>1 DEF Keeps
      <3> QED
        BY <1>3, <3>2
    <2>2. ASSUME NEW t \in Linked \ Reaped PROVE t \in Linked'
      <3>1. PICK i \in 1 .. Len(tasks) : tasks[i] = t
        BY <1>3
      <3>2. \E j \in 1 .. Len(tasks') : tasks'[j] = t
        BY <1>2, <3>1 DEF Keeps
      <3> QED
        BY <1>3, <3>2
    <2> QED
      BY <2>1, <2>2
  <1>5. \A i, j \in DOMAIN tasks' : tasks'[i] = tasks'[j] => i = j
    BY <1>1, <1>2 DEF Keeps, Distinct
  <1>6. Kernel \notin Reaped
    BY ReapedAreDead, TasksAssumption
  <1>7. Len(tasks) > 0 /\ tasks[1] = Kernel
    BY <1>1 DEF RunInv, ListInv
  <1> QED
    BY <1>2, <1>4, <1>5, <1>6, <1>7 DEF Keeps

\* A task that can be switched to without a fault is the kernel or whole.
LEMMA NextTaskIsWhole ==
    ASSUME IInv, machine = "runs"
    PROVE  /\ NextTask \in {Kernel} \cup Users /\ NextTask \in Linked /\ NextTask \notin Reaped
           /\ NextTask \in Users /\ task[NextTask].rsp0 # NULL => Whole(NextTask)
  <1> DEFINE n == NextTask
  <1>1. TypeOK /\ RunInv /\ CurrentInv /\ currentTask \in Tasks /\ currentTask # Dummy
    BY DEF IInv, RunInv, TypeOK, DummyNeverRuns
  <1>2. n \in Linked /\ Requeued[n].status = "READY"
    BY <1>1, NextTaskIsReady
  <1> HIDE DEF n
  <1>3. Linked \subseteq Tasks
    BY <1>1 DEF Linked, TypeOK
  <1>4. task[n].status = "READY" \/ (n = currentTask /\ task[n].status = "RUNNING")
    BY <1>1, <1>2, <1>3 DEF Requeued, CurrentInv, TypeOK
  <1>5. n \in {Kernel} \cup Users
    BY <1>1, <1>2, <1>3, <1>4 DEF Tasks, RunInv, ListInv
  <1>6. n \notin Reaped
    BY <1>1, <1>4, ReapedAreDead
  <1>7. ASSUME n \in Users, task[n].rsp0 # NULL PROVE Whole(n)
    <2>1. ~ Unmade(n)
      BY <1>2 DEF Unmade
    <2>2. CASE pc \in Building /\ n = new
      <3>1. pc = "id" => task[n].rsp0 = NULL
        BY <1>1, <2>2 DEF RunInv, BuildInv, Zeroed
      <3>2. pc \in Numbered => Half(n)
        BY <1>1, <2>2 DEF RunInv, BuildInv
      <3>3. Half(n) => task[n].status = "CREATED"
        BY <1>7 DEF Half, NoContext, NoStack, NoPageDir
      <3>4. pc \in Numbered => n = currentTask /\ Whole(n)
        BY <1>1, <1>4, <1>7, <3>2, <3>3, TasksAssumption DEF CurrentInv, Tasks
      <3>5. pc \in Unlinked => Unmade(n)
        BY <1>1, <2>2 DEF RunInv, BuildInv
      <3> QED
        BY <1>7, <2>1, <2>2, <3>1, <3>4, <3>5 DEF Building
    <2> QED
      BY <1>1, <1>7, <2>1, <2>2 DEF RunInv, BuildInv
  <1> QED
    BY <1>2, <1>5, <1>6, <1>7 DEF n

LEMMA TickStep == ASSUME IInv, Tick PROVE IInv'
  <1> DEFINE n == NextTask
             faults == task[n].rsp0 = NULL
             interrupted == IF unfinished THEN "handler" ELSE "own"
  <1>1. /\ TypeOK /\ RunInv /\ machine = "runs" /\ mapped[Kernel] = {} /\ currentTask # Dummy
        /\ Kernel \in Tasks /\ Kernel \notin Users /\ Kernel # Dummy /\ Dummy \notin Users
        /\ Users \subseteq Tasks /\ currentTask \in Tasks /\ NULL \notin Tasks
    BY TasksAssumption DEF Tick, IInv, SpacesStayApart, DummyNeverRuns, Tasks, TypeOK
  <1>2. /\ tasks' = Without(tasks, Reaped)
        /\ freed' = freed \cup {<<"pageDir", t>> : t \in Reaped}
                          \cup {<<"stack", g_PageDir>> : t \in Reaped}
        /\ task' = [Requeued EXCEPT ![currentTask].context = interrupted,
                                    ![n].status = "RUNNING"]
        /\ currentTask' = n
        /\ tss' = task[n].rsp0
        /\ machine' = IF faults THEN "faulted" ELSE "runs"
        /\ cr3' = IF faults THEN cr3 ELSE task'[n].pageDir
        /\ g_PageDir' = IF faults THEN g_PageDir ELSE task'[n].pageDir
        /\ unfinished' \in BOOLEAN
        /\ UNCHANGED <<currentID, mapped, locks, local>>
    BY DEF Tick, ChangePageDirFake
  <1>3. /\ n \in {Kernel} \cup Users /\ n \in Linked /\ n \notin Reaped
        /\ n \in Users /\ ~faults => Whole(n)
    BY <1>1, NextTaskIsWhole
  <1>4. Reaped \subseteq Users /\ \A t \in Reaped : task[t].status = "DEAD"
    BY <1>1, ReapedAreDead
  <1>5. /\ Linked' = Linked \ Reaped
        /\ tasks' \in Seq(Tasks)
        /\ \A i, j \in DOMAIN tasks' : tasks'[i] = tasks'[j] => i = j
        /\ tasks' # <<>> /\ tasks'[1] = Kernel
    BY <1>1, <1>2, TickUnlinks
  <1>6. currentTask \in Linked /\ task[currentTask].status \in {"READY", "RUNNING"}
        /\ (currentTask \in Users => Whole(currentTask))
    BY <1>1 DEF RunInv, CurrentInv
  <1> HIDE DEF n, interrupted
  <1>7. /\ task' \in [Tasks -> TaskRecords]
        /\ \A t \in Tasks : /\ task'[t].id = task[t].id /\ task'[t].rsp0 = task[t].rsp0
                            /\ task'[t].pageDir = task[t].pageDir
                            /\ t \notin {currentTask, n} => task'[t] = task[t]
        /\ task'[n].status = "RUNNING"
        /\ n # currentTask => task'[currentTask].status = "READY"
    <2> DEFINE c == currentTask
               A == [Requeued EXCEPT ![c].context = interrupted]
               requeued == [task[c] EXCEPT !.status = "READY"]
               saved == [requeued EXCEPT !.context = interrupted]
    <2>1. task[c] \in TaskRecords /\ interrupted \in {"own", "handler"} /\ n \in Tasks
      BY <1>1, <1>3 DEF TypeOK, interrupted
    <2>2. requeued \in TaskRecords /\ saved \in TaskRecords
      BY <2>1 DEF TaskRecords
    <2>3. /\ saved.id = task[c].id /\ saved.rsp0 = task[c].rsp0 /\ saved.pageDir = task[c].pageDir
          /\ saved.status = "READY"
      BY <2>1 DEF TaskRecords
    <2>4. Requeued = [task EXCEPT ![c] = requeued]
      BY <1>1, <1>6 DEF Requeued, TypeOK
    <2> HIDE DEF requeued
    <2>5. A = [task EXCEPT ![c] = saved]
      BY <1>1, <2>4 DEF TypeOK
    <2> HIDE DEF saved
    <2>6. /\ A \in [Tasks -> TaskRecords] /\ A[c] = saved
          /\ \A t \in Tasks : t # c => A[t] = task[t]
      BY <1>1, <2>2, <2>5 DEF TypeOK
    <2>7. task' = [A EXCEPT ![n].status = "RUNNING"]
      BY <1>2
    <2> HIDE DEF A
    <2>8. [A[n] EXCEPT !.status = "RUNNING"] \in TaskRecords
      BY <2>1, <2>6 DEF TaskRecords
    <2>9. /\ task' \in [Tasks -> TaskRecords]
          /\ task'[n] = [A[n] EXCEPT !.status = "RUNNING"]
          /\ \A t \in Tasks : t # n => task'[t] = A[t]
      BY <2>1, <2>6, <2>7, <2>8
    <2>10. /\ task'[n].status = "RUNNING" /\ task'[n].id = A[n].id /\ task'[n].rsp0 = A[n].rsp0
           /\ task'[n].pageDir = A[n].pageDir
      <3>1. A[n] \in TaskRecords
        BY <2>1, <2>6
      <3> QED
        BY <2>9, <3>1 DEF TaskRecords
    <2>11. /\ A[c].id = task[c].id /\ A[c].rsp0 = task[c].rsp0
           /\ A[c].pageDir = task[c].pageDir /\ A[c].status = "READY"
      BY <2>3, <2>6
    <2> HIDE DEF c
    <2>12. ASSUME NEW t \in Tasks
           PROVE  /\ task'[t].id = task[t].id /\ task'[t].rsp0 = task[t].rsp0
                  /\ task'[t].pageDir = task[t].pageDir
                  /\ t \notin {c, n} => task'[t] = task[t]
      <3>1. A[t].id = task[t].id /\ A[t].rsp0 = task[t].rsp0 /\ A[t].pageDir = task[t].pageDir
        BY <2>6, <2>11
      <3> QED
        BY <2>6, <2>9, <2>10, <3>1
    <2>13. c \in Tasks
      BY <1>1 DEF c
    <2>14. n # c => task'[c].status = "READY"
      BY <2>9, <2>11, <2>13
    <2> QED
      BY <2>9, <2>10, <2>12, <2>14 DEF c
  <1>8. TypeOK'
    <2>1. freed' \subseteq {"stack", "pageDir"} \X Tasks
      BY <1>1, <1>2, <1>4 DEF TypeOK
    <2>2. tss' \in Tasks \cup {NULL} /\ currentTask' \in Tasks
      BY <1>1, <1>2, <1>3 DEF TypeOK, TaskRecords
    <2>3. ~faults => task'[n].pageDir \in Tasks
      <3>1. task[Kernel].pageDir \in Tasks
        BY <1>1 DEF RunInv, DirInv, BuildInv, Inside, Building, Numbered, Entering, Leaving, Changes
      <3> QED
        BY <1>1, <1>3, <1>7, <3>1 DEF Whole
    <2>4. cr3' \in Tasks /\ g_PageDir' \in Tasks
      BY <1>1, <1>2, <2>3 DEF TypeOK
    <2>5. machine' \in {"runs", "faulted", "panicked", "stuck"}
      BY <1>2
    <2> QED
      BY <1>1, <1>2, <1>5, <1>7, <2>1, <2>2, <2>4, <2>5 DEF TypeOK, local, args
  <1>9. SpacesStayApart' /\ DummyNeverRuns'
    BY <1>1, <1>2, <1>3, <1>7 DEF IInv, SpacesStayApart, DummyNeverRuns
  <1>10. ASSUME machine' = "runs" PROVE RunInv'
    <2>1. ~faults
      BY <1>2, <1>10
    <2>2. pc' = pc /\ new' = new /\ old' = old /\ store' = store /\ mapped' = mapped
          /\ currentID' = currentID
      BY <1>2 DEF local, args
    <2>3. ASSUME NEW u \in Users PROVE Whole(u) => Whole(u)'
      BY <1>1, <1>6, <1>7, <2>2 DEF Whole
    <2>4. ASSUME NEW u \in Users PROVE Unmade(u) => Unmade(u)'
      BY <1>1, <1>3, <1>5, <1>6, <1>7, <2>2 DEF Unmade
    <2>5. ASSUME new \in Users, ~Whole(new) PROVE new \notin {currentTask, n}
      BY <1>3, <1>6, <2>1, <2>5
    <2>6. ASSUME pc = "id" PROVE new \in Linked' /\ task'[new] = Zeroed /\ mapped'[new] = {}
      <3>1. new \in Users /\ new \in Linked /\ task[new] = Zeroed /\ mapped[new] = {}
        BY <1>1, <2>6 DEF RunInv, BuildInv, Building
      <3>2. ~Whole(new) /\ task[new].status # "DEAD"
        BY <3>1 DEF Whole, Zeroed
      <3> QED
        BY <1>1, <1>4, <1>5, <1>7, <2>2, <2>5, <3>1, <3>2
    <2>7. ASSUME pc \in Numbered PROVE Half(new)'
      <3>1. new \in Users /\ Half(new)
        BY <1>1, <2>7 DEF RunInv, BuildInv, Building
      <3>2. ~Whole(new) /\ task[new].status # "DEAD"
        BY <1>1, <3>1 DEF Half, Whole, NoPageDir
      <3> QED
        BY <1>1, <1>4, <1>5, <1>7, <2>2, <2>5, <3>1, <3>2 DEF Half
    <2>8. BuildInv'
      <3>1. pc \in Building \cup {"unlock", "mark"} => new \in Users
        BY <1>1 DEF RunInv, BuildInv
      <3>2. pc \in Unlinked => Unmade(new)'
        BY <1>1, <1>3, <1>5, <1>6, <1>7, <2>2, <3>1 DEF Unmade, RunInv, BuildInv, Building
      <3>3. pc \in {"unlock", "mark"} => Whole(new)'
        BY <1>1, <1>6, <1>7, <2>2, <3>1 DEF Whole, RunInv, BuildInv
      <3>4. \A u \in Users : (pc \in Building /\ u = new) \/ Unmade(u)' \/ Whole(u)'
        BY <1>1, <2>3, <2>4 DEF RunInv, BuildInv
      <3> QED
        BY <2>2, <2>6, <2>7, <3>1, <3>2, <3>3, <3>4 DEF BuildInv
    <2>9. ListInv'
      <3>1. \A t, u \in Linked' \cap Users : task'[t].id = task'[u].id => t = u
        BY <1>1, <1>5, <1>7 DEF RunInv, ListInv
      <3>2. task'[Kernel].status \in {"READY", "RUNNING"}
        BY <1>1, <1>7 DEF RunInv, ListInv
      <3>3. Dummy \in Tasks /\ Dummy \notin {currentTask, n}
        BY <1>1, <1>3 DEF Tasks
      <3> QED
        BY <1>1, <1>5, <1>7, <2>2, <3>1, <3>2, <3>3 DEF RunInv, ListInv
    <2>10. DirInv'
      BY <1>1, <1>2, <1>7, <2>1, <2>2 DEF RunInv, DirInv, Inside
    <2>11. CurrentInv'
      BY <1>1, <1>2, <1>3, <1>5, <1>7, <2>1, <2>3 DEF CurrentInv
    <2> QED
      BY <2>8, <2>9, <2>10, <2>11 DEF RunInv
  <1> QED
    BY <1>8, <1>9, <1>10 DEF IInv

-----------------------------------------------------------------------------
(* The theorems. *)

LEMMA IInvInductive == IInv /\ [Next]_vars => IInv'
  <1> SUFFICES ASSUME IInv, [Next]_vars PROVE IInv'
    OBVIOUS
  <1>1. CASE Create
    BY <1>1, AllocatePDStep, CopyPDStep, MallocStep, LinkStep, GetFreeIDStep, SetFieldsStep,
       ChangePageDirStep, StackMapUserStep, MapCodeStep DEF Create
  <1>2. CASE Kill
    BY <1>2, TaskKillStep, MarkStep, TasksAssumption DEF Kill
  <1>3. CASE Interrupt
    BY <1>3, TickStep, TickFailsStep, IretqStep DEF Interrupt
  <1>4. CASE UNCHANGED vars
    <2>1. UNCHANGED <<tasks, task, currentID, currentTask, tss, cr3, g_PageDir, mapped, locks,
                      machine, unfinished, pc, new, old, store, freed>>
      BY <1>4 DEF vars, list, sched, space, local, args
    <2>2. Linked' = Linked /\ \A u : Whole(u)' = Whole(u) /\ Unmade(u)' = Unmade(u)
      BY <2>1 DEF Linked, Whole, Unmade
    <2>3. RunInv => RunInv'
      BY <2>1, <2>2 DEF RunInv, BuildInv, ListInv, DirInv, CurrentInv, Half, Inside
    <2>4. TypeOK'
      BY <2>1 DEF IInv, TypeOK
    <2>5. ReapOutcome' = ReapOutcome
      BY <2>1, SameOutcome
    <2> QED
      BY <2>1, <2>3, <2>4, <2>5 DEF IInv, SpacesStayApart, DummyNeverRuns
  <1> QED
    BY <1>1, <1>2, <1>3, <1>4 DEF Next

LEMMA Invariance == Spec => []IInv
  BY IInvInit, IInvInductive, PTL DEF Spec

\* The list of tasks holds tasks, each once, the numbers never run out of Nat,
\* cr3 and g_PageDir are always some task's directory (never NULL), and every
\* other field has its type, for any number of user tasks.
THEOREM TypeCorrect == Spec => []TypeOK
  <1>1. IInv => TypeOK
    BY DEF IInv
  <1> QED
    BY <1>1, Invariance, PTL

\* Wherever the timer interrupts TestUserspace, no page is mapped into the
\* kernel's directory or into that of another task, and StackMapUser never
\* panics.
THEOREM SpacesStayApartAlways == Spec => []SpacesStayApart
  <1>1. IInv => SpacesStayApart
    BY DEF IInv
  <1> QED
    BY <1>1, Invariance, PTL

\* What runs, runs in its own address space, with its code and stack mapped and
\* its own kernel stack in the TSS: a tick between two stores of ChangePageDir
\* is repaired when the kernel task is switched to again.
THEOREM MachineAgreesWithTaskAlways == Spec => []MachineAgreesWithTask
  <1>1. ASSUME IInv PROVE MachineAgreesWithTask
    <2> SUFFICES ASSUME machine = "runs"
                 PROVE  MachineAgreesWithTask
      BY DEF MachineAgreesWithTask
    <2> QED
      BY <1>1, TasksAssumption DEF MachineAgreesWithTask, IInv, RunInv, DirInv, CurrentInv, Whole
  <1> QED
    BY <1>1, Invariance, PTL

\* schedule() never falls back on the dummy task.
THEOREM DummyNeverRunsAlways == Spec => []DummyNeverRuns
  <1>1. IInv => DummyNeverRuns
    BY DEF IInv
  <1> QED
    BY <1>1, Invariance, PTL

\* A step of the kernel task, or the end of an interrupt, unlinks no task and
\* brings none back from the dead.
LEMMA OthersUnlinkNothing ==
    ASSUME IInv, Next, ~Tick
    PROVE  /\ Linked \subseteq Linked'
           /\ \A t \in Tasks : task[t].status = "DEAD" => task'[t].status = "DEAD"
  <1>1. TypeOK /\ (machine = "runs" => RunInv)
    BY DEF IInv
  <1>2. CASE tasks' = tasks /\ task' = task
    BY <1>2 DEF Linked
  <1>3. CASE Link
    <2>1. tasks' = Append(tasks, new) /\ task' = task /\ tasks \in Seq(Tasks)
      BY <1>1, <1>3 DEF Link, TypeOK
    <2>2. new \in Tasks
      BY <1>1, <1>3 DEF Link, At, RunInv, BuildInv, Building, Unlinked, Tasks
    <2> QED
      BY <2>1, <2>2 DEF Linked
  <1>4. ASSUME tasks' = tasks, NEW t \in Tasks, NEW r, task' = [task EXCEPT ![t] = r],
               task[t].status = "DEAD" => r.status = "DEAD"
        PROVE  /\ Linked \subseteq Linked'
               /\ \A u \in Tasks : task[u].status = "DEAD" => task'[u].status = "DEAD"
    BY <1>1, <1>4 DEF Linked, TypeOK
  <1>5. machine = "runs" => Kernel \in Tasks
    BY DEF Tasks
  <1>6. CASE GetFreeID \/ SetFields \/ Mark
    <2>1. /\ tasks' = tasks /\ RunInv /\ new \in Users /\ new \in Tasks
          /\ pc \notin {"unlock", "mark"} => task[new].status # "DEAD"
      BY <1>1, <1>6 DEF GetFreeID, SetFields, Mark, At, RunInv, BuildInv, Building, Numbered, Half,
         Zeroed, Tasks, list
    <2>2. CASE GetFreeID
      <3>1. task' = [task EXCEPT ![new] = [task[new] EXCEPT !.id = currentID]]
        BY <2>2 DEF GetFreeID
      <3> QED
        BY <1>1, <1>4, <2>1, <2>2, <3>1 DEF TypeOK, TaskRecords, GetFreeID, At
    <2>3. CASE SetFields
      <3>1. pc \notin {"unlock", "mark"}
        BY <2>3 DEF SetFields, At
      <3>2. \A u \in Tasks : u # new => task'[u] = task[u]
        BY <1>1, <2>1, <2>3 DEF SetFields, TypeOK
      <3> QED
        BY <2>1, <3>1, <3>2 DEF Linked
    <2>4. CASE Mark
      <3>1. task' = task \/ task' = [task EXCEPT ![new].status = "DEAD"]
        BY <2>4 DEF Mark
      <3> QED
        BY <1>1, <2>1, <3>1 DEF Linked, TypeOK, TaskRecords
    <2> QED
      BY <1>6, <2>2, <2>3, <2>4
  <1>7. CASE \E call \in Changes : ChangePageDir(call)
    <2>1. PICK call \in Changes : ChangePageDir(call)
      BY <1>7
    <2>2. tasks' = tasks /\ currentTask \in Tasks
      BY <1>1, <2>1 DEF ChangePageDir, list, TypeOK
    <2>3. task' = task \/ task' = [task EXCEPT ![currentTask].pageDir = Target(call)]
      BY <2>1 DEF ChangePageDir, TaskPageDir
    <2> QED
      BY <1>1, <2>2, <2>3 DEF Linked, TypeOK, TaskRecords
  <1>8. CASE (\E u \in Users : AllocatePD(u)) \/ CopyPD \/ Malloc \/ StackMapUser \/ MapCode
             \/ (\E u \in Killable : TaskKill(u)) \/ TickFails \/ Iretq
    <2>1. tasks' = tasks /\ task' = task
      BY <1>8 DEF AllocatePD, CopyPD, Malloc, StackMapUser, MapCode, TaskKill, TickFails, Iretq, list
    <2> QED
      BY <1>2, <2>1
  <1> QED
    BY <1>3, <1>6, <1>7, <1>8 DEF Next, Create, Kill, Interrupt

\* Only dead tasks leave the list: though schedule() deletes by number, and the
\* kernel and the dummy, and a task not numbered yet, all have the number 0,
\* the task found is the dead one.
THEOREM OnlyTheDeadLeaveAlways == Spec => OnlyTheDeadLeave
  <1>1. IInv /\ [Next]_vars => [\A t \in Linked : t \in Linked' \/ task[t].status = "DEAD"]_vars
    <2> SUFFICES ASSUME IInv, Next, NEW t \in Linked
                 PROVE  t \in Linked' \/ task[t].status = "DEAD"
      OBVIOUS
    <2>1. CASE Tick
      <3>1. TypeOK /\ RunInv /\ tasks' = Without(tasks, Reaped)
        BY <2>1 DEF Tick, IInv
      <3> QED
        BY <3>1, TickUnlinks, ReapedAreDead
    <2>2. CASE ~Tick
      BY <2>2, OthersUnlinkNothing
    <2> QED
      BY <2>1, <2>2
  <1> QED
    BY <1>1, Invariance, PTL DEF Spec, OnlyTheDeadLeave

\* A killed task never becomes ready again: TestUserspace and TaskKill run one
\* after the other, and a tick requeues only a task that is not dead.
THEOREM DeadStayDeadAlways == Spec => DeadStayDead
  <1>1. IInv /\ [Next]_vars =>
          [\A t \in Tasks : task[t].status = "DEAD" => task'[t].status = "DEAD"]_vars
    <2> SUFFICES ASSUME IInv, Next, NEW t \in Tasks, task[t].status = "DEAD"
                 PROVE  task'[t].status = "DEAD"
      OBVIOUS
    <2>1. CASE Tick
      <3>1. /\ TypeOK /\ CurrentInv /\ currentTask \in Tasks /\ NextTask \in Tasks
            /\ Requeued[NextTask].status = "READY"
        BY <2>1, NextTaskIsReady DEF Tick, IInv, RunInv, TypeOK, Linked
      <3>2. t # currentTask
        BY <3>1 DEF CurrentInv
      <3>3. t # NextTask
        BY <3>1, <3>2 DEF Requeued, TypeOK
      <3>4. task'[t] = Requeued[t] /\ Requeued[t] = task[t]
        BY <2>1, <3>1, <3>2, <3>3 DEF Tick, Requeued, TypeOK
      <3> QED
        BY <3>4
    <2>2. CASE ~Tick
      BY <2>2, OthersUnlinkNothing
    <2> QED
      BY <2>1, <2>2
  <1> QED
    BY <1>1, Invariance, PTL DEF Spec, DeadStayDead
=============================================================================
