----------------------------- MODULE Scheduler -----------------------------
(***************************************************************************)
(* Preemptive multitasking: the timer interrupt runs schedule()            *)
(* (scheduler.c) between any two steps of the kernel task, which creates   *)
(* user tasks (TestUserspace, TaskCreate, StackGenerateUser) and kills     *)
(* them (TaskKill).  There is one CPU.  A user task is `jmp $`: it does    *)
(* nothing but be preempted.                                               *)
(*                                                                         *)
(* A page directory, a user stack, a kernel stack and a saved context are  *)
(* named after the task they were made for.  The starting state is the one *)
(* InitializeTask leaves.                                                  *)
(***************************************************************************)
EXTENDS Integers, Sequences, FiniteSets, FiniteSetsExt

CONSTANTS
    Kernel,     \* firstTask, which runs kmain and then the shell
    Dummy,      \* dummyTask
    Users,      \* the user tasks that may be created, each once (a bound)
    Killable,   \* the users TaskKill may be called for
    NULL

Tasks == {Kernel, Dummy} \cup Users

ASSUME TasksAssumption ==
    /\ Kernel # Dummy
    /\ {Kernel, Dummy} \cap Users = {}
    /\ NULL \notin Tasks
    /\ Killable \subseteq Users
    /\ IsFiniteSet(Users)

VARIABLES
    tasks,          \* the linked list from firstTask
    task,           \* the fields of each task_t
    currentID,
    currentTask,
    tss,            \* tssPtr->rsp0
    cr3, g_PageDir,
    mapped,         \* the user pages each page directory maps
    locks,          \* the spinlocks that are set
    machine,        \* how the machine fares
    unfinished,     \* schedule() has enabled interrupts and not returned yet
    pc, new, old,   \* the kernel task: where it is, the task it works on, oldPageDir,
    store,          \* and the next store of the ChangePageDir it is in
    freed           \* the pages schedulerDeleteTask gave back (auxiliary)

list == <<tasks, currentID>>
sched == <<currentTask, tss, unfinished>>
space == <<cr3, g_PageDir>>
args == <<new, old, store>>
local == <<pc, args>>
vars == <<list, task, sched, space, mapped, locks, machine, local, freed>>

Linked == {tasks[i] : i \in DOMAIN tasks}

\* TaskGet: the first task with the number.
TaskGet(id) ==
    LET found == {i \in DOMAIN tasks : task[tasks[i]].id = id}
    IN  IF found = {} THEN NULL ELSE tasks[Min(found)]

\* A task_t as memset leaves it: TASK_STATUS_READY is 0.
Zeroed == [id |-> 0, status |-> "READY", pageDir |-> NULL, rsp0 |-> NULL, context |-> "none"]

\* cpu_status as TaskCreate or a preemption leaves it: the task's own.
Complete(t, status) ==
    [id |-> 0, status |-> status, pageDir |-> t, rsp0 |-> t, context |-> "own"]

\* InitializeTask: the dummy's number is the kernel's, the first currentID.
Init ==
    /\ tasks = <<Kernel, Dummy>>
    /\ task = [t \in Tasks |-> CASE t = Kernel -> Complete(t, "READY")
                                 [] t = Dummy  -> Complete(t, "DUMMY")
                                 [] OTHER      -> Zeroed]
    /\ currentID = 1
    /\ currentTask = Kernel
    /\ tss = NULL
    /\ cr3 = Kernel
    /\ g_PageDir = Kernel
    /\ mapped = [t \in Tasks |-> IF t = Dummy THEN {"stack"} ELSE {}]
    /\ locks = {}
    /\ machine = "runs"
    /\ unfinished = FALSE
    /\ pc = "idle"
    /\ new = NULL
    /\ old = NULL
    /\ store = "pageDir"
    /\ freed = {}

-----------------------------------------------------------------------------
(* The kernel task: TestUserspace and TaskKill *)

\* The kernel task executes its next step.
At(stage) ==
    /\ machine = "runs"
    /\ currentTask = Kernel
    /\ ~unfinished
    /\ pc = stage

Goto(stage) == pc' = stage

\* paging_AllocatePD: a new page, and TaskGet takes TASK_LOCK.
AllocatePD(u) ==
    /\ At("idle")
    /\ u \notin Linked
    /\ task[u] = Zeroed
    /\ new' = u
    /\ locks' = locks \cup {"TASK_LOCK"}
    /\ Goto("copy")
    /\ UNCHANGED <<list, task, sched, space, mapped, machine, old, store, freed>>

\* TaskGet lets go of TASK_LOCK; the entries of the kernel's directory are copied.
CopyPD ==
    /\ At("copy")
    /\ locks' = locks \ {"TASK_LOCK"}
    /\ mapped' = [mapped EXCEPT ![new] = mapped[task[TaskGet(0)].pageDir]]
    /\ Goto("malloc")
    /\ UNCHANGED <<list, task, sched, space, machine, args, freed>>

\* malloc, from taking HEAP_LOCK to letting it go.
Malloc ==
    /\ \/ At("malloc") /\ Goto("mallocEnd") /\ locks' = locks \cup {"HEAP_LOCK"}
       \/ At("mallocEnd") /\ Goto("link") /\ locks' = locks \ {"HEAP_LOCK"}
    /\ UNCHANGED <<list, task, sched, space, mapped, machine, args, freed>>

\* TaskAllocate appends the zeroed task with interrupts disabled.
Link ==
    /\ At("link")
    /\ tasks' = Append(tasks, new)
    /\ Goto("id")
    /\ UNCHANGED <<task, currentID, sched, space, mapped, locks, machine, args, freed>>

GetFreeID ==
    /\ At("id")
    /\ task' = [task EXCEPT ![new].id = currentID]
    /\ currentID' = currentID + 1
    /\ Goto("created")
    /\ UNCHANGED <<tasks, sched, space, mapped, locks, machine, args, freed>>

\* The next fields of the new task that TaskCreate, and at last TestUserspace,
\* assign.  The kernel stack of StackAllocate is one.
SetFields ==
    /\ \/ /\ At("created") /\ Goto("pageDir")
          /\ task' = [task EXCEPT ![new].status = "CREATED"]
       \/ /\ At("pageDir") /\ Goto("enterStack")
          /\ task' = [task EXCEPT ![new].pageDir = new]
       \/ /\ At("fill") /\ Goto("enterCode")
          /\ task' = [task EXCEPT ![new].rsp0 = new, ![new].context = "own"]
       \/ /\ At("ready") /\ Goto("idle")
          /\ task' = [task EXCEPT ![new].status = "READY"]
    /\ UNCHANGED <<list, sched, space, mapped, locks, machine, args, freed>>

\* The four calls of ChangePageDir, and what follows each.
Changes == {"enterStack", "leaveStack", "enterCode", "leaveCode"}

Then(call) ==
    CASE call = "enterStack" -> "mapStack" [] call = "leaveStack" -> "fill"
      [] call = "enterCode"  -> "mapCode"  [] call = "leaveCode"  -> "ready"

Enters(call) == call \in {"enterStack", "enterCode"}

Target(call) == IF Enters(call) THEN task[new].pageDir ELSE old

OldPageDirUnsaved == old        \* mutant: the variable is not assigned

OldPageDir == g_PageDir

TaskPageDirLeft(pd) == task     \* mutant: only the CPU changes directory

TaskPageDir(pd) == [task EXCEPT ![currentTask].pageDir = pd]

\* One store of ChangePageDir: what the scheduler will load again, then cr3,
\* then the kernel's copy of it.
ChangePageDir(call) ==
    /\ At(call)
    /\ \/ /\ store = "pageDir" /\ store' = "cr3"
          /\ old' = IF Enters(call) THEN OldPageDir ELSE old
          /\ task' = TaskPageDir(Target(call))
          /\ UNCHANGED <<space, pc>>
       \/ /\ store = "cr3" /\ store' = "g_PageDir"
          /\ cr3' = Target(call)
          /\ UNCHANGED <<old, task, g_PageDir, pc>>
       \/ /\ store = "g_PageDir" /\ store' = "pageDir"
          /\ g_PageDir' = Target(call)
          /\ Goto(Then(call))
          /\ UNCHANGED <<old, task, cr3>>
    /\ UNCHANGED <<list, sched, mapped, locks, machine, new, freed>>

\* paging_MapPage walks g_PageDir; the memset that follows goes through cr3.
MapPages(pages) ==
    /\ mapped' = [mapped EXCEPT ![g_PageDir] = @ \cup {pages}]
    /\ machine' = IF pages \in mapped'[cr3] THEN machine ELSE "faulted"

\* StackMapUser, with its check.
StackMapUser ==
    /\ At("mapStack")
    /\ IF g_PageDir = task[new].pageDir
       THEN MapPages("stack")
       ELSE machine' = "panicked" /\ UNCHANGED mapped
    /\ Goto("leaveStack")
    /\ UNCHANGED <<list, task, sched, space, locks, args, freed>>

\* TestUserspace maps the code page and writes the code.
MapCode ==
    /\ At("mapCode")
    /\ MapPages("code")
    /\ Goto("leaveCode")
    /\ UNCHANGED <<list, task, sched, space, locks, args, freed>>

\* TaskKill: TaskGet finds the task under TASK_LOCK ...
TaskKill(u) ==
    /\ At("idle")
    /\ u \in Linked
    /\ new' = TaskGet(task[u].id)
    /\ locks' = locks \cup {"TASK_LOCK"}
    /\ Goto("unlock")
    /\ UNCHANGED <<list, task, sched, space, mapped, machine, old, store, freed>>

\* ... lets go of the lock, and only then marks the task.
Mark ==
    /\ \/ /\ At("unlock") /\ Goto("mark")
          /\ locks' = locks \ {"TASK_LOCK"}
          /\ UNCHANGED task
       \/ /\ At("mark") /\ Goto("idle")
          /\ task' = [task EXCEPT ![new].status = "DEAD"]
          /\ UNCHANGED locks
    /\ UNCHANGED <<list, sched, space, mapped, machine, args, freed>>

-----------------------------------------------------------------------------
(* The timer interrupt: schedule() *)

SuccessorsFromFirst(t) == tasks     \* mutant: always from the first task on

\* The tasks in the order schedule() looks at them.
Successors(t) ==
    LET i == CHOOSE i \in DOMAIN tasks : tasks[i] = t
    IN  SubSeq(tasks, i + 1, Len(tasks)) \o tasks

RequeuedNever == task           \* mutant: the preempted task stays RUNNING

\* The task that was preempted may run again, unless it is dead.
Requeued == [task EXCEPT ![currentTask].status = IF @ = "DEAD" THEN @ ELSE "READY"]

EligibleDeadToo(t) == Requeued[t].status \in {"READY", "DEAD"}    \* mutant

Eligible(t) == Requeued[t].status = "READY"

\* How many tasks are passed over; all of them if none is ready.
Skipped ==
    LET order == Successors(currentTask)
        ready == {i \in DOMAIN order : Eligible(order[i])}
    IN  IF ready = {} THEN Len(order) ELSE Min(ready) - 1

NextTask ==
    LET order == Successors(currentTask)
    IN  IF Skipped = Len(order) THEN Dummy ELSE order[Skipped + 1]

ReapableUnfinishedToo(t) == task[t].status \in {"DEAD", "CREATED"}    \* mutant

ReapableNever(t) == FALSE       \* mutant: the dead are only passed over

Reapable(t) == task[t].status = "DEAD"

\* The dead tasks passed over, each looked up again by its number.
Reaped ==
    LET order == Successors(currentTask)
    IN  {TaskGet(task[order[i]].id) : i \in {k \in 1 .. Skipped : Reapable(order[k])}}

\* The list with some tasks unlinked, the others in their order.
Without(line, gone) ==
    LET kept[i \in 0 .. Len(line)] ==
            IF i = 0 THEN <<>>
            ELSE IF line[i] \in gone THEN kept[i - 1]
            ELSE Append(kept[i - 1], line[i])
    IN  kept[Len(line)]

\* schedulerDeleteTask takes TASK_LOCK (TaskGet), translates the address of
\* the dead task's user stack in g_PageDir, the directory of the task that was
\* preempted (vmm_FreePages panics if it maps no stack), and takes HEAP_LOCK
\* (free).  An interrupt handler that waits for a lock of the task it
\* interrupted waits for ever.
ReapOutcome ==
    IF Reaped = {} THEN "runs"
    ELSE IF "TASK_LOCK" \in locks THEN "stuck"
    ELSE IF "stack" \notin mapped[g_PageDir] THEN "panicked"
    ELSE IF "HEAP_LOCK" \in locks THEN "stuck"
    ELSE "runs"

\* A handler that never finishes: what it changed before is not followed up.
TickFails ==
    /\ machine = "runs"
    /\ ReapOutcome # "runs"
    /\ machine' = ReapOutcome
    /\ UNCHANGED <<list, task, sched, space, mapped, locks, local, freed>>

ChangePageDirFakeNot(pd) == UNCHANGED g_PageDir     \* mutant: cr3 alone changes

ChangePageDirFake(pd) == g_PageDir' = pd

\* The frame of the next task is copied below its rsp0: with rsp0 still 0 the
\* copy faults.  The registers saved for the preempted task are schedule()'s
\* own if a tick arrives after TaskFree has enabled interrupts.
Tick ==
    LET next == NextTask
        faults == task[next].rsp0 = NULL
        interrupted == IF unfinished THEN "handler" ELSE "own"
    IN  /\ machine = "runs"
        /\ ReapOutcome = "runs"
        /\ tasks' = Without(tasks, Reaped)
        /\ freed' = freed \cup {<<"pageDir", t>> : t \in Reaped}
                          \cup {<<"stack", g_PageDir>> : t \in Reaped}
        /\ task' = [Requeued EXCEPT ![currentTask].context = interrupted,
                                    ![next].status = "RUNNING"]
        /\ currentTask' = next
        /\ tss' = task[next].rsp0
        /\ machine' = IF faults THEN "faulted" ELSE "runs"
        /\ cr3' = IF faults THEN cr3 ELSE task'[next].pageDir
        /\ IF faults THEN UNCHANGED g_PageDir ELSE ChangePageDirFake(task'[next].pageDir)
        /\ unfinished' = (Reaped # {} \/ task'[next].context = "handler")
        /\ UNCHANGED <<currentID, mapped, locks, local>>

\* The iretq of asm_finalizeScheduler, when interrupts are already enabled: it
\* returns to the task, or again to the handler whose registers were saved.
Iretq ==
    /\ machine = "runs"
    /\ unfinished
    /\ task[currentTask].context = "own"
    /\ unfinished' = FALSE
    /\ UNCHANGED <<list, task, currentTask, tss, space, mapped, locks, machine, local, freed>>

-----------------------------------------------------------------------------
Create ==
    \/ \E u \in Users : AllocatePD(u)
    \/ CopyPD \/ Malloc \/ Link \/ GetFreeID \/ SetFields \/ StackMapUser \/ MapCode
    \/ \E call \in Changes : ChangePageDir(call)

Kill == (\E u \in Killable : TaskKill(u)) \/ Mark

Interrupt == Tick \/ TickFails \/ Iretq

Next == Create \/ Kill \/ Interrupt

Spec == Init /\ [][Next]_vars

\* The timer keeps ticking as long as the kernel has not stopped.
FairSpec == Spec /\ WF_vars(Tick \/ TickFails)

-----------------------------------------------------------------------------
(* Properties *)

Stages == {"idle", "copy", "malloc", "mallocEnd", "link", "id", "created", "pageDir", "mapStack",
           "fill", "mapCode", "ready", "unlock", "mark"} \cup Changes

TaskRecords ==
    [id : Nat, status : {"READY", "CREATED", "RUNNING", "DEAD", "DUMMY"},
     pageDir : Tasks \cup {NULL}, rsp0 : Tasks \cup {NULL}, context : {"none", "own", "handler"}]

TypeOK ==
    /\ tasks \in Seq(Tasks)
    /\ \A i, j \in DOMAIN tasks : tasks[i] = tasks[j] => i = j
    /\ task \in [Tasks -> TaskRecords]
    /\ currentID \in Nat
    /\ currentTask \in Tasks
    /\ tss \in Tasks \cup {NULL}
    /\ cr3 \in Tasks
    /\ g_PageDir \in Tasks
    /\ mapped \in [Tasks -> SUBSET {"stack", "code"}]
    /\ locks \subseteq {"TASK_LOCK", "HEAP_LOCK"}
    /\ machine \in {"runs", "faulted", "panicked", "stuck"}
    /\ unfinished \in BOOLEAN
    /\ pc \in Stages
    /\ new \in Users \cup {NULL}
    /\ old \in Tasks \cup {NULL}
    /\ store \in {"pageDir", "cr3", "g_PageDir"}
    /\ freed \subseteq {"stack", "pageDir"} \X Tasks

\* Every address space stays its owner's: the kernel's directory, which every
\* later one is copied from, never gets a user page, and the check of
\* StackMapUser never fails, wherever the kernel task is preempted while it
\* works in the directory of a task it creates.  The only panic is that of
\* schedule() over a dead task's stack.
SpacesStayApart ==
    /\ mapped[Kernel] = {}
    /\ \A u \in Users : task[u].pageDir \in {u, NULL}
    /\ machine = "panicked" => ReapOutcome = "panicked"

\* What runs, runs in its own address space and traps on its own stack: cr3,
\* g_PageDir and the TSS agree with the task the scheduler thinks it runs,
\* except between the stores of ChangePageDir.
MachineAgreesWithTask ==
    machine = "runs" =>
        /\ store = "pageDir" \/ currentTask # Kernel
               => cr3 = task[currentTask].pageDir /\ g_PageDir = cr3
        /\ currentTask # Kernel => tss = task[currentTask].rsp0
        /\ currentTask \in Users => mapped[cr3] = {"stack", "code"}

\* The dummy, whose entry point is kernel code at user privilege, is never
\* needed: schedule() always finds a task, at least the one it preempted.
DummyNeverRuns == currentTask # Dummy

\* Every complete task that is ready runs before long, unless it is killed first:
\* each tick moves on round the list.
EveryReadyTaskRuns ==
    \A t \in Tasks :
        t \in Linked /\ task[t].status = "READY" /\ task[t].rsp0 # NULL
            ~> currentTask = t \/ task[t].status = "DEAD" \/ machine # "runs"

\* Only dead tasks are freed, though schedule() frees by number and two tasks
\* have the number 0, ...
OnlyTheDeadLeave ==
    [][\A t \in Linked : t \in Linked' \/ task[t].status = "DEAD"]_vars

\* ... the dead stay dead, and a killed task is freed in the end if the
\* machine does not stop.
DeadStayDead ==
    [][\A t \in Tasks : task[t].status = "DEAD" => task'[t].status = "DEAD"]_vars

KilledLeaves ==
    \A t \in Tasks : task[t].status = "DEAD" ~> t \notin Linked \/ machine # "runs"

\* task.c:77 sets a new task CREATED, "Not ready yet": no task is switched to
\* before TestUserspace has made it ready.
HalfBuiltNeverRuns == currentTask \in Users => task[currentTask].rsp0 # NULL

\* task.c:114 says of a killed task "Will be handled by the scheduler": the
\* scheduler neither panics nor waits for ever over it, and takes the stack of
\* no other task.
HandledByTheScheduler ==
    /\ machine \notin {"panicked", "stuck"}
    /\ \A t \in Linked : <<"stack", t>> \notin freed
=============================================================================
