------------------------------ MODULE IspSyncTask ------------------------------
(***************************************************************************)
(* The tasks other modules register to be called on each frame of a pipe:   *)
(* drivers/hi3516cv500_isp/isp_st.c.                                        *)
(*                                                                          *)
(* A task is on the list its method asks for.  The interrupt thread calls    *)
(* those of hwirq_list itself and schedules a work item for those of        *)
(* workqueue_list.  Registering, unregistering and the work item take the    *)
(* semaphore; the search that registering starts with and the interrupt      *)
(* thread do not.                                                           *)
(*                                                                          *)
(* Callers: each task is registered and unregistered by one client, which    *)
(* reuses the memory of the task when unregistering reported success.  Ids   *)
(* are distinct: two registrations of one id at a time may both find none.   *)
(***************************************************************************)
EXTENDS Integers, Sequences, SequencesExt, FiniteSets

CONSTANTS
  Tasks,      \* the ISP_SYNC_TASK_NODE_S of the clients
  IdOf,       \* pszId of each task
  MethodOf,   \* enMethod of each task: "irq" or "work"
  MaxNum,     \* ISP_SYNC_TSK_MAX_NUM, where u32Num stops counting
  None        \* the end of a list

Methods == {"irq", "work"}

ASSUME TasksAssumption ==
  /\ IsFiniteSet(Tasks) /\ None \notin Tasks
  /\ IdOf \in [Tasks -> STRING] /\ IsInjective(IdOf)
  /\ MethodOf \in [Tasks -> Methods]
ASSUME MaxNumAssumption == MaxNum \in Nat \ {0}

VARIABLES
  list,      \* hwirq_list and workqueue_list
  num,       \* their u32Num
  sem,       \* the work item holds the semaphore
  client,    \* where the client of each task is
  queued,    \* the work item is scheduled
  at,        \* the tasks the work item has not called yet
  pos, next, \* the cursors of the interrupt thread's walk
  due,       \* history: tasks to call for a frame that has been signalled
  late       \* history: the work item called a task that its client took back

vars == <<list, num, sem, client, queued, at, pos, next, due, late>>
walk == <<pos, next>>

(* "out": not registered; "new": found no task of that id; "in": registered. *)
TypeOK ==
  /\ list \in [Methods -> Seq(Tasks)]
  /\ num \in [Methods -> 0 .. MaxNum]
  /\ sem \in BOOLEAN
  /\ client \in [Tasks -> {"out", "new", "in"}]
  /\ queued \in BOOLEAN
  /\ at \in Seq(Tasks)
  /\ pos \in Tasks \cup {None} /\ next \in Tasks \cup {None}
  /\ due \subseteq Tasks
  /\ late \in BOOLEAN

(* SyncTaskInit *)
Init ==
  /\ list = [k \in Methods |-> <<>>]
  /\ num = [k \in Methods |-> 0]
  /\ sem = FALSE
  /\ client = [t \in Tasks |-> "out"]
  /\ queued = FALSE /\ at = <<>>
  /\ pos = None /\ next = None
  /\ due = {} /\ late = FALSE

-----------------------------------------------------------------------------
(* searchNode: where the first task with that id is, nowhere without one.     *)
SearchNode(s, id) ==
  {i \in DOMAIN s : IdOf[s[i]] = id /\ \A j \in 1 .. i - 1 : IdOf[s[j]] # id}

(* hi_isp_sync_task_register searches first, without the semaphore, ...       *)
RegisterSearch(t) ==
  /\ client[t] = "out"
  /\ SearchNode(list[MethodOf[t]], IdOf[t]) = {}
  /\ client' = [client EXCEPT ![t] = "new"]
  /\ UNCHANGED <<list, num, sem, queued, at, walk, due, late>>

(* Deviation: the count goes on beyond its limit. *)
RegisterAddUncapped(t) ==
  LET k == MethodOf[t] IN
  /\ client[t] = "new" /\ ~sem
  /\ list' = [list EXCEPT ![k] = Append(@, t)]
  /\ num' = [num EXCEPT ![k] = @ + 1]
  /\ client' = [client EXCEPT ![t] = "in"]
  /\ UNCHANGED <<sem, queued, at, walk, due, late>>

(* ... then adds the task under it, *)
RegisterAdd(t) ==
  LET k == MethodOf[t] IN
  /\ client[t] = "new" /\ ~sem
  /\ list' = [list EXCEPT ![k] = Append(@, t)]
  /\ num' = [num EXCEPT ![k] = IF @ < MaxNum THEN @ + 1 ELSE @]
  /\ client' = [client EXCEPT ![t] = "in"]
  /\ UNCHANGED <<sem, queued, at, walk, due, late>>

(* or a signal ends its wait for the semaphore.                              *)
RegisterSignal(t) ==
  /\ client[t] = "new"
  /\ client' = [client EXCEPT ![t] = "out"]
  /\ UNCHANGED <<list, num, sem, queued, at, walk, due, late>>

(* Deviation: the task at the head of the list is taken away. *)
UnregisterHead(t) ==
  LET k == MethodOf[t] IN
  /\ client[t] = "in" /\ ~sem
  /\ list' = [list EXCEPT ![k] = Tail(@)]
  /\ num' = [num EXCEPT ![k] = IF @ > 0 THEN @ - 1 ELSE @]
  /\ client' = [client EXCEPT ![t] = "out"]
  /\ due' = due \ {Head(list[k])}
  /\ UNCHANGED <<sem, queued, at, walk, late>>

(* Deviation: the semaphore is not taken. *)
UnregisterUnlocked(t) ==
  LET k == MethodOf[t] IN
  /\ client[t] = "in"
  /\ \E i \in SearchNode(list[k], IdOf[t]) :
       /\ list' = [list EXCEPT ![k] = RemoveAt(@, i)]
       /\ due' = due \ {list[k][i]}
  /\ num' = [num EXCEPT ![k] = IF @ > 0 THEN @ - 1 ELSE @]
  /\ client' = [client EXCEPT ![t] = "out"]
  /\ UNCHANGED <<sem, queued, at, walk, late>>

(* hi_isp_sync_task_unregister takes away the first task with the id of t;   *)
(* one that finds none, or that a signal ends, changes nothing.              *)
Unregister(t) ==
  LET k == MethodOf[t] IN
  /\ client[t] = "in" /\ ~sem
  /\ \E i \in SearchNode(list[k], IdOf[t]) :
       /\ list' = [list EXCEPT ![k] = RemoveAt(@, i)]
       /\ due' = due \ {list[k][i]}
  /\ num' = [num EXCEPT ![k] = IF @ > 0 THEN @ - 1 ELSE @]
  /\ client' = [client EXCEPT ![t] = "out"]
  /\ UNCHANGED <<sem, queued, at, walk, late>>

-----------------------------------------------------------------------------
(* Deviation: a frame that meets a running work item does not schedule it. *)
ScheduleIfIdle == queued' = (queued \/ (num["work"] > 0 /\ ~sem))

(* osal_schedule_work of a list that is not empty.                           *)
Schedule == queued' = (queued \/ num["work"] > 0)

(* IspSyncTaskProcess without a task to call in the interrupt thread.        *)
FrameWork ==
  /\ pos = None
  /\ num["irq"] = 0 \/ list["irq"] = <<>>
  /\ Schedule
  /\ due' = due \cup Range(list["work"])
  /\ UNCHANGED <<list, num, sem, client, at, walk, late>>

(* IspSyncTaskProcess begins with the walk over hwirq_list.                  *)
FrameIrq ==
  LET s == list["irq"] IN
  /\ pos = None
  /\ num["irq"] > 0 /\ s # <<>>
  /\ pos' = s[1]
  /\ next' = IF Len(s) > 1 THEN s[2] ELSE None
  /\ UNCHANGED <<list, num, sem, client, queued, at, due, late>>

(* The task behind t in the list, None at its end.                           *)
Behind(s, t) ==
  LET i == CHOOSE i \in DOMAIN s : s[i] = t
  IN  IF i < Len(s) THEN s[i + 1] ELSE None

(* One turn of osal_list_for_each_safe: the task at pos is called, whatever  *)
(* became of it, and the walk goes on at the task that was behind it.  A     *)
(* task taken off the list leads nowhere (LIST_POISON): the walk ends.       *)
IrqCall ==
  LET s == list["irq"]
      over == next = None \/ next \notin Range(s) IN
  /\ pos # None
  /\ pos' = IF over THEN None ELSE next
  /\ next' = IF over THEN None ELSE Behind(s, next)
  /\ IF over
       THEN Schedule /\ due' = due \cup Range(list["work"])
       ELSE UNCHANGED <<queued, due>>
  /\ UNCHANGED <<list, num, sem, client, at, late>>

(* The work item runs: workQueueHandler takes the semaphore, ...              *)
WorkBegin ==
  /\ queued /\ ~sem
  /\ queued' = FALSE
  /\ sem' = TRUE
  /\ at' = list["work"]
  /\ UNCHANGED <<list, num, client, walk, due, late>>

(* ... calls each task of its list *)
WorkCall ==
  /\ sem /\ at # <<>>
  /\ late' = (late \/ client[Head(at)] # "in")
  /\ due' = due \ {Head(at)}
  /\ at' = Tail(at)
  /\ UNCHANGED <<list, num, sem, client, queued, walk>>

(* and releases it.                                                         *)
WorkEnd ==
  /\ sem /\ at = <<>>
  /\ sem' = FALSE
  /\ UNCHANGED <<list, num, client, queued, at, walk, due, late>>

Work == WorkBegin \/ WorkCall \/ WorkEnd

Client(t) ==
  \/ RegisterSearch(t)
  \/ RegisterAdd(t)
  \/ RegisterSignal(t)
  \/ Unregister(t)

Frame == FrameWork \/ FrameIrq \/ IrqCall

Next == Work \/ Frame \/ \E t \in Tasks : Client(t)

Spec == Init /\ [][Next]_vars

(* The kernel's worker thread runs what is scheduled; a client holds the      *)
(* semaphore for one step only.                                             *)
FairSpec == Spec /\ WF_vars(Work)

-----------------------------------------------------------------------------
(* Every task a client believes registered is on its list, once, and no       *)
(* other task is; and a list the interrupt takes for empty, by u32Num, is     *)
(* empty, as long as there are not more tasks than u32Num counts.            *)
RegisteredAreListed ==
  \A k \in Methods :
    /\ IsInjective(list[k])
    /\ Range(list[k]) = {t \in Tasks : MethodOf[t] = k /\ client[t] = "in"}
    /\ Cardinality({t \in Tasks : MethodOf[t] = k}) <= MaxNum /\ num[k] = 0
         => list[k] = <<>>

(* The work item never calls a task whose client was told that it is          *)
(* unregistered and may have freed it.                                      *)
WorkNeverLate == ~late

(* Every task that is registered when a frame comes is called for it, or for  *)
(* a later one, unless it is unregistered first: a frame that comes while     *)
(* the work item is running is not lost.                                    *)
TasksCalled == \A t \in Tasks : t \in due ~> t \notin due
=============================================================================
