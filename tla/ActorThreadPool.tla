-------------------------- MODULE ActorThreadPool --------------------------
(***************************************************************************)
(* The worker pool of the reactor (srv/ActorThreadPool.java).  The         *)
(* selector's thread submits tasks for acts (connection handlers); a fixed *)
(* number of workers runs them.  An act is in playingNow from the moment   *)
(* one of its tasks is handed to the executor until a worker finds no      *)
(* further task pending; tasks submitted meanwhile wait in acts[act].      *)
(*                                                                         *)
(* The monitor of the act is modelled, and so are the steps between which  *)
(* another thread may run: the test of playingNow and what follows it, the *)
(* test of the pending tasks and what follows it.  An act's entry of the   *)
(* acts map is only used inside the act's monitor, so that the map's own   *)
(* read-write lock and the creation of a missing entry are part of the     *)
(* step that uses the entry.                                               *)
(*                                                                         *)
(* The executor (java.util.concurrent, newFixedThreadPool) starts a thread *)
(* with each of the first tasks, later ones go through its queue;          *)
(* shutdownNow empties the queue, lets running tasks end and makes every   *)
(* later execute throw RejectedExecutionException.                         *)
(***************************************************************************)
EXTENDS Naturals, Sequences

CONSTANTS
    Act,       (* the objects tasks are submitted for                      *)
    Worker,    (* the threads of the pool                                  *)
    None,      (* no act, no owner                                         *)
    MaxTasks   (* bound: tasks submitted for one act                       *)

ASSUME PoolAssumption == None \notin Act /\ None \notin Worker
ASSUME MaxTasksAssumption == MaxTasks \in Nat

selector == "selector"

ASSUME SelectorAssumption == selector \notin Worker /\ selector # None

Thread == Worker \cup {selector}

VARIABLES
    acts,        (* act -> numbers of its pending tasks                    *)
    playingNow,  (* acts with a task in the executor's hands               *)
    monitor,     (* act -> thread inside synchronized (act)                *)
    queue,       (* the executor's queue of tasks                          *)
    spawned,     (* workers the executor has started                       *)
    open,        (* shutdownNow has not been called                        *)
    pc,          (* what each thread does                                  *)
    task,        (* the task a thread submits or runs                      *)
    submitted,   (* act -> number of tasks submitted                       *)
    ran          (* act -> number of the task that began to run last       *)

vars == <<acts, playingNow, monitor, queue, spawned, open, pc, task, submitted, ran>>

Label == {"idle", "submit", "submit_check", "submit_first", "submit_execute", "submit_pending",
          "stopped", "start", "running", "complete", "complete_check", "complete_remove",
          "complete_execute"}

Task == [act : Act, number : 1..MaxTasks]

NoTask == [act |-> None, number |-> 0]

Init ==
    /\ acts = [a \in Act |-> <<>>]
    /\ playingNow = {}
    /\ monitor = [a \in Act |-> None]
    /\ queue = <<>>
    /\ spawned = {}
    /\ open = TRUE
    /\ pc = [t \in Thread |-> "idle"]
    /\ task = [t \in Thread |-> NoTask]
    /\ submitted = [a \in Act |-> 0]
    /\ ran = [a \in Act |-> 0]

-----------------------------------------------------------------------------
Goto(t, label) == pc' = [pc EXCEPT ![t] = label]

At(t, label) == pc[t] = label

(* Mistake: the methods are not synchronized on the act.                   *)
EnterAnyway(t, a) == monitor' = [monitor EXCEPT ![a] = t]

Enter(t, a) ==
    /\ monitor[a] = None
    /\ monitor' = [monitor EXCEPT ![a] = t]

Exit(a) == monitor' = [monitor EXCEPT ![a] = None]

(* threads.execute(...) by thread t, which thereby leaves its block: a new *)
(* worker starts with the task, or the task is queued, or it is rejected.  *)
SpawnWith(t, w, k) ==
    /\ open
    /\ w \in Worker \ spawned
    /\ spawned' = spawned \cup {w}
    /\ pc' = [pc EXCEPT ![t] = "idle", ![w] = "start"]
    /\ task' = [task EXCEPT ![t] = NoTask, ![w] = k]
    /\ UNCHANGED queue

Enqueue(t, k) ==
    /\ open
    /\ spawned = Worker
    /\ queue' = Append(queue, k)
    /\ Goto(t, "idle")
    /\ task' = [task EXCEPT ![t] = NoTask]
    /\ UNCHANGED spawned

Reject(t) ==
    /\ ~open
    /\ Goto(t, "idle")
    /\ task' = [task EXCEPT ![t] = NoTask]
    /\ UNCHANGED <<queue, spawned>>

Execute(t, k) == (\E w \in Worker : SpawnWith(t, w, k)) \/ Enqueue(t, k) \/ Reject(t)

-----------------------------------------------------------------------------
(* submit(act, r), called by the selector's thread.                        *)

Submit(a) ==
    /\ At(selector, "idle")
    /\ submitted[a] < MaxTasks
    /\ submitted' = [submitted EXCEPT ![a] = @ + 1]
    /\ task' = [task EXCEPT ![selector] = [act |-> a, number |-> submitted[a] + 1]]
    /\ Goto(selector, "submit")
    /\ UNCHANGED <<acts, playingNow, monitor, queue, spawned, open, ran>>

SubmitEnter ==
    /\ At(selector, "submit")
    /\ Enter(selector, task[selector].act)
    /\ Goto(selector, "submit_check")
    /\ UNCHANGED <<acts, playingNow, queue, spawned, open, task, submitted, ran>>

SubmitCheck ==
    /\ At(selector, "submit_check")
    /\ Goto(selector, IF task[selector].act \in playingNow THEN "submit_pending"
                      ELSE "submit_first")
    /\ UNCHANGED <<acts, playingNow, monitor, queue, spawned, open, task, submitted, ran>>

SubmitFirst ==
    /\ At(selector, "submit_first")
    /\ playingNow' = playingNow \cup {task[selector].act}
    /\ Goto(selector, "submit_execute")
    /\ UNCHANGED <<acts, monitor, queue, spawned, open, task, submitted, ran>>

SubmitExecute ==
    /\ At(selector, "submit_execute")
    /\ Execute(selector, task[selector])
    /\ Exit(task[selector].act)
    /\ UNCHANGED <<acts, playingNow, open, submitted, ran>>

(* Mistake: the pending tasks are a stack.                                 *)
SubmitOnTop ==
    /\ At(selector, "submit_pending")
    /\ acts' = [acts EXCEPT ![task[selector].act] = <<task[selector].number>> \o @]
    /\ Exit(task[selector].act)
    /\ Goto(selector, "idle")
    /\ task' = [task EXCEPT ![selector] = NoTask]
    /\ UNCHANGED <<playingNow, queue, spawned, open, submitted, ran>>

SubmitPending ==
    /\ At(selector, "submit_pending")
    /\ acts' = [acts EXCEPT ![task[selector].act] = Append(@, task[selector].number)]
    /\ Exit(task[selector].act)
    /\ Goto(selector, "idle")
    /\ task' = [task EXCEPT ![selector] = NoTask]
    /\ UNCHANGED <<playingNow, queue, spawned, open, submitted, ran>>

(* shutdown(), the last thing the selector's thread does (Reactor.serve).  *)
Shutdown ==
    /\ At(selector, "idle")
    /\ open' = FALSE
    /\ queue' = <<>>
    /\ Goto(selector, "stopped")
    /\ UNCHANGED <<acts, playingNow, monitor, spawned, task, submitted, ran>>

-----------------------------------------------------------------------------
(* A worker runs one task and then completes its act, whether run()        *)
(* returned or threw: complete is in a finally block, and the executor     *)
(* replaces a thread that dies.                                            *)

Take(w) ==
    /\ w \in spawned
    /\ At(w, "idle")
    /\ queue # <<>>
    /\ task' = [task EXCEPT ![w] = Head(queue)]
    /\ queue' = Tail(queue)
    /\ Goto(w, "start")
    /\ UNCHANGED <<acts, playingNow, monitor, spawned, open, submitted, ran>>

Run(w) ==
    /\ At(w, "start")
    /\ ran' = [ran EXCEPT ![task[w].act] = task[w].number]
    /\ Goto(w, "running")
    /\ UNCHANGED <<acts, playingNow, monitor, queue, spawned, open, task, submitted>>

Finish(w) ==
    /\ At(w, "running")
    /\ Goto(w, "complete")
    /\ UNCHANGED <<acts, playingNow, monitor, queue, spawned, open, task, submitted, ran>>

CompleteEnter(w) ==
    /\ At(w, "complete")
    /\ Enter(w, task[w].act)
    /\ Goto(w, "complete_check")
    /\ UNCHANGED <<acts, playingNow, queue, spawned, open, task, submitted, ran>>

(* Mistake: the pending tasks are not looked at.                           *)
CompleteNoCheck(w) ==
    /\ At(w, "complete_check")
    /\ Goto(w, "complete_remove")
    /\ UNCHANGED <<acts, playingNow, monitor, queue, spawned, open, task, submitted, ran>>

CompleteCheck(w) ==
    /\ At(w, "complete_check")
    /\ Goto(w, IF acts[task[w].act] = <<>> THEN "complete_remove" ELSE "complete_execute")
    /\ UNCHANGED <<acts, playingNow, monitor, queue, spawned, open, task, submitted, ran>>

CompleteRemove(w) ==
    /\ At(w, "complete_remove")
    /\ playingNow' = playingNow \ {task[w].act}
    /\ Exit(task[w].act)
    /\ Goto(w, "idle")
    /\ task' = [task EXCEPT ![w] = NoTask]
    /\ UNCHANGED <<acts, queue, spawned, open, submitted, ran>>

CompleteExecute(w) ==
    LET a == task[w].act
    IN  /\ At(w, "complete_execute")
        /\ acts' = [acts EXCEPT ![a] = Tail(@)]
        /\ Execute(w, [act |-> a, number |-> Head(acts[a])])
        /\ Exit(a)
        /\ UNCHANGED <<playingNow, open, submitted, ran>>

-----------------------------------------------------------------------------
SelectorStep ==
    SubmitEnter \/ SubmitCheck \/ SubmitFirst \/ SubmitExecute \/ SubmitPending

WorkerStep(w) ==
    \/ Take(w) \/ Run(w) \/ Finish(w)
    \/ CompleteEnter(w) \/ CompleteCheck(w) \/ CompleteRemove(w) \/ CompleteExecute(w)

Next ==
    \/ \E a \in Act : Submit(a)
    \/ Shutdown
    \/ SelectorStep
    \/ \E w \in Worker : WorkerStep(w)

Spec == Init /\ [][Next]_vars

(* Every thread that can go on is scheduled some time, and every task      *)
(* ends.  Nothing obliges the selector to submit or to shut down.          *)
Fairness == WF_vars(SelectorStep) /\ \A w \in Worker : WF_vars(WorkerStep(w))

FairSpec == Spec /\ Fairness

-----------------------------------------------------------------------------
TypeOK ==
    /\ acts \in [Act -> Seq(1..MaxTasks)]
    /\ playingNow \in SUBSET Act
    /\ monitor \in [Act -> Thread \cup {None}]
    /\ queue \in Seq(Task)
    /\ spawned \in SUBSET Worker
    /\ open \in BOOLEAN
    /\ pc \in [Thread -> Label]
    /\ task \in [Thread -> Task \cup {NoTask}]
    /\ submitted \in [Act -> 0..MaxTasks]
    /\ ran \in [Act -> 0..MaxTasks]

(* The pool promises what the handlers rely on, NonBlockingConnection-     *)
(* Handler's decoder and protocol being unsynchronized: an act's tasks run *)
(* one at a time and in the order of their submission.                     *)
Running == {a \in Act : \E w \in Worker : At(w, "running") /\ task[w].act = a}

Queues == INSTANCE ActorQueue WITH accepted <- submitted, started <- ran, running <- Running

ImplementsQueues == Queues!Spec

(* A task is never left behind: while tasks of an act are pending, someone *)
(* still has to complete that act, unless the pool has been shut down      *)
(* (ActorThreadPool.java:28-37 against 67-76).                             *)
InHand(a) ==
    \/ \E w \in Worker : ~At(w, "idle") /\ task[w].act = a
    \/ \E i \in 1..Len(queue) : queue[i].act = a
    \/ At(selector, "submit_execute") /\ task[selector].act = a

NoneStranded == \A a \in Act : acts[a] # <<>> /\ open => InHand(a)

(* Every submitted task begins to run, unless the pool is shut down.       *)
EveryTaskRuns ==
    \A a \in Act : \A n \in 1..MaxTasks :
        submitted[a] = n ~> (ran[a] >= n \/ ~open)

-----------------------------------------------------------------------------
(* The inductive invariant (ActorThreadPool_proofs.tla).                   *)

BeforeHandOver == {"submit", "submit_check", "submit_first", "submit_pending"}
InSubmit       == {"submit_check", "submit_first", "submit_execute", "submit_pending"}
InComplete     == {"complete_check", "complete_remove", "complete_execute"}
HasBegun       == {"running", "complete"} \cup InComplete

(* Who does what, and who is inside the monitors.                          *)
Places ==
    /\ pc[selector] \in {"idle", "submit", "stopped"} \cup InSubmit
    /\ task[selector] = NoTask <=> pc[selector] \in {"idle", "stopped"}
    /\ pc[selector] = "stopped" <=> ~open
    /\ ~open => queue = <<>>
    /\ \A w \in Worker :
          /\ pc[w] \in {"idle", "start"} \cup HasBegun
          /\ task[w] = NoTask <=> pc[w] = "idle"
          /\ w \notin spawned => pc[w] = "idle"

MonitorsHeld ==
    /\ pc[selector] \in InSubmit => monitor[task[selector].act] = selector
    /\ \A w \in Worker : pc[w] \in InComplete => monitor[task[w].act] = w

(* No two tasks of an act are in the executor's hands.                     *)
OneInHand ==
    /\ \A v, w \in Worker : pc[w] # "idle" /\ task[v].act = task[w].act => v = w
    /\ \A i, j \in 1..Len(queue) : queue[i].act = queue[j].act => i = j
    /\ \A w \in Worker, i \in 1..Len(queue) : task[w].act # queue[i].act
    /\ pc[selector] = "submit_execute" =>
          /\ \A w \in Worker : task[w].act # task[selector].act
          /\ \A i \in 1..Len(queue) : queue[i].act # task[selector].act

(* An act is in playingNow exactly while one of its tasks is in hand (after*)
(* a shutdown it may stay there), and only then tasks of it are pending.   *)
PlayingInHand ==
    /\ \A a \in Act : InHand(a) => a \in playingNow
    /\ \A a \in Act : open /\ a \in playingNow => InHand(a)
    /\ \A a \in Act : acts[a] # <<>> => a \in playingNow
    /\ pc[selector] = "submit_first" => task[selector].act \notin playingNow
    /\ pc[selector] = "submit_pending" => task[selector].act \in playingNow
    /\ \A w \in Worker : /\ pc[w] = "complete_remove" => acts[task[w].act] = <<>>
                         /\ pc[w] = "complete_execute" => acts[task[w].act] # <<>>

(* The number of the last task of an act that has been handed over or put  *)
(* with the pending ones.                                                  *)
Given(a) ==
    IF pc[selector] \in BeforeHandOver /\ task[selector].act = a THEN submitted[a] - 1
    ELSE submitted[a]

(* Tasks are handed over, pending and submitted in the order of their      *)
(* numbers.                                                                *)
Follow(k) ==
    /\ \A i \in 1..Len(acts[k.act]) : acts[k.act][i] = k.number + i
    /\ k.number + Len(acts[k.act]) = Given(k.act)

ToBegin(k) == ran[k.act] = k.number - 1 /\ Follow(k)

InOrder ==
    /\ \A w \in Worker : pc[w] = "start" => ToBegin(task[w])
    /\ \A w \in Worker : pc[w] \in HasBegun =>
          ran[task[w].act] = task[w].number /\ Follow(task[w])
    /\ \A i \in 1..Len(queue) : ToBegin(queue[i])
    /\ pc[selector] = "submit_execute" => ToBegin(task[selector])
    /\ pc[selector] \in BeforeHandOver => task[selector].number = submitted[task[selector].act]
    /\ \A a \in Act \ playingNow : ran[a] = Given(a)

PoolInv == TypeOK /\ Places /\ MonitorsHeld /\ OneInHand /\ PlayingInHand /\ InOrder
=============================================================================
