---------------------- MODULE ActorThreadPool_proofs ----------------------
(***************************************************************************)
(* Proofs about the worker pool: for any acts, workers and numbers of      *)
(* tasks, no task is left behind and an act's tasks run one at a time, in  *)
(* the order of their submission.                                          *)
(***************************************************************************)
EXTENDS ActorThreadPool, TLAPS

USE PoolAssumption, MaxTasksAssumption, SelectorAssumption

(* The sets of labels are small and everywhere.                            *)
USE DEF At, Goto, Thread, BeforeHandOver, InSubmit, InComplete, HasBegun

LEMMA PoolInit == Init => PoolInv
<1>1. Init => TypeOK
  BY DEF Init, TypeOK, Label
<1>2. Init => Places /\ MonitorsHeld
  BY DEF Init, Places, MonitorsHeld, NoTask
<1>3. Init => OneInHand
  BY DEF Init, OneInHand
<1>4. Init => PlayingInHand
  BY DEF Init, PlayingInHand, InHand
<1>5. Init => InOrder
  BY DEF Init, InOrder, ToBegin, Follow, Given
<1>6. QED
  BY <1>1, <1>2, <1>3, <1>4, <1>5 DEF PoolInv

(* Who has a task, and which.                                              *)
LEMMA TasksInHand ==
    ASSUME TypeOK, Places
    PROVE  /\ NoTask.act = None /\ NoTask.act \notin Act
           /\ \A k \in Task : k.act \in Act /\ k.number \in 1..MaxTasks
           /\ \A w \in Worker : pc[w] # "idle" => task[w] \in Task
           /\ \A w \in Worker : pc[w] = "idle" => task[w] = NoTask
           /\ pc[selector] \notin {"idle", "stopped"} => task[selector] \in Task
           /\ \A i \in 1..Len(queue) : queue[i] \in Task
<1>1. NoTask.act = None /\ NoTask.act \notin Act
  BY DEF NoTask
<1>2. \A k \in Task : k.act \in Act /\ k.number \in 1..MaxTasks
  BY DEF Task
<1>3. \A w \in Worker : pc[w] # "idle" => task[w] \in Task
  BY DEF TypeOK, Places
<1>4. \A w \in Worker : pc[w] = "idle" => task[w] = NoTask
  BY DEF Places
<1>5. pc[selector] \notin {"idle", "stopped"} => task[selector] \in Task
  BY DEF TypeOK, Places
<1>6. \A i \in 1..Len(queue) : queue[i] \in Task
  BY DEF TypeOK
<1>7. QED
  BY <1>1, <1>2, <1>3, <1>4, <1>5, <1>6

(* As long as an act's pending tasks and the number of the last one given  *)
(* to the pool are the same, a task that they follow is still followed.    *)
LEMMA StillFollowed ==
    ASSUME NEW k \in Task, acts'[k.act] = acts[k.act], Given(k.act)' = Given(k.act), Follow(k)
    PROVE  Follow(k)'
  BY DEF Follow

-----------------------------------------------------------------------------
(* The selector's thread.                                                  *)

LEMMA SubmitKeeps ==
    ASSUME PoolInv, NEW a \in Act, Submit(a)
    PROVE  PoolInv'
<1> USE DEF PoolInv, Submit
<1>1. TypeOK'
  BY DEF TypeOK, Label, Task, NoTask
<1>2. Places'
  BY DEF TypeOK, Places, NoTask
<1>3. MonitorsHeld'
  BY DEF TypeOK, Places, MonitorsHeld
<1>4. OneInHand'
  BY DEF TypeOK, Places, OneInHand
<1>5. PlayingInHand'
  <2>1. /\ \A w \in Worker : pc'[w] = pc[w] /\ task'[w] = task[w]
        /\ pc'[selector] = "submit" /\ pc[selector] = "idle"
    BY DEF TypeOK
  <2>2. \A b \in Act : InHand(b)' <=> InHand(b)
    BY <2>1 DEF InHand
  <2>3. QED
    BY <2>1, <2>2 DEF PlayingInHand
<1>6. InOrder'
  <2>1. \A b \in Act : Given(b)' = Given(b)
    BY DEF TypeOK, Places, Given
  <2>2. \A k \in Task : Follow(k) => Follow(k)'
    BY <2>1, StillFollowed, TasksInHand
  <2>3. task'[selector].number = submitted'[task'[selector].act]
    BY DEF TypeOK
  <2>4. \A w \in Worker : task'[w] = task[w] /\ pc'[w] = pc[w]
    BY DEF TypeOK
  <2>5. QED
    BY SMTT(30), <2>1, <2>2, <2>3, <2>4, TasksInHand DEF TypeOK, InOrder, ToBegin
<1>7. QED
  BY <1>1, <1>2, <1>3, <1>4, <1>5, <1>6

LEMMA SubmitEnterKeeps ==
    ASSUME PoolInv, SubmitEnter
    PROVE  PoolInv'
<1> USE DEF PoolInv, SubmitEnter, Enter
<1>1. TypeOK'
  BY DEF TypeOK, Label, Places, Task, NoTask
<1>2. Places'
  BY DEF TypeOK, Places
<1>3. MonitorsHeld'
  BY TasksInHand DEF TypeOK, MonitorsHeld
<1>4. OneInHand'
  BY DEF TypeOK, Places, OneInHand
<1>5. PlayingInHand'
  <2>1. /\ \A w \in Worker : pc'[w] = pc[w]
        /\ pc'[selector] = "submit_check" /\ pc[selector] = "submit"
    BY DEF TypeOK
  <2>2. \A b \in Act : InHand(b)' <=> InHand(b)
    BY <2>1 DEF InHand
  <2>3. QED
    BY <2>1, <2>2 DEF PlayingInHand
<1>6. InOrder'
  BY DEF TypeOK, Places, InOrder, ToBegin, Follow, Given
<1>7. QED
  BY <1>1, <1>2, <1>3, <1>4, <1>5, <1>6

LEMMA SubmitCheckKeeps ==
    ASSUME PoolInv, SubmitCheck
    PROVE  PoolInv'
<1> USE DEF PoolInv, SubmitCheck
<1>1. TypeOK'
  BY DEF TypeOK, Label
<1>2. Places'
  BY DEF TypeOK, Places
<1>3. MonitorsHeld'
  BY DEF TypeOK, Places, MonitorsHeld
<1>4. OneInHand'
  BY DEF TypeOK, Places, OneInHand
<1>5. PlayingInHand'
  BY DEF TypeOK, Places, PlayingInHand, InHand
<1>6. InOrder'
  BY DEF TypeOK, Places, InOrder, ToBegin, Follow, Given
<1>7. QED
  BY <1>1, <1>2, <1>3, <1>4, <1>5, <1>6

LEMMA SubmitFirstKeeps ==
    ASSUME PoolInv, SubmitFirst
    PROVE  PoolInv'
<1> USE DEF PoolInv, SubmitFirst
<1>1. TypeOK'
  BY DEF TypeOK, Places, Label, Task, NoTask
<1>2. Places'
  BY DEF TypeOK, Places
<1>3. MonitorsHeld'
  BY DEF TypeOK, Places, MonitorsHeld
<1>4. OneInHand'
  <2>1. ~InHand(task[selector].act)
    BY TasksInHand DEF PlayingInHand
  <2>2. /\ \A w \in Worker : task[w].act # task[selector].act
        /\ \A i \in 1..Len(queue) : queue[i].act # task[selector].act
    BY <2>1, TasksInHand DEF InHand
  <2>3. \A w \in Worker : pc'[w] = pc[w]
    BY DEF TypeOK
  <2>4. QED
    BY <2>2, <2>3 DEF OneInHand
<1>5. PlayingInHand'
  BY DEF TypeOK, Places, MonitorsHeld, PlayingInHand, InHand
<1>6. InOrder'
  <2>1. acts[task[selector].act] = <<>>
    BY TasksInHand DEF PlayingInHand
  <2>2. ran[task[selector].act] = submitted[task[selector].act] - 1
    BY TasksInHand DEF PlayingInHand, InOrder, Given
  <2>3. ToBegin(task[selector])'
    BY <2>1, <2>2, TasksInHand DEF TypeOK, InOrder, ToBegin, Follow, Given
  <2>4. \A b \in Act : b # task[selector].act => Given(b)' = Given(b)
    BY DEF TypeOK, Given
  <2>5. \A k \in Task : k.act # task[selector].act /\ Follow(k) => Follow(k)'
    BY <2>4, StillFollowed, TasksInHand
  <2>6. ~InHand(task[selector].act)
    BY TasksInHand DEF PlayingInHand
  <2>7. \A w \in Worker : pc'[w] = pc[w]
    BY DEF TypeOK
  <2>8. QED
    BY SMTT(30), <2>3, <2>4, <2>5, <2>6, <2>7, TasksInHand DEF TypeOK, InOrder, ToBegin, InHand
<1>7. QED
  BY <1>1, <1>2, <1>3, <1>4, <1>5, <1>6

LEMMA SubmitPendingKeeps ==
    ASSUME PoolInv, SubmitPending
    PROVE  PoolInv'
<1> USE DEF PoolInv, SubmitPending, Exit
<1>1. PICK a \in Act, n \in 1..MaxTasks :
          /\ task[selector].act = a /\ task[selector].number = n
          /\ n = submitted[a] /\ a \in playingNow
  BY TasksInHand DEF PlayingInHand, InOrder
<1>2. /\ acts[a] \in Seq(1..MaxTasks)
      /\ acts' = [acts EXCEPT ![a] = Append(acts[a], n)]
      /\ acts'[a] = Append(acts[a], n)
      /\ acts'[a] \in Seq(1..MaxTasks) /\ Len(acts'[a]) = Len(acts[a]) + 1
      /\ acts'[a][Len(acts[a]) + 1] = n
      /\ \A i \in 1..Len(acts[a]) : acts'[a][i] = acts[a][i]
      /\ \A b \in Act : b # a => acts'[b] = acts[b]
  BY <1>1 DEF TypeOK
<1>3. TypeOK'
  BY <1>1, <1>2 DEF TypeOK, Label
<1>4. Places'
  BY DEF TypeOK, Places, NoTask
<1>5. MonitorsHeld'
  BY TasksInHand DEF TypeOK, MonitorsHeld
<1>6. \A w \in Worker : task'[w] = task[w] /\ pc'[w] = pc[w]
  BY DEF TypeOK
<1>7. OneInHand'
  BY <1>6 DEF TypeOK, OneInHand
<1>8. PlayingInHand'
  <2>1. \A b \in Act : InHand(b)' <=> InHand(b)
    BY <1>6 DEF TypeOK, InHand
  <2>2. \A w \in Worker : pc[w] = "complete_remove" => task[w].act # a
    BY <1>1, TasksInHand DEF MonitorsHeld
  <2>3. acts'[a] # <<>>
    <3>1. Len(acts[a]) \in Nat
      BY <1>2
    <3>2. Len(acts'[a]) # Len(<<>>)
      BY <1>2, <3>1
    <3>3. QED
      BY <3>2
  <2>4. \A w \in Worker : pc[w] = "complete_remove" => acts'[task[w].act] = <<>>
    BY SMTT(30), <1>2, <2>2, TasksInHand DEF PlayingInHand
  <2>5. \A w \in Worker : pc[w] = "complete_execute" => acts'[task[w].act] # <<>>
    BY <1>2, <2>3, TasksInHand DEF PlayingInHand
  <2>6. \A b \in Act : /\ InHand(b) => b \in playingNow
                       /\ open /\ b \in playingNow => InHand(b)
    BY DEF PlayingInHand
  <2>7. \A b \in Act : acts'[b] # <<>> => b \in playingNow
    BY <1>1, <1>2 DEF PlayingInHand
  <2>8. pc'[selector] = "idle" /\ playingNow' = playingNow /\ (open' <=> open)
    BY DEF TypeOK
  <2> HIDE DEF PoolInv, SubmitPending
  <2>9. QED
    BY <1>6, <2>1, <2>4, <2>5, <2>6, <2>7, <2>8 DEF PlayingInHand
<1>9. InOrder'
  <2>1. \A b \in Act : b # a => Given(b)' = Given(b)
    BY <1>1 DEF TypeOK, Given
  <2>2. Given(a) = n - 1 /\ Given(a)' = n
    BY <1>1, TasksInHand DEF TypeOK, Given
  <2>3. ASSUME NEW k \in Task, Follow(k) PROVE Follow(k)'
    <3>1. CASE k.act # a
      BY <1>2, <2>1, <2>3, <3>1, StillFollowed, TasksInHand
    <3>2. CASE k.act = a
      <4>1. Len(acts[a]) \in Nat /\ k.number \in Nat /\ n \in Nat
        BY <1>1, <1>2, TasksInHand
      <4>2. Len(acts'[a]) = Len(acts[a]) + 1
        BY <1>2
      <4>3. k.number + Len(acts[a]) = n - 1
        BY <1>2, <2>2, <2>3, <3>2, TasksInHand DEF Follow
      <4>4. k.number + (Len(acts[a]) + 1) = n
        <5>1. PICK m \in Nat, j \in Nat : Len(acts[a]) = m /\ k.number = j
          BY <4>1
        <5>2. j + m = n - 1
          BY <4>3, <5>1
        <5>3. j + (m + 1) = n
          BY <4>1, <5>2
        <5>4. QED
          BY <5>1, <5>3
      <4>5. ASSUME NEW i \in 1..Len(acts'[a]) PROVE acts'[a][i] = k.number + i
        <5>1. CASE i \in 1..Len(acts[a])
          BY <1>2, <2>3, <3>2, <5>1 DEF Follow
        <5>2. CASE i = Len(acts[a]) + 1
          <6>1. acts'[a][i] = n
            BY <1>2, <5>2
          <6>2. QED
            BY <4>4, <5>2, <6>1
        <5>3. QED
          BY <4>1, <4>2, <5>1, <5>2
      <4>6. QED
        BY <2>2, <3>2, <4>2, <4>4, <4>5 DEF Follow
    <3>3. QED
      BY <3>1, <3>2
  <2>4. QED
    BY <1>1, <1>6, <2>1, <2>3, TasksInHand DEF TypeOK, InOrder, ToBegin
<1>10. QED
  BY <1>3, <1>4, <1>5, <1>7, <1>8, <1>9

LEMMA ShutdownKeeps ==
    ASSUME PoolInv, Shutdown
    PROVE  PoolInv'
<1> USE DEF PoolInv, Shutdown
<1>1. TypeOK'
  <2>1. queue' \in Seq(Task) /\ open' \in BOOLEAN /\ pc' \in [Thread -> Label]
    <3>1. <<>> \in Seq(Task)
      OBVIOUS
    <3>2. pc' \in [Thread -> Label]
      BY DEF TypeOK, Label
    <3>3. QED
      BY <3>1, <3>2
  <2>2. QED
    BY <2>1 DEF TypeOK
<1>2. Places'
  BY DEF TypeOK, Places
<1>3. MonitorsHeld'
  BY DEF TypeOK, Places, MonitorsHeld
<1>4. \A w \in Worker : pc'[w] = pc[w]
  BY DEF TypeOK
<1>5. OneInHand'
  BY <1>4 DEF TypeOK, OneInHand
<1>6. PlayingInHand'
  BY <1>4 DEF TypeOK, PlayingInHand, InHand
<1>7. InOrder'
  <2>1. \A b \in Act : Given(b)' = Given(b)
    BY DEF TypeOK, Given
  <2>2. \A k \in Task : Follow(k) => Follow(k)'
    BY <2>1, StillFollowed, TasksInHand
  <2>3. QED
    BY <1>4, <2>1, <2>2, TasksInHand DEF TypeOK, InOrder, ToBegin
<1>8. QED
  BY <1>1, <1>2, <1>3, <1>5, <1>6, <1>7

-----------------------------------------------------------------------------
(* The workers.                                                            *)

LEMMA TakeKeeps ==
    ASSUME PoolInv, NEW w \in Worker, Take(w)
    PROVE  PoolInv'
<1> USE DEF PoolInv, Take
<1>1. /\ queue \in Seq(Task) /\ Len(queue) \in Nat /\ Len(queue) > 0
      /\ Head(queue) = queue[1] /\ queue[1] \in Task
      /\ queue' \in Seq(Task) /\ Len(queue') = Len(queue) - 1
      /\ \A i \in 1..Len(queue') : queue'[i] = queue[i + 1]
  BY DEF TypeOK
<1>2. TypeOK'
  BY <1>1 DEF TypeOK, Label
<1>3. Places'
  BY <1>1, TasksInHand DEF TypeOK, Places, NoTask
<1>4. /\ pc'[w] = "start" /\ task'[w] = queue[1]
      /\ \A v \in Worker : v # w => pc'[v] = pc[v] /\ task'[v] = task[v]
      /\ pc'[selector] = pc[selector] /\ task'[selector] = task[selector]
  BY <1>1 DEF TypeOK
<1>5. MonitorsHeld'
  BY <1>4 DEF TypeOK, MonitorsHeld
<1>6. OneInHand'
  BY <1>1, <1>4, TasksInHand DEF TypeOK, OneInHand
<1>7. PlayingInHand'
  <2>1. ASSUME NEW b \in Act, InHand(b) PROVE InHand(b)'
    <3>1. CASE \E v \in Worker : ~At(v, "idle") /\ task[v].act = b
      BY <1>4, <3>1 DEF InHand
    <3>2. CASE \E i \in 1..Len(queue) : queue[i].act = b
      <4>1. PICK i \in 1..Len(queue) : queue[i].act = b
        BY <3>2
      <4>2. CASE i = 1
        BY <1>4, <4>1, <4>2 DEF InHand
      <4>3. CASE i # 1
        <5>1. i - 1 \in 1..Len(queue') /\ queue'[i - 1].act = b
          BY <1>1, <4>1, <4>3
        <5>2. QED
          BY <5>1 DEF InHand
      <4>4. QED
        BY <4>2, <4>3
    <3>3. CASE At(selector, "submit_execute") /\ task[selector].act = b
      BY <1>4, <3>3 DEF InHand
    <3>4. QED
      BY <2>1, <3>1, <3>2, <3>3 DEF InHand
  <2>2. ASSUME NEW b \in Act, InHand(b)' PROVE InHand(b)
    <3>1. CASE \E v \in Worker : pc'[v] # "idle" /\ task'[v].act = b
      BY <1>1, <1>4, <3>1 DEF InHand
    <3>2. CASE \E i \in 1..Len(queue') : queue'[i].act = b
      <4>1. PICK i \in 1..Len(queue') : queue'[i].act = b
        BY <3>2
      <4>2. i + 1 \in 1..Len(queue) /\ queue[i + 1].act = b
        BY <1>1, <4>1
      <4>3. QED
        BY <4>2 DEF InHand
    <3>3. CASE pc'[selector] = "submit_execute" /\ task'[selector].act = b
      BY <1>4, <3>3 DEF InHand
    <3>4. QED
      BY <2>2, <3>1, <3>2, <3>3 DEF InHand
  <2>3. QED
    BY <1>4, <2>1, <2>2 DEF TypeOK, PlayingInHand
<1>8. InOrder'
  <2>1. \A b \in Act : Given(b)' = Given(b)
    BY <1>4 DEF TypeOK, Given
  <2>2. \A k \in Task : Follow(k) => Follow(k)'
    BY <2>1, StillFollowed, TasksInHand
  <2>3. ASSUME NEW v \in Worker, pc'[v] # "idle"
        PROVE  /\ pc'[v] = "start" => ToBegin(task[v])'
               /\ pc'[v] \in HasBegun =>
                     ran[task'[v].act] = task'[v].number /\ Follow(task[v])'
    <3>1. CASE v = w
      BY <1>1, <1>4, <2>2, <3>1 DEF InOrder, ToBegin
    <3>2. CASE v # w
      BY <1>4, <2>2, <2>3, <3>2, TasksInHand DEF InOrder, ToBegin
    <3>3. QED
      BY <3>1, <3>2
  <2>4. ASSUME NEW i \in 1..Len(queue') PROVE ToBegin(queue[i])'
    <3>1. queue'[i] = queue[i + 1] /\ i + 1 \in 1..Len(queue)
      BY <1>1
    <3>2. ToBegin(queue[i + 1]) /\ queue[i + 1] \in Task
      BY <3>1, TasksInHand DEF InOrder
    <3>3. QED
      BY <2>2, <3>1, <3>2 DEF ToBegin
  <2>5. QED
    BY <1>4, <2>1, <2>2, <2>3, <2>4, TasksInHand DEF InOrder, ToBegin
<1>9. QED
  BY <1>2, <1>3, <1>5, <1>6, <1>7, <1>8

LEMMA RunKeeps ==
    ASSUME PoolInv, NEW w \in Worker, Run(w)
    PROVE  PoolInv'
<1> USE DEF PoolInv, Run
<1> DEFINE a == task[w].act
<1>1. a \in Act /\ task[w] \in Task /\ task[w].number \in 1..MaxTasks
  BY TasksInHand
<1>2. TypeOK'
  BY <1>1 DEF TypeOK, Label
<1>3. /\ pc'[w] = "running"
      /\ \A v \in Worker : v # w => pc'[v] = pc[v]
      /\ pc'[selector] = pc[selector]
  BY DEF TypeOK
<1>4. Places'
  BY <1>3 DEF TypeOK, Places
<1>5. MonitorsHeld'
  BY <1>3 DEF MonitorsHeld
<1>6. OneInHand'
  BY <1>3 DEF OneInHand
<1>7. PlayingInHand'
  <2>1. \A b \in Act : InHand(b)' <=> InHand(b)
    BY <1>3 DEF InHand
  <2>2. QED
    BY <1>3, <2>1 DEF PlayingInHand
<1>8. InOrder'
  <2>1. \A b \in Act : Given(b)' = Given(b)
    BY <1>3 DEF Given
  <2>2. \A k \in Task : Follow(k) => Follow(k)'
    BY <2>1, StillFollowed, TasksInHand
  <2>3. ran'[a] = task[w].number /\ \A b \in Act : b # a => ran'[b] = ran[b]
    BY <1>1 DEF TypeOK
  <2>4. InHand(a) /\ a \in playingNow
    BY <1>1 DEF InHand, PlayingInHand
  <2>5. \A v \in Worker : v # w => task[v].act # a
    BY DEF OneInHand
  <2>6. \A i \in 1..Len(queue) : queue[i].act # a
    BY DEF OneInHand
  <2>7. pc[selector] = "submit_execute" => task[selector].act # a
    BY DEF OneInHand
  <2>8. QED
    BY <1>3, <2>1, <2>2, <2>3, <2>4, <2>5, <2>6, <2>7, TasksInHand DEF InOrder, ToBegin
<1>9. QED
  BY <1>2, <1>4, <1>5, <1>6, <1>7, <1>8

LEMMA FinishKeeps ==
    ASSUME PoolInv, NEW w \in Worker, Finish(w)
    PROVE  PoolInv'
<1> USE DEF PoolInv, Finish
<1>1. TypeOK'
  BY DEF TypeOK, Label
<1>2. /\ pc'[w] = "complete"
      /\ \A v \in Worker : v # w => pc'[v] = pc[v]
      /\ pc'[selector] = pc[selector]
  BY DEF TypeOK
<1>3. Places'
  BY <1>2 DEF TypeOK, Places
<1>4. MonitorsHeld'
  BY <1>2 DEF MonitorsHeld
<1>5. OneInHand'
  BY <1>2 DEF OneInHand
<1>6. PlayingInHand'
  <2>1. \A b \in Act : InHand(b)' <=> InHand(b)
    BY <1>2 DEF InHand
  <2>2. QED
    BY <1>2, <2>1 DEF PlayingInHand
<1>7. InOrder'
  <2>1. \A b \in Act : Given(b)' = Given(b)
    BY <1>2 DEF Given
  <2>2. \A k \in Task : Follow(k) => Follow(k)'
    BY <2>1, StillFollowed, TasksInHand
  <2>3. QED
    BY <1>2, <2>1, <2>2, TasksInHand DEF InOrder, ToBegin
<1>8. QED
  BY <1>1, <1>3, <1>4, <1>5, <1>6, <1>7

LEMMA CompleteEnterKeeps ==
    ASSUME PoolInv, NEW w \in Worker, CompleteEnter(w)
    PROVE  PoolInv'
<1> USE DEF PoolInv, CompleteEnter, Enter
<1>1. task[w] \in Task /\ task[w].act \in Act
  BY TasksInHand
<1>2. TypeOK'
  BY <1>1 DEF TypeOK, Label
<1>3. /\ pc'[w] = "complete_check"
      /\ \A v \in Worker : v # w => pc'[v] = pc[v]
      /\ pc'[selector] = pc[selector]
  BY DEF TypeOK
<1>4. Places'
  BY <1>3 DEF TypeOK, Places
<1>5. MonitorsHeld'
  BY <1>1, <1>3, TasksInHand DEF TypeOK, MonitorsHeld
<1>6. OneInHand'
  BY <1>3 DEF OneInHand
<1>7. PlayingInHand'
  <2>1. \A b \in Act : InHand(b)' <=> InHand(b)
    BY <1>3 DEF InHand
  <2>2. QED
    BY <1>3, <2>1 DEF PlayingInHand
<1>8. InOrder'
  <2>1. \A b \in Act : Given(b)' = Given(b)
    BY <1>3 DEF Given
  <2>2. \A k \in Task : Follow(k) => Follow(k)'
    BY <2>1, StillFollowed, TasksInHand
  <2>3. QED
    BY <1>3, <2>1, <2>2, TasksInHand DEF InOrder, ToBegin
<1>9. QED
  BY <1>2, <1>4, <1>5, <1>6, <1>7, <1>8

LEMMA CompleteCheckKeeps ==
    ASSUME PoolInv, NEW w \in Worker, CompleteCheck(w)
    PROVE  PoolInv'
<1> USE DEF PoolInv, CompleteCheck
<1>1. TypeOK'
  BY DEF TypeOK, Label
<1>2. /\ pc'[w] = IF acts[task[w].act] = <<>> THEN "complete_remove" ELSE "complete_execute"
      /\ \A v \in Worker : v # w => pc'[v] = pc[v]
      /\ pc'[selector] = pc[selector]
  BY DEF TypeOK
<1>3. Places'
  BY <1>2 DEF TypeOK, Places
<1>4. MonitorsHeld'
  BY <1>2 DEF MonitorsHeld
<1>5. OneInHand'
  BY <1>2 DEF OneInHand
<1>6. PlayingInHand'
  <2>1. \A b \in Act : InHand(b)' <=> InHand(b)
    BY <1>2 DEF InHand
  <2>2. QED
    BY <1>2, <2>1 DEF PlayingInHand
<1>7. InOrder'
  <2>1. \A b \in Act : Given(b)' = Given(b)
    BY <1>2 DEF Given
  <2>2. \A k \in Task : Follow(k) => Follow(k)'
    BY <2>1, StillFollowed, TasksInHand
  <2>3. pc'[w] \in HasBegun
    BY <1>2
  <2>4. QED
    BY <1>2, <2>1, <2>2, <2>3, TasksInHand DEF InOrder, ToBegin
<1>8. QED
  BY <1>1, <1>3, <1>4, <1>5, <1>6, <1>7

LEMMA CompleteRemoveKeeps ==
    ASSUME PoolInv, NEW w \in Worker, CompleteRemove(w)
    PROVE  PoolInv'
<1> USE DEF PoolInv, CompleteRemove, Exit
<1>1. PICK a \in Act : task[w] \in Task /\ task[w].act = a
  BY TasksInHand
<1>2. TypeOK'
  BY <1>1 DEF TypeOK, Label
<1>3. /\ pc'[w] = "idle" /\ task'[w] = NoTask
      /\ \A v \in Worker : v # w => pc'[v] = pc[v] /\ task'[v] = task[v]
      /\ pc'[selector] = pc[selector] /\ task'[selector] = task[selector]
  BY DEF TypeOK
<1>4. Places'
  BY <1>3 DEF TypeOK, Places
<1>5. MonitorsHeld'
  <2>1. \A v \in Worker : v # w /\ pc[v] \in InComplete => task[v].act # a
    BY <1>1 DEF MonitorsHeld
  <2>2. pc[selector] \in InSubmit => task[selector].act # a
    BY <1>1 DEF MonitorsHeld
  <2>3. \A b : b \in Act /\ b # a => monitor'[b] = monitor[b]
    BY <1>1 DEF TypeOK
  <2>4. QED
    BY <1>3, <2>1, <2>2, <2>3, TasksInHand DEF MonitorsHeld
<1>6. OneInHand'
  <2>1. \A i \in 1..Len(queue) : queue[i].act # NoTask.act
    BY TasksInHand
  <2>2. pc[selector] = "submit_execute" => task[selector].act # NoTask.act
    BY TasksInHand
  <2>3. \A v \in Worker : pc[v] # "idle" => task[v].act # NoTask.act
    BY TasksInHand
  <2>4. QED
    BY <1>3, <2>1, <2>2, <2>3 DEF OneInHand
<1>7. ~InHand(a)'
  <2>1. \A v \in Worker : v # w => task[v].act # a
    BY <1>1 DEF OneInHand
  <2>2. \A i \in 1..Len(queue) : queue[i].act # a
    BY <1>1 DEF OneInHand
  <2>3. pc[selector] = "submit_execute" => task[selector].act # a
    BY <1>1 DEF OneInHand
  <2>4. QED
    BY <1>3, <2>1, <2>2, <2>3 DEF InHand
<1>8. \A b \in Act : b # a => (InHand(b)' <=> InHand(b))
  BY <1>1, <1>3, TasksInHand DEF InHand
<1>9. acts[a] = <<>> /\ playingNow' = playingNow \ {a}
  BY <1>1 DEF PlayingInHand
<1>10. PlayingInHand'
  <2>1. pc[selector] = "submit_pending" => task[selector].act # a
    BY <1>1 DEF MonitorsHeld
  <2>2. QED
    BY <1>3, <1>7, <1>8, <1>9, <2>1, TasksInHand DEF PlayingInHand
<1>11. InOrder'
  <2>1. \A b \in Act : Given(b)' = Given(b)
    BY <1>3 DEF Given
  <2>2. \A k \in Task : Follow(k) => Follow(k)'
    BY <2>1, StillFollowed, TasksInHand
  <2>3. ran[a] = Given(a)
    <3>1. ran[a] = task[w].number /\ task[w].number + Len(acts[a]) = Given(a)
      BY <1>1 DEF InOrder, Follow
    <3>2. task[w].number \in Nat /\ Len(acts[a]) = 0
      BY <1>1, <1>9, TasksInHand
    <3>3. QED
      BY <3>1, <3>2
  <2>4. QED
    BY <1>3, <1>9, <2>1, <2>2, <2>3, TasksInHand DEF InOrder, ToBegin
<1>12. QED
  BY <1>2, <1>4, <1>5, <1>6, <1>10, <1>11

-----------------------------------------------------------------------------
(* The selector's thread hands its task to the executor.  The pool is open:*)
(* after shutdown the selector's thread does nothing.                      *)

LEMMA SubmitSpawnKeeps ==
    ASSUME PoolInv, SubmitExecute, NEW w \in Worker,
           SpawnWith(selector, w, task[selector])
    PROVE  PoolInv'
<1> USE DEF PoolInv, SubmitExecute, SpawnWith, Exit
<1>1. PICK k \in Task : task[selector] = k
  BY TasksInHand
<1>2. k.act \in Act /\ pc[w] = "idle" /\ w # selector
  BY TasksInHand DEF Places
<1>3. TypeOK'
  BY <1>1, <1>2 DEF TypeOK, Label
<1>4. /\ pc'[w] = "start" /\ task'[w] = k
      /\ \A v \in Worker : v # w => pc'[v] = pc[v] /\ task'[v] = task[v]
      /\ pc'[selector] = "idle" /\ task'[selector] = NoTask
  BY <1>1, <1>2 DEF TypeOK
<1>5. Places'
  BY <1>1, <1>4, TasksInHand DEF TypeOK, Places, NoTask
<1>6. MonitorsHeld'
  <2>1. \A v \in Worker : pc[v] \in InComplete => task[v].act # k.act
    BY <1>1 DEF MonitorsHeld
  <2>2. \A b \in Act : b # k.act => monitor'[b] = monitor[b]
    BY <1>1, <1>2 DEF TypeOK
  <2>3. ASSUME NEW v \in Worker, pc'[v] \in InComplete PROVE monitor'[task'[v].act] = v
    <3>1. v # w /\ pc[v] \in InComplete /\ task'[v] = task[v]
      BY <1>4, <2>3
    <3>2. task[v].act \in Act /\ monitor[task[v].act] = v
      BY <3>1, TasksInHand DEF MonitorsHeld
    <3>3. QED
      BY <2>1, <2>2, <3>1, <3>2
  <2>4. QED
    BY <1>4, <2>3 DEF MonitorsHeld
<1>7. OneInHand'
  <2>1. /\ \A v \in Worker : task[v].act # k.act
        /\ \A i \in 1..Len(queue) : queue[i].act # k.act
    BY <1>1 DEF OneInHand
  <2>2. ASSUME NEW v \in Worker, NEW u \in Worker, pc'[v] # "idle", task'[u].act = task'[v].act
        PROVE  u = v
    <3>1. CASE u = w \/ v = w
      BY <1>4, <2>1, <2>2, <3>1
    <3>2. CASE u # w /\ v # w
      BY <1>4, <2>2, <3>2 DEF OneInHand
    <3>3. QED
      BY <3>1, <3>2
  <2>3. ASSUME NEW v \in Worker, NEW i \in 1..Len(queue) PROVE task'[v].act # queue[i].act
    <3>1. CASE v = w
      BY <1>4, <2>1, <3>1
    <3>2. CASE v # w
      <4>1. task[v].act # queue[i].act
        BY DEF OneInHand
      <4>2. task'[v] = task[v]
        BY <1>4, <3>2
      <4>3. QED
        BY <4>1, <4>2
    <3>3. QED
      BY <3>1, <3>2
  <2>4. \A i, j \in 1..Len(queue') : queue'[i].act = queue'[j].act => i = j
    BY DEF OneInHand
  <2>5. queue' = queue /\ pc'[selector] # "submit_execute"
    BY <1>4
  <2> HIDE DEF PoolInv, SubmitExecute, SpawnWith
  <2>6. QED
    BY <2>2, <2>3, <2>4, <2>5 DEF OneInHand
<1>8. \A b \in Act : InHand(b)' <=> InHand(b)
  <2>1. InHand(k.act) /\ InHand(k.act)'
    BY <1>1, <1>4 DEF InHand
  <2>2. ASSUME NEW b \in Act, b # k.act PROVE InHand(b)' <=> InHand(b)
    <3>1. b # NoTask.act /\ queue' = queue
      BY TasksInHand
    <3> HIDE DEF PoolInv, SubmitExecute, SpawnWith
    <3>2. ASSUME NEW v \in Worker
          PROVE  pc'[v] # "idle" /\ task'[v].act = b <=> pc[v] # "idle" /\ task[v].act = b
      BY <1>2, <1>4, <2>2
    <3>3. QED
      BY <1>1, <1>4, <2>2, <3>1, <3>2 DEF InHand
  <2>3. QED
    BY <2>1, <2>2
<1>9. PlayingInHand'
  <2>1. \A v \in Worker : pc'[v] \in InComplete => pc'[v] = pc[v] /\ task'[v] = task[v]
    BY <1>4
  <2>2. acts' = acts /\ playingNow' = playingNow /\ open' = open /\ pc'[selector] = "idle"
    BY <1>4
  <2>3. \A u \in Worker : /\ pc[u] = "complete_remove" => acts[task[u].act] = <<>>
                          /\ pc[u] = "complete_execute" => acts[task[u].act] # <<>>
    BY DEF PlayingInHand
  <2>4. ASSUME NEW u \in Worker
        PROVE  /\ pc'[u] = "complete_remove" => acts'[task'[u].act] = <<>>
               /\ pc'[u] = "complete_execute" => acts'[task'[u].act] # <<>>
    <3>1. CASE pc'[u] \in InComplete
      <4>1. pc'[u] = pc[u] /\ task'[u] = task[u] /\ acts'[task[u].act] = acts[task[u].act]
        BY <2>1, <2>2, <3>1
      <4> HIDE DEF PoolInv, SubmitExecute, SpawnWith
      <4>2. QED
        BY <2>3, <4>1
    <3>2. CASE pc'[u] \notin InComplete
      BY <3>2
    <3>3. QED
      BY <3>1, <3>2
  <2>5. \A b \in Act : /\ InHand(b) => b \in playingNow
                       /\ open /\ b \in playingNow => InHand(b)
                       /\ acts[b] # <<>> => b \in playingNow
    BY DEF PlayingInHand
  <2> HIDE DEF PoolInv, SubmitExecute, SpawnWith
  <2>6. QED
    BY <1>8, <2>2, <2>4, <2>5 DEF PlayingInHand
<1>10. InOrder'
  <2>1. \A b \in Act : Given(b)' = Given(b)
    BY <1>4 DEF Given
  <2>2. \A j \in Task : Follow(j) => Follow(j)'
    BY <2>1, StillFollowed, TasksInHand
  <2>3. ToBegin(k)
    BY <1>1 DEF InOrder
  <2>4. \A j \in Task : ToBegin(j) => ToBegin(j)'
    BY <2>2, TasksInHand DEF ToBegin
  <2>5. ASSUME NEW v \in Worker, pc'[v] = "start" PROVE ToBegin(task[v])'
    <3>1. CASE v = w
      BY <1>4, <2>3, <2>4, <3>1 DEF ToBegin
    <3>2. CASE v # w
      <4>1. pc[v] = "start" /\ task'[v] = task[v] /\ task[v] \in Task
        BY <1>4, <2>5, <3>2, TasksInHand
      <4>2. ToBegin(task[v])
        BY <4>1 DEF InOrder
      <4>3. QED
        BY <2>4, <4>1, <4>2 DEF ToBegin
    <3>3. QED
      BY <3>1, <3>2
  <2>6. \A v \in Worker : pc'[v] \in HasBegun =>
           ran[task'[v].act] = task'[v].number /\ Follow(task[v])'
    <3>1. TAKE v \in Worker
    <3>2. HAVE pc'[v] \in HasBegun
    <3>3. pc[v] \in HasBegun /\ task'[v] = task[v] /\ task[v] \in Task
      BY <1>4, <3>2, TasksInHand
    <3>4. ran[task[v].act] = task[v].number /\ Follow(task[v])
      BY <3>3 DEF InOrder
    <3>5. QED
      BY <2>2, <3>3, <3>4
  <2>7. \A i \in 1..Len(queue) : ToBegin(queue[i])'
    BY <2>2, TasksInHand DEF InOrder, ToBegin
  <2>8. \A b \in Act \ playingNow : ran[b] = Given(b)'
    BY <2>1 DEF InOrder
  <2>9. ran' = ran /\ queue' = queue /\ playingNow' = playingNow /\ pc'[selector] = "idle"
    BY <1>4
  <2> HIDE DEF PoolInv, SubmitExecute, SpawnWith
  <2>10. QED
    BY <2>5, <2>6, <2>7, <2>8, <2>9 DEF InOrder
<1>11. QED
  BY <1>3, <1>5, <1>6, <1>7, <1>9, <1>10

(* Where a queue's tasks are after one more is put at its end.             *)
LEMMA AtTheEnd ==
    ASSUME NEW q \in Seq(Task), NEW k \in Task
    PROVE  /\ Append(q, k) \in Seq(Task)
           /\ \A i \in 1..Len(q) : i \in 1..Len(Append(q, k)) /\ Append(q, k)[i] = q[i]
           /\ \E n \in 1..Len(Append(q, k)) :
                 /\ Append(q, k)[n] = k
                 /\ n \notin 1..Len(q)
                 /\ \A i \in 1..Len(Append(q, k)) : i \in 1..Len(q) \/ i = n
<1>1. Len(Append(q, k)) = Len(q) + 1 /\ Len(q) \in Nat
  OBVIOUS
<1>2. Append(q, k)[Len(q) + 1] = k
  OBVIOUS
<1>3. \A i \in 1..Len(q) : Append(q, k)[i] = q[i]
  OBVIOUS
<1>4. \A i \in 1..Len(q) : i \in 1..Len(Append(q, k))
  BY <1>1
<1>5. /\ Len(q) + 1 \in 1..Len(Append(q, k)) /\ Len(q) + 1 \notin 1..Len(q)
      /\ \A i \in 1..Len(Append(q, k)) : i \in 1..Len(q) \/ i = Len(q) + 1
  BY <1>1
<1>6. QED
  BY <1>2, <1>3, <1>4, <1>5

LEMMA SubmitEnqueueKeeps ==
    ASSUME PoolInv, SubmitExecute, Enqueue(selector, task[selector])
    PROVE  PoolInv'
<1> USE DEF PoolInv, SubmitExecute, Enqueue, Exit
<1>1. PICK k \in Task : task[selector] = k
  BY TasksInHand
<1>2. k.act \in Act /\ queue \in Seq(Task) /\ queue' = Append(queue, k)
  BY <1>1, TasksInHand DEF TypeOK
<1>3. TypeOK'
  BY <1>1, <1>2, AtTheEnd DEF TypeOK, Label
<1>4. /\ \A v \in Worker : pc'[v] = pc[v] /\ task'[v] = task[v]
      /\ pc'[selector] = "idle" /\ task'[selector] = NoTask
  BY DEF TypeOK
<1>5. Places'
  BY <1>4, TasksInHand DEF TypeOK, Places
<1>6. MonitorsHeld'
  <2>1. \A v \in Worker : pc[v] \in InComplete => task[v].act # k.act
    BY <1>1 DEF MonitorsHeld
  <2>2. \A b \in Act : b # k.act => monitor'[b] = monitor[b]
    BY <1>1, <1>2 DEF TypeOK
  <2>3. QED
    BY <1>4, <2>1, <2>2, TasksInHand DEF MonitorsHeld
<1>7. /\ \A i \in 1..Len(queue) : i \in 1..Len(queue') /\ queue'[i] = queue[i]
      /\ \E n \in 1..Len(queue') :
            /\ queue'[n] = k /\ n \notin 1..Len(queue)
            /\ \A i \in 1..Len(queue') : i \in 1..Len(queue) \/ i = n
  BY <1>2, AtTheEnd
<1>8. OneInHand'
  <2>1. /\ \A v \in Worker : task[v].act # k.act
        /\ \A i \in 1..Len(queue) : queue[i].act # k.act
    BY <1>1 DEF OneInHand
  <2>2. \A i, j \in 1..Len(queue') : queue'[i].act = queue'[j].act => i = j
    BY <1>7, <2>1 DEF OneInHand
  <2>3. \A v \in Worker, i \in 1..Len(queue') : task'[v].act # queue'[i].act
    BY <1>4, <1>7, <2>1 DEF OneInHand
  <2>4. QED
    BY <1>4, <2>2, <2>3 DEF OneInHand
<1>9. \A b \in Act : InHand(b)' <=> InHand(b)
  <2>1. InHand(k.act) /\ InHand(k.act)'
    BY <1>1, <1>7 DEF InHand
  <2>2. ASSUME NEW b \in Act, b # k.act PROVE InHand(b)' <=> InHand(b)
    BY <1>1, <1>4, <1>7, <2>2 DEF InHand
  <2>3. QED
    BY <2>1, <2>2
<1>10. PlayingInHand'
  BY <1>4, <1>9 DEF PlayingInHand
<1>11. InOrder'
  <2>1. \A b \in Act : Given(b)' = Given(b)
    BY <1>4 DEF Given
  <2>2. \A j \in Task : Follow(j) => Follow(j)'
    BY <2>1, StillFollowed, TasksInHand
  <2>3. ToBegin(k)
    BY <1>1 DEF InOrder
  <2>4. \A j \in Task : ToBegin(j) => ToBegin(j)'
    BY <2>2, TasksInHand DEF ToBegin
  <2>5. \A i \in 1..Len(queue') : ToBegin(queue[i])'
    <3>1. ASSUME NEW i \in 1..Len(queue') PROVE ToBegin(queue[i])'
      <4>1. CASE queue'[i] = k
        BY <2>3, <2>4, <4>1 DEF ToBegin
      <4>2. CASE i \in 1..Len(queue)
        <5>1. queue'[i] = queue[i] /\ queue[i] \in Task /\ ToBegin(queue[i])
          BY <1>7, <4>2, TasksInHand DEF InOrder
        <5>2. QED
          BY <2>4, <5>1 DEF ToBegin
      <4>3. QED
        BY <1>7, <4>1, <4>2
    <3>2. QED
      BY <3>1
  <2>6. QED
    BY <1>4, <2>1, <2>2, <2>4, <2>5, TasksInHand DEF InOrder
<1>12. QED
  BY <1>3, <1>5, <1>6, <1>8, <1>10, <1>11

LEMMA SubmitExecuteKeeps ==
    ASSUME PoolInv, SubmitExecute
    PROVE  PoolInv'
<1>1. ~Reject(selector)
  BY DEF PoolInv, Places, SubmitExecute, Reject
<1>2. QED
  BY <1>1, SubmitSpawnKeeps, SubmitEnqueueKeeps DEF SubmitExecute, Execute

-----------------------------------------------------------------------------
(* A worker hands its act's next task to the executor.                     *)

(* A sequence without its first element.                                   *)
LEMMA TheRest ==
    ASSUME NEW S, NEW s \in Seq(S), s # <<>>
    PROVE  /\ Len(s) \in Nat /\ 1 \in 1..Len(s) /\ Head(s) = s[1] /\ s[1] \in S
           /\ Tail(s) \in Seq(S) /\ Len(Tail(s)) = Len(s) - 1 /\ Len(Tail(s)) \in Nat
           /\ \A i \in 1..Len(Tail(s)) : i + 1 \in 1..Len(s) /\ Tail(s)[i] = s[i + 1]
<1>1. Len(s) \in Nat /\ Len(s) > 0
  OBVIOUS
<1>2. Head(s) = s[1] /\ s[1] \in S
  BY <1>1
<1>3. Tail(s) \in Seq(S) /\ Len(Tail(s)) = Len(s) - 1
  OBVIOUS
<1>4. \A i \in 1..Len(Tail(s)) : i + 1 \in 1..Len(s)
  BY <1>1, <1>3
<1>5. \A i \in 1..Len(Tail(s)) : Tail(s)[i] = s[i + 1]
  BY <1>1, <1>3
<1>6. QED
  BY <1>1, <1>2, <1>3, <1>4, <1>5

(* Worker w completes act a and hands over k, the first pending task.      *)
HandsOver(w, a, k) ==
    /\ k = [act |-> task[w].act, number |-> Head(acts[task[w].act])]
    /\ task[w] \in Task /\ task[w].act = a /\ k.act = a /\ k.number \in Nat
    /\ a \in playingNow /\ ran[a] = k.number - 1
    /\ acts' = [acts EXCEPT ![a] = Tail(acts[a])]
    /\ acts'[a] \in Seq(1..MaxTasks) /\ Len(acts'[a]) \in Nat
    /\ \A i \in 1..Len(acts'[a]) : acts'[a][i] = k.number + i
    /\ k.number + Len(acts'[a]) = Given(a)

(* That task is the one after the task that ended.                         *)
LEMMA NextTask ==
    ASSUME PoolInv, NEW w \in Worker, CompleteExecute(w)
    PROVE  \E a \in Act, k \in Task : HandsOver(w, a, k)
<1> USE DEF PoolInv, CompleteExecute
<1>1. PICK a \in Act, n \in Nat : task[w] \in Task /\ task[w].act = a /\ task[w].number = n
  BY TasksInHand
<1>2. InHand(a) /\ a \in playingNow /\ acts[a] # <<>> /\ acts[a] \in Seq(1..MaxTasks)
  BY <1>1 DEF TypeOK, PlayingInHand, InHand
<1>3. /\ ran[a] = n /\ Follow(task[w])
      /\ \A i \in 1..Len(acts[a]) : acts[a][i] = n + i
      /\ n + Len(acts[a]) = Given(a)
  BY <1>1 DEF InOrder, Follow
<1>4. acts' = [acts EXCEPT ![a] = Tail(acts[a])] /\ acts'[a] = Tail(acts[a])
  BY <1>1 DEF TypeOK
<1> DEFINE rest == Tail(acts[a])
<1>5. /\ Len(acts[a]) \in Nat /\ 1 \in 1..Len(acts[a])
      /\ Head(acts[a]) = acts[a][1] /\ acts[a][1] \in 1..MaxTasks
      /\ rest \in Seq(1..MaxTasks) /\ Len(rest) = Len(acts[a]) - 1 /\ Len(rest) \in Nat
      /\ \A i \in 1..Len(rest) : i + 1 \in 1..Len(acts[a]) /\ rest[i] = acts[a][i + 1]
  BY <1>2, TheRest
<1>6. acts'[a] = rest
  BY <1>4
<1>7. PICK k : k = [act |-> a, number |-> Head(acts[a])]
  OBVIOUS
<1>8. k \in Task /\ k.act = a /\ k.number = n + 1 /\ k.number \in Nat
  BY <1>1, <1>3, <1>5, <1>7 DEF Task
<1> HIDE DEF PoolInv, CompleteExecute, rest
<1>9. \A i \in 1..Len(rest) : rest[i] = k.number + i
  <2>1. TAKE i \in 1..Len(rest)
  <2>2. acts[a][i + 1] = n + (i + 1) /\ rest[i] = acts[a][i + 1]
    BY <1>3, <1>5
  <2>3. i \in Nat
    BY <1>5
  <2>4. n + (i + 1) = k.number + i
    BY <1>1, <1>8, <2>3
  <2>5. QED
    BY <2>2, <2>4
<1>10. Len(rest) \in Nat /\ rest \in Seq(1..MaxTasks)
  BY <1>5
<1>11. k.number + Len(rest) = Given(a)
  <2>1. k.number + Len(rest) = n + Len(acts[a])
    <3>1. PICK m \in Nat : Len(acts[a]) = m /\ Len(rest) = m - 1
      BY <1>5
    <3>2. k.number = n + 1
      BY <1>8
    <3>3. (n + 1) + (m - 1) = n + m
      OBVIOUS
    <3>4. QED
      BY <3>1, <3>2, <3>3
  <2>2. QED
    BY <1>3, <2>1
<1>12. ran[a] = k.number - 1
  BY <1>1, <1>3, <1>8
<1>13. QED
  BY <1>1, <1>2, <1>4, <1>6, <1>7, <1>8, <1>9, <1>10, <1>11, <1>12 DEF HandsOver

(* What the steps of complete_execute have in common.                      *)
LEMMA HandedOver ==
    ASSUME PoolInv, NEW w \in Worker, CompleteExecute(w),
           NEW a \in Act, NEW k \in Task, HandsOver(w, a, k),
           pc'[selector] = pc[selector], task'[selector] = task[selector]
    PROVE  /\ \A b \in Act : Given(b)' = Given(b)
           /\ \A b \in Act : b # a => acts'[b] = acts[b] /\ monitor'[b] = monitor[b]
           /\ \A j \in Task : j.act # a /\ Follow(j) => Follow(j)'
           /\ \A j \in Task : j.act # a /\ ToBegin(j) => ToBegin(j)'
           /\ ToBegin(k)'
           /\ \A v \in Worker : v # w => task[v].act # a
           /\ \A i \in 1..Len(queue) : queue[i].act # a
           /\ pc[selector] \in InSubmit => task[selector].act # a
<1> USE DEF PoolInv, CompleteExecute, Exit, HandsOver
<1>1. \A b \in Act : Given(b)' = Given(b)
  BY DEF Given
<1>2. \A b \in Act : b # a => acts'[b] = acts[b] /\ monitor'[b] = monitor[b]
  BY DEF TypeOK
<1>3. \A j \in Task : j.act # a /\ Follow(j) => Follow(j)'
  BY <1>1, <1>2, StillFollowed, TasksInHand
<1>4. \A j \in Task : j.act # a /\ ToBegin(j) => ToBegin(j)'
  BY <1>3 DEF ToBegin
<1>5. ToBegin(k)'
  BY <1>1 DEF ToBegin, Follow
<1>6. \A v \in Worker : v # w => task[v].act # a
  BY DEF OneInHand
<1>7. \A i \in 1..Len(queue) : queue[i].act # a
  BY DEF OneInHand
<1>8. pc[selector] \in InSubmit => task[selector].act # a
  BY DEF MonitorsHeld
<1>9. QED
  BY <1>1, <1>2, <1>3, <1>4, <1>5, <1>6, <1>7, <1>8

LEMMA CompleteSpawnKeeps ==
    ASSUME PoolInv, NEW w \in Worker, CompleteExecute(w), NEW v \in Worker,
           SpawnWith(w, v, [act |-> task[w].act, number |-> Head(acts[task[w].act])])
    PROVE  PoolInv'
<1>1. PICK a \in Act, k \in Task : HandsOver(w, a, k)
  BY NextTask
<1> USE DEF PoolInv, CompleteExecute, HandsOver, SpawnWith, Exit
<1>2. pc[v] = "idle" /\ v # w
  BY DEF Places
<1>3. /\ pc'[v] = "start" /\ task'[v] = k
      /\ pc'[w] = "idle" /\ task'[w] = NoTask
      /\ \A u \in Worker : u # v /\ u # w => pc'[u] = pc[u] /\ task'[u] = task[u]
      /\ pc'[selector] = pc[selector] /\ task'[selector] = task[selector]
  BY <1>1, <1>2 DEF TypeOK
<1>4. TypeOK'
  <2>1. acts' \in [Act -> Seq(1..MaxTasks)]
    BY <1>1 DEF TypeOK
  <2>2. monitor' \in [Act -> Thread \cup {None}]
    BY <1>1 DEF TypeOK
  <2>3. pc' \in [Thread -> Label] /\ task' \in [Thread -> Task \cup {NoTask}]
    BY <1>1 DEF TypeOK, Label
  <2>4. QED
    BY ZenonT(60), <2>1, <2>2, <2>3 DEF TypeOK
<1>5. Places'
  BY SMTT(30), <1>3, TasksInHand DEF TypeOK, Places
<1>6. /\ \A b \in Act : Given(b)' = Given(b)
      /\ \A b \in Act : b # a => acts'[b] = acts[b] /\ monitor'[b] = monitor[b]
      /\ \A j \in Task : j.act # a /\ Follow(j) => Follow(j)'
      /\ \A j \in Task : j.act # a /\ ToBegin(j) => ToBegin(j)'
      /\ ToBegin(k)'
      /\ \A u \in Worker : u # w => task[u].act # a
      /\ \A i \in 1..Len(queue) : queue[i].act # a
      /\ pc[selector] \in InSubmit => task[selector].act # a
  <2> HIDE DEF PoolInv, CompleteExecute, HandsOver, SpawnWith
  <2>1. QED
    BY <1>1, <1>3, HandedOver
<1> HIDE DEF SpawnWith
<1>7. MonitorsHeld'
  <2>1. ASSUME NEW u \in Worker, pc'[u] \in InComplete PROVE monitor'[task'[u].act] = u
    BY <1>2, <1>3, <1>6, <2>1, TasksInHand DEF MonitorsHeld
  <2>2. pc'[selector] \in InSubmit => monitor'[task'[selector].act] = selector
    BY <1>3, <1>6, TasksInHand DEF MonitorsHeld
  <2>3. QED
    BY <2>1, <2>2 DEF MonitorsHeld
<1>8. queue' = queue
  BY DEF SpawnWith
<1>9. OneInHand'
  <2>1. ASSUME NEW u \in Worker, NEW t \in Worker, pc'[t] # "idle", task'[u].act = task'[t].act
        PROVE  u = t
    <3>1. u # w
      BY <1>1, <1>2, <1>3, <2>1, TasksInHand
    <3>2. CASE u = v \/ t = v
      BY <1>1, <1>3, <1>6, <2>1, <3>1, <3>2
    <3>3. CASE u # v /\ t # v
      BY <1>3, <2>1, <3>1, <3>3 DEF OneInHand
    <3>4. QED
      BY <3>2, <3>3
  <2>2. ASSUME NEW u \in Worker, NEW i \in 1..Len(queue) PROVE task'[u].act # queue[i].act
    <3>1. CASE u = v
      BY <1>1, <1>3, <1>6, <3>1
    <3>2. CASE u = w
      BY <1>3, <3>2, TasksInHand
    <3>3. CASE u # v /\ u # w
      <4>1. task[u].act # queue[i].act
        BY DEF OneInHand
      <4>2. QED
        BY <1>3, <3>3, <4>1
    <3>4. QED
      BY <3>1, <3>2, <3>3
  <2>3. ASSUME NEW u \in Worker, pc[selector] = "submit_execute"
        PROVE  task'[u].act # task[selector].act
    <3>1. CASE u = v
      BY <1>1, <1>3, <1>6, <2>3, <3>1
    <3>2. CASE u = w
      BY <1>3, <2>3, <3>2, TasksInHand
    <3>3. CASE u # v /\ u # w
      <4>1. task[u].act # task[selector].act
        BY <2>3 DEF OneInHand
      <4>2. QED
        BY <1>3, <3>3, <4>1
    <3>4. QED
      BY <3>1, <3>2, <3>3
  <2>4. \A i, j \in 1..Len(queue) : queue[i].act = queue[j].act => i = j
    BY DEF OneInHand
  <2>5. pc[selector] = "submit_execute" =>
           \A i \in 1..Len(queue) : queue[i].act # task[selector].act
    BY DEF OneInHand
  <2> HIDE DEF PoolInv, CompleteExecute
  <2>6. QED
    BY <1>3, <1>8, <2>1, <2>2, <2>3, <2>4, <2>5 DEF OneInHand
<1>10. \A b \in Act : InHand(b)' <=> InHand(b)
  <2>1. InHand(a) /\ InHand(a)'
    BY <1>1, <1>3 DEF InHand
  <2>2. ASSUME NEW b \in Act, b # a, InHand(b) PROVE InHand(b)'
    BY <1>1, <1>2, <1>3, <1>8, <2>2 DEF InHand
  <2>3. ASSUME NEW b \in Act, b # a, InHand(b)' PROVE InHand(b)
    BY <1>1, <1>2, <1>3, <1>8, <2>3 DEF InHand
  <2>4. QED
    BY <2>1, <2>2, <2>3
<1>11. PlayingInHand'
  <2>1. \A b \in Act : acts'[b] # <<>> => b \in playingNow
    BY <1>1, <1>6 DEF PlayingInHand
  <2>2. \A u \in Worker : pc'[u] \in InComplete =>
           pc'[u] = pc[u] /\ task'[u] = task[u] /\ acts'[task[u].act] = acts[task[u].act]
    BY <1>3, <1>6, TasksInHand
  <2>3. \A b \in Act : /\ InHand(b) => b \in playingNow
                       /\ open /\ b \in playingNow => InHand(b)
    BY DEF PlayingInHand
  <2>4. /\ playingNow' = playingNow /\ (open' <=> open)
        /\ pc'[selector] = pc[selector] /\ task'[selector] = task[selector]
    BY <1>3
  <2>5. \A b \in Act : acts'[b] # <<>> => b \in playingNow'
    BY <2>1, <2>4
  <2>6. /\ pc'[selector] = "submit_first" => task'[selector].act \notin playingNow'
        /\ pc'[selector] = "submit_pending" => task'[selector].act \in playingNow'
    BY <2>4 DEF PlayingInHand
  <2>7. \A u \in Worker : /\ pc'[u] = "complete_remove" => acts'[task'[u].act] = <<>>
                          /\ pc'[u] = "complete_execute" => acts'[task'[u].act] # <<>>
    <3>1. \A u \in Worker : /\ pc[u] = "complete_remove" => acts[task[u].act] = <<>>
                            /\ pc[u] = "complete_execute" => acts[task[u].act] # <<>>
      BY DEF PlayingInHand
    <3>2. TAKE u \in Worker
    <3>3. CASE pc'[u] \in InComplete
      <4>1. pc'[u] = pc[u] /\ task'[u] = task[u] /\ acts'[task[u].act] = acts[task[u].act]
        BY <2>2, <3>3
      <4> HIDE DEF PoolInv, CompleteExecute
      <4>2. QED
        BY <3>1, <4>1
    <3>4. CASE pc'[u] \notin InComplete
      BY <3>4
    <3>5. QED
      BY SMTT(30), <3>3, <3>4
  <2> HIDE DEF PoolInv, CompleteExecute
  <2>8. \A b \in Act : InHand(b)' => b \in playingNow'
    BY <1>10, <2>3, <2>4
  <2>9. \A b \in Act : open' /\ b \in playingNow' => InHand(b)'
    BY <1>10, <2>3, <2>4
  <2>10. QED
    BY <2>5, <2>6, <2>7, <2>8, <2>9 DEF PlayingInHand
<1>12. InOrder'
  <2>1. ASSUME NEW u \in Worker, pc'[u] = "start" PROVE ToBegin(task[u])'
    <3>1. CASE u = v
      BY <1>3, <1>6, <3>1 DEF ToBegin
    <3>2. CASE u # v
      <4>1. u # w /\ pc[u] = "start" /\ task'[u] = task[u] /\ task[u] \in Task
        BY <1>3, <2>1, <3>2, TasksInHand
      <4>2. ToBegin(task[u]) /\ task[u].act # a
        BY <1>6, <4>1 DEF InOrder
      <4>3. QED
        BY <1>6, <4>1, <4>2 DEF ToBegin
    <3>3. QED
      BY <3>1, <3>2
  <2>2. ASSUME NEW u \in Worker, pc'[u] \in HasBegun
        PROVE  ran[task'[u].act] = task'[u].number /\ Follow(task[u])'
    <3>1. u # w /\ pc'[u] = pc[u] /\ task'[u] = task[u] /\ task[u] \in Task
      BY <1>3, <2>2, TasksInHand
    <3>2. Follow(task[u]) /\ task[u].act # a /\ ran[task[u].act] = task[u].number
      BY <1>6, <2>2, <3>1 DEF InOrder
    <3>3. QED
      BY <1>6, <3>1, <3>2
  <2>3. \A i \in 1..Len(queue) : ToBegin(queue[i])'
    BY <1>6, <1>8, TasksInHand DEF InOrder, ToBegin
  <2>4. pc[selector] = "submit_execute" => ToBegin(task[selector])'
    BY <1>3, <1>6, TasksInHand DEF InOrder, ToBegin
  <2>5. QED
    BY <1>3, <1>6, <1>8, <2>1, <2>2, <2>3, <2>4 DEF InOrder
<1>13. QED
  BY <1>4, <1>5, <1>7, <1>9, <1>11, <1>12

LEMMA CompleteEnqueueKeeps ==
    ASSUME PoolInv, NEW w \in Worker, CompleteExecute(w),
           Enqueue(w, [act |-> task[w].act, number |-> Head(acts[task[w].act])])
    PROVE  PoolInv'
<1>1. PICK a \in Act, k \in Task : HandsOver(w, a, k)
  BY NextTask
<1> USE DEF PoolInv, CompleteExecute, HandsOver, Enqueue, Exit
<1>2. queue \in Seq(Task) /\ queue' = Append(queue, k)
  BY <1>1 DEF TypeOK
<1>3. /\ pc'[w] = "idle" /\ task'[w] = NoTask
      /\ \A u \in Worker : u # w => pc'[u] = pc[u] /\ task'[u] = task[u]
      /\ pc'[selector] = pc[selector] /\ task'[selector] = task[selector]
  BY <1>1 DEF TypeOK
<1>4. TypeOK'
  <2>1. acts' \in [Act -> Seq(1..MaxTasks)]
    BY <1>1 DEF TypeOK
  <2>2. monitor' \in [Act -> Thread \cup {None}]
    BY <1>1 DEF TypeOK
  <2>3. pc' \in [Thread -> Label] /\ task' \in [Thread -> Task \cup {NoTask}]
    BY <1>1 DEF TypeOK, Label
  <2>4. queue' \in Seq(Task)
    BY <1>2, AtTheEnd
  <2>5. QED
    BY <2>1, <2>2, <2>3, <2>4 DEF TypeOK
<1>5. Places'
  BY <1>3, TasksInHand DEF TypeOK, Places
<1>6. /\ \A b \in Act : Given(b)' = Given(b)
      /\ \A b \in Act : b # a => acts'[b] = acts[b] /\ monitor'[b] = monitor[b]
      /\ \A j \in Task : j.act # a /\ Follow(j) => Follow(j)'
      /\ \A j \in Task : j.act # a /\ ToBegin(j) => ToBegin(j)'
      /\ ToBegin(k)'
      /\ \A u \in Worker : u # w => task[u].act # a
      /\ \A i \in 1..Len(queue) : queue[i].act # a
      /\ pc[selector] \in InSubmit => task[selector].act # a
  <2> HIDE DEF PoolInv, CompleteExecute, HandsOver, Enqueue
  <2>1. QED
    BY <1>1, <1>3, HandedOver
<1>7. PICK n \in 1..Len(queue') :
         /\ queue'[n] = k /\ n \notin 1..Len(queue)
         /\ \A i \in 1..Len(queue') : i \in 1..Len(queue) \/ i = n
         /\ \A i \in 1..Len(queue) : i \in 1..Len(queue') /\ queue'[i] = queue[i]
  BY <1>2, AtTheEnd
<1> HIDE DEF Enqueue
<1>8. MonitorsHeld'
  <2>1. ASSUME NEW u \in Worker, pc'[u] \in InComplete PROVE monitor'[task'[u].act] = u
    BY <1>3, <1>6, <2>1, TasksInHand DEF MonitorsHeld
  <2>2. pc'[selector] \in InSubmit => monitor'[task'[selector].act] = selector
    BY <1>3, <1>6, TasksInHand DEF MonitorsHeld
  <2>3. QED
    BY <2>1, <2>2 DEF MonitorsHeld
<1>9. OneInHand'
  <2>1. \A u \in Worker : task'[u].act # a
    BY SMTT(30), <1>1, <1>3, <1>6, TasksInHand
  <2>2. ASSUME NEW u \in Worker, NEW t \in Worker, pc'[t] # "idle", task'[u].act = task'[t].act
        PROVE  u = t
    <3>1. t # w /\ pc[t] # "idle" /\ task'[t] = task[t] /\ task[t] \in Task
      BY <1>3, <2>2, TasksInHand
    <3>2. u # w
      BY <1>3, <2>2, <3>1, TasksInHand
    <3>3. QED
      BY <1>3, <2>2, <3>1, <3>2 DEF OneInHand
  <2>3. ASSUME NEW u \in Worker, NEW i \in 1..Len(queue) PROVE task'[u].act # queue[i].act
    <3>1. CASE u = w
      BY <1>3, <3>1, TasksInHand
    <3>2. CASE u # w
      <4>1. task[u].act # queue[i].act
        BY DEF OneInHand
      <4>2. QED
        BY <1>3, <3>2, <4>1
    <3>3. QED
      BY <3>1, <3>2
  <2>4. \A u \in Worker, i \in 1..Len(queue') : task'[u].act # queue'[i].act
    <3>1. ASSUME NEW u \in Worker, NEW i \in 1..Len(queue') PROVE task'[u].act # queue'[i].act
      <4>1. CASE i = n
        BY <1>1, <1>7, <2>1, <4>1
      <4>2. CASE i \in 1..Len(queue)
        BY <1>7, <2>3, <4>2
      <4>3. QED
        BY <1>7, <4>1, <4>2
    <3>2. QED
      BY <3>1
  <2>5. \A i, j \in 1..Len(queue) : queue[i].act = queue[j].act => i = j
    BY DEF OneInHand
  <2>6. \A i, j \in 1..Len(queue') : queue'[i].act = queue'[j].act => i = j
    <3>1. \A i \in 1..Len(queue) : queue'[i].act # a
      BY <1>6, <1>7
    <3>2. queue'[n].act = a
      BY <1>1, <1>7
    <3>3. \A i, j \in 1..Len(queue) : queue'[i].act = queue'[j].act => i = j
      BY <1>7, <2>5
    <3>4. QED
      BY <1>7, <3>1, <3>2, <3>3
  <2>7. ASSUME pc[selector] = "submit_execute"
        PROVE  /\ \A u \in Worker : task'[u].act # task[selector].act
               /\ \A i \in 1..Len(queue') : queue'[i].act # task[selector].act
    <3>1. task[selector].act # a /\ task[selector].act # NoTask.act
      BY <1>6, <2>7, TasksInHand
    <3>2. /\ \A u \in Worker : task[u].act # task[selector].act
          /\ \A i \in 1..Len(queue) : queue[i].act # task[selector].act
      BY <2>7 DEF OneInHand
    <3>3. \A u \in Worker : task'[u].act # task[selector].act
      BY <1>3, <3>1, <3>2
    <3>4. ASSUME NEW i \in 1..Len(queue') PROVE queue'[i].act # task[selector].act
      <4>1. CASE i = n
        BY <1>1, <1>7, <3>1, <4>1
      <4>2. CASE i \in 1..Len(queue)
        BY <1>7, <3>2, <4>2
      <4>3. QED
        BY <1>7, <4>1, <4>2
    <3>5. QED
      BY <3>3, <3>4
  <2> HIDE DEF PoolInv, CompleteExecute
  <2>8. QED
    BY <1>3, <2>2, <2>4, <2>6, <2>7 DEF OneInHand
<1>10. \A b \in Act : InHand(b)' <=> InHand(b)
  <2>1. InHand(a) /\ InHand(a)'
    BY <1>1, <1>7 DEF InHand
  <2>2. ASSUME NEW b \in Act, b # a, InHand(b) PROVE InHand(b)'
    <3>1. CASE \E u \in Worker : ~At(u, "idle") /\ task[u].act = b
      BY <1>1, <1>3, <2>2, <3>1 DEF InHand
    <3>2. CASE \E i \in 1..Len(queue) : queue[i].act = b
      BY <1>7, <3>2 DEF InHand
    <3>3. CASE At(selector, "submit_execute") /\ task[selector].act = b
      BY <1>3, <3>3 DEF InHand
    <3>4. QED
      BY <2>2, <3>1, <3>2, <3>3 DEF InHand
  <2>3. ASSUME NEW b \in Act, b # a, InHand(b)' PROVE InHand(b)
    <3>1. CASE \E u \in Worker : pc'[u] # "idle" /\ task'[u].act = b
      BY <1>3, <3>1 DEF InHand
    <3>2. CASE \E i \in 1..Len(queue') : queue'[i].act = b
      <4>1. PICK i \in 1..Len(queue') : queue'[i].act = b
        BY <3>2
      <4>2. i \in 1..Len(queue) /\ queue[i].act = b
        BY <1>1, <1>7, <2>3, <4>1
      <4>3. QED
        BY <4>2 DEF InHand
    <3>3. CASE pc'[selector] = "submit_execute" /\ task'[selector].act = b
      BY <1>3, <3>3 DEF InHand
    <3>4. QED
      BY <2>3, <3>1, <3>2, <3>3 DEF InHand
  <2>4. QED
    BY <2>1, <2>2, <2>3
<1>11. PlayingInHand'
  <2>1. \A b \in Act : acts'[b] # <<>> => b \in playingNow
    BY <1>1, <1>6 DEF PlayingInHand
  <2>2. \A u \in Worker : pc'[u] \in InComplete =>
           pc'[u] = pc[u] /\ task'[u] = task[u] /\ acts'[task[u].act] = acts[task[u].act]
    BY <1>3, <1>6, TasksInHand
  <2>3. \A b \in Act : /\ InHand(b) => b \in playingNow
                       /\ open /\ b \in playingNow => InHand(b)
    BY DEF PlayingInHand
  <2>4. /\ playingNow' = playingNow /\ (open' <=> open)
        /\ pc'[selector] = pc[selector] /\ task'[selector] = task[selector]
    BY <1>3
  <2>5. \A b \in Act : acts'[b] # <<>> => b \in playingNow'
    BY <2>1, <2>4
  <2>6. /\ pc'[selector] = "submit_first" => task'[selector].act \notin playingNow'
        /\ pc'[selector] = "submit_pending" => task'[selector].act \in playingNow'
    BY <2>4 DEF PlayingInHand
  <2>7. \A u \in Worker : /\ pc'[u] = "complete_remove" => acts'[task'[u].act] = <<>>
                          /\ pc'[u] = "complete_execute" => acts'[task'[u].act] # <<>>
    <3>1. \A u \in Worker : /\ pc[u] = "complete_remove" => acts[task[u].act] = <<>>
                            /\ pc[u] = "complete_execute" => acts[task[u].act] # <<>>
      BY DEF PlayingInHand
    <3>2. TAKE u \in Worker
    <3>3. CASE pc'[u] \in InComplete
      <4>1. pc'[u] = pc[u] /\ task'[u] = task[u] /\ acts'[task[u].act] = acts[task[u].act]
        BY <2>2, <3>3
      <4> HIDE DEF PoolInv, CompleteExecute
      <4>2. QED
        BY <3>1, <4>1
    <3>4. CASE pc'[u] \notin InComplete
      BY <3>4
    <3>5. QED
      BY <3>3, <3>4
  <2> HIDE DEF PoolInv, CompleteExecute
  <2>8. \A b \in Act : InHand(b)' => b \in playingNow'
    BY <1>10, <2>3, <2>4
  <2>9. \A b \in Act : open' /\ b \in playingNow' => InHand(b)'
    BY <1>10, <2>3, <2>4
  <2>10. QED
    BY <2>5, <2>6, <2>7, <2>8, <2>9 DEF PlayingInHand
<1>12. InOrder'
  <2>1. ASSUME NEW u \in Worker, pc'[u] # "idle"
        PROVE  /\ pc[u] = "start" => ToBegin(task[u])'
               /\ pc[u] \in HasBegun =>
                     ran[task[u].act] = task[u].number /\ Follow(task[u])'
    <3>1. u # w /\ pc'[u] = pc[u] /\ task'[u] = task[u] /\ task[u] \in Task /\ task[u].act # a
      BY <1>3, <1>6, <2>1, TasksInHand
    <3>2. CASE pc[u] = "start"
      <4>1. ToBegin(task[u])
        BY <3>2 DEF InOrder
      <4>2. QED
        BY <1>6, <3>1, <3>2, <4>1 DEF ToBegin
    <3>3. CASE pc[u] \in HasBegun
      <4>1. Follow(task[u]) /\ ran[task[u].act] = task[u].number
        BY <3>3 DEF InOrder
      <4>2. QED
        BY <1>6, <3>1, <3>3, <4>1
    <3>4. QED
      BY <3>2, <3>3
  <2>2. \A u \in Worker : pc'[u] # "idle" => pc'[u] = pc[u] /\ task'[u] = task[u]
    BY <1>3
  <2>3. ASSUME NEW i \in 1..Len(queue') PROVE ToBegin(queue[i])'
    <3>1. CASE queue'[i] = k
      BY <1>6, <3>1 DEF ToBegin
    <3>2. CASE i \in 1..Len(queue)
      <4>1. queue'[i] = queue[i] /\ queue[i] \in Task /\ ToBegin(queue[i]) /\ queue[i].act # a
        BY <1>6, <1>7, <3>2, TasksInHand DEF InOrder
      <4>2. QED
        BY <1>6, <4>1 DEF ToBegin
    <3>3. QED
      BY <1>7, <3>1, <3>2
  <2>4. pc[selector] = "submit_execute" => ToBegin(task[selector])'
    BY <1>3, <1>6, TasksInHand DEF InOrder, ToBegin
  <2>5. \A b \in Act \ playingNow : ran[b] = Given(b)'
    BY <1>6 DEF InOrder
  <2>6. pc[selector] \in BeforeHandOver =>
           task[selector].number = submitted[task[selector].act]
    BY DEF InOrder
  <2>7. ran' = ran /\ playingNow' = playingNow /\ submitted' = submitted
    OBVIOUS
  <2> HIDE DEF PoolInv, CompleteExecute
  <2>8. QED
    BY <1>3, <2>1, <2>2, <2>3, <2>4, <2>5, <2>6, <2>7 DEF InOrder
<1>13. QED
  BY <1>4, <1>5, <1>8, <1>9, <1>11, <1>12

(* The pool has been shut down: the executor throws, the act stays in      *)
(* playingNow, and its tasks will not run.                                 *)
LEMMA CompleteRejectKeeps ==
    ASSUME PoolInv, NEW w \in Worker, CompleteExecute(w), Reject(w)
    PROVE  PoolInv'
<1>1. PICK a \in Act, k \in Task : HandsOver(w, a, k)
  BY NextTask
<1> USE DEF PoolInv, CompleteExecute, HandsOver, Reject, Exit
<1>2. queue = <<>> /\ ~open
  BY DEF Places
<1>3. /\ pc'[w] = "idle" /\ task'[w] = NoTask
      /\ \A u \in Worker : u # w => pc'[u] = pc[u] /\ task'[u] = task[u]
      /\ pc'[selector] = pc[selector] /\ task'[selector] = task[selector]
  BY <1>1 DEF TypeOK
<1>4. TypeOK'
  <2>1. acts' \in [Act -> Seq(1..MaxTasks)]
    BY <1>1 DEF TypeOK
  <2>2. monitor' \in [Act -> Thread \cup {None}]
    BY <1>1 DEF TypeOK
  <2>3. pc' \in [Thread -> Label] /\ task' \in [Thread -> Task \cup {NoTask}]
    BY <1>1 DEF TypeOK, Label
  <2>4. QED
    BY <2>1, <2>2, <2>3 DEF TypeOK
<1>5. Places'
  BY <1>3, TasksInHand DEF TypeOK, Places
<1>6. /\ \A b \in Act : Given(b)' = Given(b)
      /\ \A b \in Act : b # a => acts'[b] = acts[b] /\ monitor'[b] = monitor[b]
      /\ \A j \in Task : j.act # a /\ Follow(j) => Follow(j)'
      /\ \A j \in Task : j.act # a /\ ToBegin(j) => ToBegin(j)'
      /\ \A u \in Worker : u # w => task[u].act # a
  <2> HIDE DEF PoolInv, CompleteExecute, HandsOver, Reject
  <2>1. QED
    BY <1>1, <1>3, HandedOver
<1>7. /\ pc[selector] = "stopped" /\ pc'[selector] = "stopped"
      /\ open' = FALSE /\ queue' = <<>> /\ Len(queue') = 0
  BY <1>2, <1>3 DEF Places
<1>8. MonitorsHeld'
  <2>1. ASSUME NEW u \in Worker, pc'[u] \in InComplete PROVE monitor'[task'[u].act] = u
    BY <1>3, <1>6, <2>1, TasksInHand DEF MonitorsHeld
  <2>2. QED
    BY <1>7, <2>1 DEF MonitorsHeld
<1>9. OneInHand'
  <2>1. ASSUME NEW u \in Worker, NEW t \in Worker, pc'[t] # "idle", task'[u].act = task'[t].act
        PROVE  u = t
    <3>1. t # w /\ pc[t] # "idle" /\ task'[t] = task[t] /\ task[t] \in Task
      BY <1>3, <2>1, TasksInHand
    <3>2. u # w
      BY <1>3, <2>1, <3>1, TasksInHand
    <3>3. QED
      BY <1>3, <2>1, <3>1, <3>2 DEF OneInHand
  <2>2. QED
    BY <1>7, <2>1 DEF OneInHand
<1>10. PlayingInHand'
  <2>1. \A b \in Act : InHand(b)' => InHand(b)
    BY <1>3, <1>7, TasksInHand DEF InHand
  <2>2. \A b \in Act : InHand(b) => b \in playingNow
    BY DEF PlayingInHand
  <2>3. \A b \in Act : acts'[b] # <<>> => b \in playingNow
    BY <1>1, <1>6 DEF PlayingInHand
  <2>4. \A u \in Worker : pc'[u] \in InComplete =>
           pc'[u] = pc[u] /\ task'[u] = task[u] /\ acts'[task[u].act] = acts[task[u].act]
    BY <1>3, <1>6, TasksInHand
  <2>5. \A u \in Worker : /\ pc[u] = "complete_remove" => acts[task[u].act] = <<>>
                          /\ pc[u] = "complete_execute" => acts[task[u].act] # <<>>
    BY DEF PlayingInHand
  <2>6. ASSUME NEW u \in Worker
        PROVE  /\ pc'[u] = "complete_remove" => acts'[task'[u].act] = <<>>
               /\ pc'[u] = "complete_execute" => acts'[task'[u].act] # <<>>
    <3>1. CASE pc'[u] \in InComplete
      <4>1. pc'[u] = pc[u] /\ task'[u] = task[u] /\ acts'[task[u].act] = acts[task[u].act]
        BY <2>4, <3>1
      <4> HIDE DEF PoolInv, CompleteExecute, Reject
      <4>2. QED
        BY <2>5, <4>1
    <3>2. CASE pc'[u] \notin InComplete
      BY <3>2
    <3>3. QED
      BY <3>1, <3>2
  <2>7. playingNow' = playingNow
    OBVIOUS
  <2> HIDE DEF PoolInv, CompleteExecute, Reject
  <2>8. QED
    BY <1>7, <2>1, <2>2, <2>3, <2>6, <2>7 DEF PlayingInHand
<1>11. InOrder'
  <2>1. ASSUME NEW u \in Worker, pc'[u] # "idle"
        PROVE  /\ pc[u] = "start" => ToBegin(task[u])'
               /\ pc[u] \in HasBegun =>
                     ran[task[u].act] = task[u].number /\ Follow(task[u])'
    <3>1. u # w /\ pc'[u] = pc[u] /\ task'[u] = task[u] /\ task[u] \in Task /\ task[u].act # a
      BY <1>3, <1>6, <2>1, TasksInHand
    <3>2. CASE pc[u] = "start"
      <4>1. ToBegin(task[u])
        BY <3>2 DEF InOrder
      <4>2. QED
        BY <1>6, <3>1, <3>2, <4>1 DEF ToBegin
    <3>3. CASE pc[u] \in HasBegun
      <4>1. Follow(task[u]) /\ ran[task[u].act] = task[u].number
        BY <3>3 DEF InOrder
      <4>2. QED
        BY <1>6, <3>1, <3>3, <4>1
    <3>4. QED
      BY <3>2, <3>3
  <2>2. \A u \in Worker : pc'[u] # "idle" => pc'[u] = pc[u] /\ task'[u] = task[u]
    BY <1>3
  <2>3. \A b \in Act \ playingNow : ran[b] = Given(b)'
    BY <1>6 DEF InOrder
  <2>4. ran' = ran /\ playingNow' = playingNow
    OBVIOUS
  <2> HIDE DEF PoolInv, CompleteExecute, Reject
  <2>5. QED
    BY <1>7, <2>1, <2>2, <2>3, <2>4 DEF InOrder
<1>12. QED
  BY <1>4, <1>5, <1>8, <1>9, <1>10, <1>11

LEMMA CompleteExecuteKeeps ==
    ASSUME PoolInv, NEW w \in Worker, CompleteExecute(w)
    PROVE  PoolInv'
  BY CompleteSpawnKeeps, CompleteEnqueueKeeps, CompleteRejectKeeps DEF CompleteExecute, Execute

-----------------------------------------------------------------------------
LEMMA PoolStep == PoolInv /\ [Next]_vars => PoolInv'
<1>1. CASE UNCHANGED vars
  BY <1>1 DEF vars, PoolInv, TypeOK, Places, MonitorsHeld, OneInHand, PlayingInHand, InHand,
     InOrder, ToBegin, Follow, Given
<1>2. ASSUME PoolInv, Next PROVE PoolInv'
  <2>1. CASE \E a \in Act : Submit(a)
    BY <1>2, <2>1, SubmitKeeps
  <2>2. CASE Shutdown
    BY <1>2, <2>2, ShutdownKeeps
  <2>3. CASE SelectorStep
    BY <1>2, <2>3, SubmitEnterKeeps, SubmitCheckKeeps, SubmitFirstKeeps, SubmitExecuteKeeps,
       SubmitPendingKeeps DEF SelectorStep
  <2>4. CASE \E w \in Worker : WorkerStep(w)
    BY <1>2, <2>4, TakeKeeps, RunKeeps, FinishKeeps, CompleteEnterKeeps, CompleteCheckKeeps,
       CompleteRemoveKeeps, CompleteExecuteKeeps DEF WorkerStep
  <2>5. QED
    BY <1>2, <2>1, <2>2, <2>3, <2>4 DEF Next
<1>3. QED
  BY <1>1, <1>2

LEMMA PoolInvariant == Spec => []PoolInv
  BY PoolInit, PoolStep, PTL DEF Spec

(* The pool's state is well typed, whatever is submitted and whenever it   *)
(* is shut down.                                                           *)
THEOREM PoolTypes == Spec => []TypeOK
<1>1. PoolInv => TypeOK
  BY DEF PoolInv
<1>2. QED
  BY <1>1, PoolInvariant, PTL

(* While tasks of an act wait and the pool is open, somebody still has to  *)
(* complete the act: the test in submit (ActorThreadPool.java:30) and the  *)
(* one in complete (70) never both miss the other's change.                *)
THEOREM NothingStranded == Spec => []NoneStranded
<1>1. PoolInv => NoneStranded
  BY DEF PoolInv, PlayingInHand, NoneStranded
<1>2. QED
  BY <1>1, PoolInvariant, PTL

-----------------------------------------------------------------------------
(* The refinement of ActorQueue.                                           *)

(* A step in which no task begins or ends to run.                          *)
LEMMA RunningSame ==
    ASSUME \A w \in Worker : pc'[w] = "running" <=> pc[w] = "running",
           \A w \in Worker : pc[w] = "running" => task'[w] = task[w]
    PROVE  Running' = Running
  BY DEF Running

LEMMA SubmitRefines ==
    ASSUME PoolInv, NEW a \in Act, Submit(a)
    PROVE  Queues!Submit(a)
<1>1. Running' = Running
  BY RunningSame DEF PoolInv, TypeOK, Submit
<1>2. QED
  BY <1>1 DEF PoolInv, TypeOK, Submit, Queues!Submit

(* Run begins the act's next task, and no other of its tasks is running.   *)
LEMMA RunRefines ==
    ASSUME PoolInv, NEW w \in Worker, Run(w)
    PROVE  \E a \in Act : Queues!Start(a)
<1>1. PICK a \in Act, n \in Nat : task[w] \in Task /\ task[w].act = a /\ task[w].number = n
  BY TasksInHand DEF PoolInv, Run
<1>2. ran[a] = n - 1 /\ n + Len(acts[a]) = Given(a)
  BY <1>1 DEF PoolInv, Run, InOrder, ToBegin, Follow
<1>3. ran[a] < submitted[a]
  <2>1. PICK s \in Nat : submitted[a] = s
    BY DEF PoolInv, TypeOK
  <2>2. Given(a) \in {s, s - 1}
    BY <2>1 DEF Given
  <2>3. PICK m \in Nat : Len(acts[a]) = m
    BY DEF PoolInv, TypeOK
  <2>4. n + m \in {s, s - 1}
    BY <1>2, <2>2, <2>3
  <2>5. QED
    BY <1>2, <2>1, <2>4
<1>4. ran' = [ran EXCEPT ![a] = ran[a] + 1]
  BY <1>1, <1>2 DEF Run
<1>5. a \notin Running
  BY <1>1 DEF PoolInv, OneInHand, Run, Running
<1>6. Running' = Running \cup {a}
  <2>1. pc'[w] = "running" /\ \A v \in Worker : v # w => pc'[v] = pc[v]
    BY DEF PoolInv, TypeOK, Run
  <2>2. task' = task
    BY DEF Run
  <2>3. QED
    BY <1>1, <2>1, <2>2 DEF Running, Run
<1>7. submitted' = submitted
  BY DEF Run
<1>8. Queues!Start(a)
  BY <1>3, <1>4, <1>5, <1>6, <1>7 DEF Queues!Start
<1>9. QED
  BY <1>8

LEMMA FinishRefines ==
    ASSUME PoolInv, NEW w \in Worker, Finish(w)
    PROVE  \E a \in Act : Queues!Finish(a)
<1>1. PICK a \in Act : task[w].act = a
  BY TasksInHand DEF PoolInv, Finish
<1>2. \A v \in Worker : v # w => task[v].act # a
  BY <1>1 DEF PoolInv, OneInHand, Finish
<1>3. pc'[w] = "complete" /\ \A v \in Worker : v # w => pc'[v] = pc[v]
  BY DEF PoolInv, TypeOK, Finish
<1>4. a \in Running /\ Running' = Running \ {a}
  BY <1>1, <1>2, <1>3 DEF Running, Finish
<1>5. Queues!Finish(a)
  BY <1>4 DEF Queues!Finish, Finish
<1>6. QED
  BY <1>5

(* Every other step leaves what the queues know as it is.                  *)
LEMMA OthersStutter ==
    ASSUME PoolInv,
           \/ Shutdown \/ SelectorStep
           \/ \E w \in Worker : \/ Take(w) \/ CompleteEnter(w) \/ CompleteCheck(w)
                               \/ CompleteRemove(w) \/ CompleteExecute(w)
    PROVE  UNCHANGED Queues!vars
<1> USE DEF PoolInv, TypeOK
<1>1. submitted' = submitted /\ ran' = ran
  BY DEF Shutdown, SelectorStep, SubmitEnter, SubmitCheck, SubmitFirst, SubmitExecute,
     SubmitPending, Take, CompleteEnter, CompleteCheck, CompleteRemove, CompleteExecute
<1>2. Running' = Running
  <2>1. CASE Shutdown
    BY <2>1, RunningSame DEF Shutdown
  <2>2. CASE SubmitEnter \/ SubmitCheck \/ SubmitFirst \/ SubmitPending
    BY <2>2, RunningSame DEF SubmitEnter, SubmitCheck, SubmitFirst, SubmitPending
  <2>3. CASE SubmitExecute
    <3>1. ASSUME NEW w \in Worker, SpawnWith(selector, w, task[selector])
          PROVE  Running' = Running
      BY <2>3, <3>1, RunningSame DEF Places, SubmitExecute, SpawnWith
    <3>2. CASE Enqueue(selector, task[selector]) \/ Reject(selector)
      BY <2>3, <3>2, RunningSame DEF SubmitExecute, Enqueue, Reject
    <3>3. QED
      BY <2>3, <3>1, <3>2 DEF SubmitExecute, Execute
  <2>4. ASSUME NEW w \in Worker,
               Take(w) \/ CompleteEnter(w) \/ CompleteCheck(w) \/ CompleteRemove(w)
        PROVE  Running' = Running
    BY <2>4, RunningSame DEF Take, CompleteEnter, CompleteCheck, CompleteRemove
  <2>5. ASSUME NEW w \in Worker, CompleteExecute(w) PROVE Running' = Running
    BY <2>5, RunningSame DEF Places, CompleteExecute, Execute, SpawnWith, Enqueue, Reject
  <2>6. QED
    BY <2>1, <2>2, <2>3, <2>4, <2>5 DEF SelectorStep
<1>3. QED
  BY <1>1, <1>2 DEF Queues!vars

(* The pool runs an act's tasks one at a time, each once, in the order of  *)
(* their submission, whatever the interleaving of submit and complete      *)
(* (ActorThreadPool.java:28-76) and whenever it is shut down.              *)
THEOREM QueuesImplemented == Spec => ImplementsQueues
<1>1. Init => Queues!Init
  BY DEF Init, Queues!Init, Running
<1>2. PoolInv /\ [Next]_vars => [Queues!Next]_Queues!vars
  <2>1. CASE UNCHANGED vars
    BY <2>1 DEF vars, Queues!vars, Running
  <2>2. ASSUME PoolInv, Next PROVE [Queues!Next]_Queues!vars
    <3>1. CASE \E a \in Act : Submit(a)
      BY <2>2, <3>1, SubmitRefines DEF Queues!Next
    <3>2. CASE \E w \in Worker : Run(w)
      BY <2>2, <3>2, RunRefines DEF Queues!Next
    <3>3. CASE \E w \in Worker : Finish(w)
      BY <2>2, <3>3, FinishRefines DEF Queues!Next
    <3>4. QED
      BY <2>2, <3>1, <3>2, <3>3, OthersStutter DEF Next, WorkerStep
  <2>3. QED
    BY <2>1, <2>2
<1>3. QED
  BY <1>1, <1>2, PoolInvariant, PTL DEF Spec, ImplementsQueues, Queues!Spec
=============================================================================
