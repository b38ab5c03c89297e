-------------------------- MODULE SaveStateProofs --------------------------
(***************************************************************************)
(* What SaveState's runs check on a small instance, proved for any number  *)
(* of changes, missions and failures.  The inductive invariant says, next  *)
(* to the types, what the background thread holds (TasksOK), where the     *)
(* state last put in place is (FileOK), that the snapshots on their way    *)
(* are in the order they were taken (Order), and how a shutdown's tasks    *)
(* sit at the end of the queue (Stops).                                    *)
(***************************************************************************)
EXTENDS SaveState, SequenceTheorems, TLAPS

TasksOK ==
    /\ step \in {"writing", "written", "rotated"} =>
          queue # <<>> /\ Head(queue).kind = "save"
    /\ step = "ended" => queue # <<>> /\ Head(queue).kind = "shutdown"
    /\ step \in {"written", "rotated"} => tmp = Head(queue).state

FileOK ==
    /\ main \in {None, durable}
    /\ durable # None /\ main = None => durable \in backups

\* A save waiting in the queue q is no older than the file d, no newer than the campaign m
\* in memory, and no newer than the saves behind it; nothing is of a mission after e.
Waiting(q, i) == i \in 1..Len(q) /\ q[i].kind = "save"

Ordered(m, e, d, q) ==
    /\ m # None => m.epoch = e
    /\ d # None => d.epoch <= e
    /\ d # None /\ m # None => Precedes(d, m)
    /\ \A i \in 1..Len(q) : Waiting(q, i) =>
          /\ q[i].state.epoch <= e
          /\ d # None => Precedes(d, q[i].state)
          /\ m # None => Precedes(q[i].state, m)
    /\ \A i, j \in 1..Len(q) : Waiting(q, i) /\ Waiting(q, j) /\ i <= j =>
          Precedes(q[i].state, q[j].state)

Order == Ordered(mem, epoch, durable, queue)

Stopping == {"stopSave", "stopReset"}

\* A shutdown's tasks are the last two of the queue, until the first of them is done.
Stops ==
    /\ phase \in Stopping =>
          /\ queue # <<>> /\ queue[Len(queue)] = ShutdownTask
          /\ \A i \in 1..(Len(queue) - 1) : queue[i].kind # "shutdown"
    /\ phase \notin Stopping => \A i \in 1..Len(queue) : queue[i].kind # "shutdown"
    /\ phase = "stopSave" =>
          IF Len(queue) = 1 THEN erred \/ main = mem
                            ELSE queue[Len(queue) - 1] = SaveTask(mem)
    /\ phase = "stopReset" =>
          IF Len(queue) = 1 THEN erred \/ main = None
                            ELSE queue[Len(queue) - 1] = ResetTask

-----------------------------------------------------------------------------
(* The queue *)

\* What sending a pair of tasks leaves in the queue.
LEMMA TwoSent ==
    ASSUME NEW q \in Seq(Tasks), NEW a \in Tasks, NEW b \in Tasks
    PROVE  LET r == q \o <<a, b>>
           IN /\ r \in Seq(Tasks) /\ Len(r) = Len(q) + 2 /\ r # <<>>
              /\ \A i \in 1..Len(q) : r[i] = q[i]
              /\ r[Len(q) + 1] = a /\ r[Len(q) + 2] = b
  <1> DEFINE t == <<a, b>>
             r == q \o t
  <1>1. t \in Seq(Tasks) /\ Len(t) = 2 /\ t[1] = a /\ t[2] = b
        OBVIOUS
  <1> HIDE DEF t
  <1>2. r \in Seq(Tasks) /\ Len(r) = Len(q) + 2
    <2>1. r \in Seq(Tasks) /\ Len(r) = Len(q) + Len(t)
          BY <1>1, ConcatProperties
    <2> QED BY <1>1, <2>1
  <1>3. \A i \in 1..Len(r) : r[i] = IF i <= Len(q) THEN q[i] ELSE t[i - Len(q)]
        BY <1>1, ConcatProperties
  <1>4. Len(q) \in Nat
        BY LenProperties
  <1>5. \A i \in 1..Len(q) : r[i] = q[i]
        BY <1>2, <1>3, <1>4
  <1>6. r[Len(q) + 1] = a
    <2>1. Len(q) + 1 \in 1..Len(r) /\ ~(Len(q) + 1 <= Len(q)) /\ (Len(q) + 1) - Len(q) = 1
          BY <1>2, <1>4
    <2> QED BY <2>1, <1>1, <1>3
  <1>7. r[Len(q) + 2] = b
    <2>1. Len(q) + 2 \in 1..Len(r) /\ ~(Len(q) + 2 <= Len(q)) /\ (Len(q) + 2) - Len(q) = 2
          BY <1>2, <1>4
    <2> QED BY <2>1, <1>1, <1>3
  <1>8. r # <<>>
        BY <1>2, <1>4
  <1> QED BY <1>2, <1>5, <1>6, <1>7, <1>8 DEF t

\* What sending one task leaves in the queue.
LEMMA OneSent ==
    ASSUME NEW q \in Seq(Tasks), NEW a \in Tasks
    PROVE  LET r == q \o <<a>>
           IN /\ r \in Seq(Tasks) /\ Len(r) = Len(q) + 1 /\ r # <<>>
              /\ \A i \in 1..Len(q) : r[i] = q[i]
              /\ r[Len(q) + 1] = a
  <1> DEFINE t == <<a>>
             r == q \o t
  <1>1. t \in Seq(Tasks) /\ Len(t) = 1 /\ t[1] = a
        OBVIOUS
  <1> HIDE DEF t
  <1>2. r \in Seq(Tasks) /\ Len(r) = Len(q) + 1
        BY <1>1, ConcatProperties
  <1>3. \A i \in 1..Len(r) : r[i] = IF i <= Len(q) THEN q[i] ELSE t[i - Len(q)]
        BY <1>1, ConcatProperties
  <1>4. Len(q) \in Nat
        BY LenProperties
  <1>5. \A i \in 1..Len(q) : r[i] = q[i]
        BY <1>2, <1>3, <1>4
  <1>6. r[Len(q) + 1] = a
    <2>1. Len(q) + 1 \in 1..Len(r) /\ ~(Len(q) + 1 <= Len(q)) /\ (Len(q) + 1) - Len(q) = 1
          BY <1>2, <1>4
    <2> QED BY <2>1, <1>1, <1>3
  <1>7. r # <<>>
        BY <1>2, <1>4
  <1> QED BY <1>2, <1>5, <1>6, <1>7 DEF t

\* What taking the head leaves in the queue.
LEMMA HeadTaken ==
    ASSUME NEW q \in Seq(Tasks), q # <<>>
    PROVE  /\ Len(q) \in Nat /\ Len(q) >= 1
           /\ Head(q) = q[1] /\ Head(q) \in Tasks
           /\ Tail(q) \in Seq(Tasks) /\ Len(Tail(q)) = Len(q) - 1
           /\ \A i \in 1..(Len(q) - 1) : Tail(q)[i] = q[i + 1]
  <1>1. Len(q) \in Nat /\ Len(q) # 0
        BY LenProperties, EmptySeq
  <1>2. /\ Head(q) = q[1] /\ Head(q) \in Tasks /\ Tail(q) \in Seq(Tasks)
        /\ Len(Tail(q)) = Len(q) - 1
        /\ \A i \in 1..Len(Tail(q)) : Tail(q)[i] = q[i + 1]
        BY <1>1, HeadTailProperties, LenProperties
  <1> QED BY <1>1, <1>2

-----------------------------------------------------------------------------
(* Types, and what the background thread holds *)

\* The types of the campaign, the files and the queue (TypeOK), and that between two steps
\* of a save (src/bflib/src/bg/mod.rs's save) its task stays in hand and what was written
\* is the campaign the task holds.
THEOREM TypeAndTasks == Spec => [](TypeOK /\ TasksOK)
  <1>1. Init => TypeOK /\ TasksOK
    <2> SUFFICES ASSUME Init
                 PROVE  TypeOK /\ TasksOK
        OBVIOUS
    <2>1. queue \in Seq(Tasks)
          BY EmptySeq DEF Init
    <2>2. backups \in SUBSET States
          BY DEF Init
    <2>3. TypeOK
          BY <2>1, <2>2 DEF Init, TypeOK, Phases, Up
    <2>4. TasksOK
          BY DEF Init, TasksOK
    <2> QED BY <2>3, <2>4
  <1>2. TypeOK /\ TasksOK /\ [Next]_vars => (TypeOK /\ TasksOK)'
    <2> SUFFICES ASSUME TypeOK, TasksOK, [Next]_vars
                 PROVE  TypeOK' /\ TasksOK'
        OBVIOUS
    <2> USE DEF program, files
    <2>1. CASE Start
          BY <2>1 DEF Start, TypeOK, TasksOK, Phases, Up
    <2>2. CASE NewRound
      <3>1. mem' \in States
        <4>1. epoch + 1 \in Nat /\ {} \in SUBSET Nat /\ {seq} \in SUBSET Nat /\ 0 \in Nat
              BY DEF TypeOK
        <4> QED BY <2>2, <4>1 DEF NewRound, States
      <3>2. mem' # None
            BY <3>1, NotStates
      <3>3. seq' \in Nat /\ epoch' \in Nat /\ dirty' \in BOOLEAN /\ phase' = "running"
            BY <2>2 DEF NewRound, TypeOK
      <3>4. UNCHANGED <<queue, step, main, tmp, backups, clock, durable, faults, erred>>
            BY <2>2 DEF NewRound
      <3> QED BY <3>1, <3>2, <3>3, <3>4 DEF TypeOK, TasksOK, Phases, Up
    <2>3. CASE FindFile
          BY <2>3 DEF FindFile, TypeOK, TasksOK, Phases, Up
    <2>4. CASE Load
      <3>1. main \in States /\ epoch + 1 \in Nat
            BY <2>4 DEF Load, TypeOK
      <3>2. mem' \in States
            BY <2>4, <3>1 DEF Load, States
      <3>3. seq' \in Nat
            BY <2>4, <3>1 DEF Load, TypeOK, Seen, States
      <3> QED BY <2>4, <3>2, <3>3, NotStates DEF Load, TypeOK, TasksOK, Phases, Up
    <2>5. CASE LoadFails
          BY <2>5 DEF LoadFails, TypeOK, TasksOK, Phases, Up
    <2>6. ASSUME NEW live \in SUBSET Nat, Changed(live), seq' \in Nat
          PROVE  TypeOK' /\ TasksOK'
      <3>1. mem \in States
            BY <2>6 DEF Changed, TypeOK, Up
      <3>2. mem' \in States
        <4>1. clock + 1 \in Nat /\ mem.done \cup {clock + 1} \in SUBSET Nat
              BY <3>1 DEF TypeOK, States
        <4>2. mem' = [mem EXCEPT !.done = @ \cup {clock + 1}, !.live = live]
              BY <2>6 DEF Changed
        <4> QED BY <2>6, <3>1, <4>1, <4>2 DEF States
      <3> QED BY <2>6, <3>2, NotStates DEF Changed, TypeOK, TasksOK, Phases, Up
    <2>7. CASE Create
      <3>1. mem \in States
            BY <2>7 DEF Create, Changed, TypeOK, Up
      <3>2. mem.live \cup {seq} \in SUBSET Nat /\ seq + 1 \in Nat
            BY <3>1 DEF TypeOK, States
      <3> QED BY <2>6, <2>7, <3>2 DEF Create
    <2>8. CASE Delete
      <3>1. mem \in States
            BY <2>8 DEF Delete, TypeOK, Up
      <3>2. PICK g \in mem.live : Changed(mem.live \ {g})
            BY <2>8 DEF Delete
      <3>3. mem.live \ {g} \in SUBSET Nat /\ seq' \in Nat
            BY <2>8, <3>1 DEF TypeOK, States, Delete
      <3> QED BY <2>6, <3>2, <3>3
    <2>9. CASE Snapshot
      <3>1. mem \in States
            BY <2>9 DEF Snapshot, TypeOK, Up
      <3>2. mem' \in States
            BY <2>9, <3>1 DEF Snapshot, TypeOK, States
      <3>3. SaveTask(mem') \in Tasks
            BY <3>2 DEF SaveTask, Tasks
      <3>4. queue' \in Seq(Tasks) /\ queue' # <<>>
            BY <2>9, <3>3, OneSent DEF Snapshot, Send, TypeOK
      <3>5. queue # <<>> => Head(queue') = Head(queue)
            BY <2>9, <3>3, <3>4, OneSent, HeadTaken DEF Snapshot, Send, TypeOK
      <3> QED BY <2>9, <3>2, <3>4, <3>5, NotStates
              DEF Snapshot, TypeOK, TasksOK, Phases, Up
    <2>10. ASSUME NEW a \in Tasks, NEW b \in Tasks, Send(<<a, b>>),
                  UNCHANGED <<step, tmp>>
           PROVE  queue' \in Seq(Tasks) /\ TasksOK'
      <3>1. queue' \in Seq(Tasks) /\ queue' # <<>>
            BY <2>10, TwoSent DEF Send, TypeOK
      <3>2. queue # <<>> => Head(queue') = Head(queue)
            BY <2>10, <3>1, TwoSent, HeadTaken DEF Send, TypeOK
      <3> QED BY <2>10, <3>1, <3>2 DEF TasksOK
    <2>11. CASE ShutdownSave
      <3>1. mem \in States
            BY <2>11 DEF ShutdownSave, TypeOK, Up
      <3>2. mem' \in States /\ clock' \in Nat
            BY <2>11, <3>1 DEF ShutdownSave, TypeOK, States
      <3>3. SaveTask(mem') \in Tasks /\ ShutdownTask \in Tasks
            BY <3>2 DEF SaveTask, ShutdownTask, Tasks
      <3>4. queue' \in Seq(Tasks) /\ TasksOK'
            BY <2>10, <2>11, <3>3 DEF ShutdownSave
      <3> QED BY <2>11, <3>2, <3>4, NotStates DEF ShutdownSave, TypeOK, Phases, Up
    <2>12. CASE ShutdownReset
      <3>1. ResetTask \in Tasks /\ ShutdownTask \in Tasks
            BY DEF Tasks
      <3>2. queue' \in Seq(Tasks) /\ TasksOK'
            BY <2>10, <2>12, <3>1 DEF ShutdownReset
      <3> QED BY <2>12, <3>2 DEF ShutdownReset, TypeOK, Phases, Up
    <2>13. CASE MissionEnd
          BY <2>13, NotStates DEF MissionEnd, TypeOK, TasksOK, Phases, Up
    <2>14. CASE ProcessEnds
      <3>1. queue' \in Seq(Tasks)
            BY <2>14, EmptySeq DEF ProcessEnds
      <3> QED BY <2>14, <3>1, NotStates DEF ProcessEnds, TypeOK, TasksOK, Phases, Up
    <2>15. CASE BeginWrite
          BY <2>15 DEF BeginWrite, Holding, TypeOK, TasksOK
    <2>16. CASE FinishWrite
      <3>1. Head(queue) \in Tasks /\ Head(queue).kind = "save"
            BY <2>16, HeadTaken DEF FinishWrite, TypeOK, TasksOK
      <3>2. Head(queue).state \in States
            BY <3>1 DEF Tasks, ResetTask, ShutdownTask
      <3> QED BY <2>16, <3>2 DEF FinishWrite, TypeOK, TasksOK
    <2>17. ASSUME NEW ok \in BOOLEAN, Done(ok), queue # <<>>
           PROVE  queue' \in Seq(Tasks) /\ step' = "idle" /\ erred' \in BOOLEAN /\ TasksOK'
          BY <2>17, HeadTaken DEF Done, TypeOK, TasksOK
    <2>18. CASE WriteFails
      <3>1. Done(FALSE) /\ queue # <<>>
            BY <2>18 DEF WriteFails, TasksOK
      <3>2. faults' \in Nat
            BY <2>18 DEF WriteFails, Fault, TypeOK
      <3>3. queue' \in Seq(Tasks) /\ step' = "idle" /\ erred' \in BOOLEAN /\ TasksOK'
            BY <2>17, <3>1
      <3> QED BY <2>18, <3>2, <3>3 DEF WriteFails, TypeOK
    <2>19. CASE Rotate
          BY <2>19, NotStates DEF Rotate, TypeOK, TasksOK
    <2>20. CASE RotateFails
          BY <2>20 DEF RotateFails, Fault, TypeOK, TasksOK
    <2>21. CASE Install
      <3>1. Head(queue) \in Tasks /\ Head(queue).kind = "save"
            BY <2>21, HeadTaken DEF Install, TypeOK, TasksOK
      <3>2. tmp \in States
            BY <2>21, <3>1 DEF Install, Tasks, ResetTask, ShutdownTask, TasksOK
      <3> QED BY <2>21, <2>17, <3>2 DEF Install, TypeOK, TasksOK
    <2>22. CASE InstallFails
      <3>1. Done(FALSE) /\ queue # <<>>
            BY <2>22 DEF InstallFails, TasksOK
      <3>2. faults' \in Nat
            BY <2>22 DEF InstallFails, Fault, TypeOK
      <3>3. queue' \in Seq(Tasks) /\ step' = "idle" /\ erred' \in BOOLEAN /\ TasksOK'
            BY <2>17, <3>1
      <3> QED BY <2>22, <3>2, <3>3 DEF InstallFails, TypeOK
    <2>23. CASE Reset
          BY <2>23, <2>17 DEF Reset, Holding, TypeOK
    <2>24. CASE ResetFails
      <3>1. Done(FALSE) /\ queue # <<>>
            BY <2>24 DEF ResetFails, Holding
      <3>2. faults' \in Nat
            BY <2>24 DEF ResetFails, Fault, TypeOK
      <3>3. queue' \in Seq(Tasks) /\ step' = "idle" /\ erred' \in BOOLEAN /\ TasksOK'
            BY <2>17, <3>1
      <3> QED BY <2>24, <3>2, <3>3 DEF ResetFails, TypeOK
    <2>25. CASE EndLoop
          BY <2>25 DEF EndLoop, Holding, TypeOK, TasksOK
    <2>26. CASE UNCHANGED vars
          BY <2>26 DEF vars, TypeOK, TasksOK
    <2> QED BY <2>1, <2>2, <2>3, <2>4, <2>5, <2>7, <2>8, <2>9, <2>11, <2>12, <2>13, <2>14,
               <2>15, <2>16, <2>18, <2>19, <2>20, <2>21, <2>22, <2>23, <2>24, <2>25, <2>26
            DEF Next, Background
  <1> QED BY <1>1, <1>2, PTL DEF Spec

-----------------------------------------------------------------------------
(* Ids *)

\* IdsUnused (src/dcso3/src/lib.rs's update_max; Db::load): whatever file the campaign was
\* started from, the counters are past the ids of all that is alive.
THEOREM IdsNeverReused == Spec => []IdsUnused
  <1>1. Init => IdsUnused
        BY DEF Init, IdsUnused, Up
  <1>2. TypeOK /\ TypeOK' /\ IdsUnused /\ [Next]_vars => IdsUnused'
    <2> SUFFICES ASSUME TypeOK, TypeOK', IdsUnused, [Next]_vars
                 PROVE  IdsUnused'
        OBVIOUS
    <2> USE DEF program, files
    <2>1. CASE Start \/ FindFile \/ LoadFails \/ MissionEnd \/ ProcessEnds
          BY <2>1 DEF Start, FindFile, LoadFails, MissionEnd, ProcessEnds, IdsUnused, Up
    <2>2. CASE NewRound
      <3>1. mem'.live = {seq} /\ seq' = seq + 1 /\ seq \in Nat
            BY <2>2 DEF NewRound, TypeOK
      <3> QED BY <3>1 DEF IdsUnused
    <2>3. CASE Load
      <3>1. main \in States /\ mem'.live = main.live
            BY <2>3 DEF Load, TypeOK, States
      <3>2. \A g \in main.live : g \in Nat /\ g + 1 <= seq'
            BY <2>3, <3>1 DEF Load, Seen, States
      <3>3. seq' \in Nat
            BY DEF TypeOK
      <3> QED BY <3>1, <3>2, <3>3 DEF IdsUnused
    <2>4. CASE Create
      <3>1. mem \in States /\ phase \in Up
            BY <2>4 DEF Create, Changed, TypeOK, Up
      <3>2. mem'.live = mem.live \cup {seq} /\ seq' = seq + 1
            BY <2>4, <3>1 DEF Create, Changed, States
      <3>3. \A g \in mem.live : g \in Nat /\ g < seq
            BY <3>1 DEF IdsUnused, States
      <3>4. seq \in Nat
            BY DEF TypeOK
      <3>5. \A g \in mem'.live : g < seq'
            BY <3>2, <3>3, <3>4
      <3> QED BY <3>5 DEF IdsUnused
    <2>5. CASE Delete
      <3>1. mem \in States /\ phase \in Up
            BY <2>5 DEF Delete, TypeOK, Up
      <3>2. PICK g \in mem.live : Changed(mem.live \ {g})
            BY <2>5 DEF Delete
      <3>3. mem'.live = mem.live \ {g} /\ seq' = seq
            BY <2>5, <3>1, <3>2 DEF Changed, Delete, States
      <3> QED BY <3>1, <3>3 DEF IdsUnused
    <2>6. CASE Snapshot \/ ShutdownSave \/ ShutdownReset
      <3>1. mem \in States /\ phase \in Up /\ seq' = seq
            BY <2>6 DEF Snapshot, ShutdownSave, ShutdownReset, TypeOK, Up
      <3>2. mem'.live = mem.live
            BY <2>6, <3>1 DEF Snapshot, ShutdownSave, ShutdownReset, States
      <3> QED BY <3>1, <3>2 DEF IdsUnused
    <2>7. CASE Background \/ UNCHANGED vars
      <3>1. UNCHANGED program
            BY <2>7 DEF Background, BeginWrite, FinishWrite, WriteFails, Rotate, RotateFails,
                        Install, InstallFails, Reset, ResetFails, EndLoop, vars
      <3> QED BY <3>1 DEF IdsUnused
    <2> QED BY <2>1, <2>2, <2>3, <2>4, <2>5, <2>6, <2>7 DEF Next
  <1> QED BY <1>1, <1>2, TypeAndTasks, PTL DEF Spec

-----------------------------------------------------------------------------
(* The save file *)

\* NothingUnrecoverable (src/bflib/src/bg/mod.rs's save and rotate_state): wherever the
\* background thread is stopped and whatever fails, the state last put in place is the
\* save file or one of its backups.
THEOREM NothingIsLost == Spec => []NothingUnrecoverable
  <1>1. Init => FileOK
        BY DEF Init, FileOK
  <1>2. TypeOK /\ TasksOK /\ FileOK /\ [Next]_vars => FileOK'
    <2> SUFFICES ASSUME TypeOK, TasksOK, FileOK, [Next]_vars
                 PROVE  FileOK'
        OBVIOUS
    <2> USE DEF program, files
    <2>1. CASE Rotate
          BY <2>1 DEF Rotate, FileOK
    <2>2. CASE Install
      <3>1. queue # <<>> /\ Head(queue).kind = "save" /\ tmp = Head(queue).state
            BY <2>2 DEF Install, TasksOK
      <3>2. tmp \in States
        <4>1. Head(queue) \in Tasks
              BY <3>1, HeadTaken DEF TypeOK
        <4> QED BY <3>1, <4>1 DEF Tasks, ResetTask, ShutdownTask
      <3> QED BY <2>2, <3>2, NotStates DEF Install, FileOK
    <2>3. CASE Reset
          BY <2>3 DEF Reset, FileOK
    <2>4. CASE UNCHANGED <<main, backups, durable>>
          BY <2>4 DEF FileOK
    <2>5. CASE \/ Start \/ NewRound \/ FindFile \/ Load \/ LoadFails \/ Create \/ Delete
               \/ Snapshot \/ ShutdownSave \/ ShutdownReset \/ MissionEnd \/ ProcessEnds
          BY <2>4, <2>5 DEF Start, NewRound, FindFile, Load, LoadFails, Create, Delete,
                            Changed, Snapshot, ShutdownSave, ShutdownReset, MissionEnd,
                            ProcessEnds
    <2>6. CASE \/ BeginWrite \/ FinishWrite \/ WriteFails \/ RotateFails
               \/ InstallFails \/ ResetFails \/ EndLoop
          BY <2>4, <2>6 DEF BeginWrite, FinishWrite, WriteFails, RotateFails,
                            InstallFails, ResetFails, EndLoop
    <2>7. CASE UNCHANGED vars
          BY <2>4, <2>7 DEF vars
    <2> QED BY <2>1, <2>2, <2>3, <2>5, <2>6, <2>7 DEF Next, Background
  <1>3. FileOK => NothingUnrecoverable
        BY DEF FileOK, NothingUnrecoverable
  <1> QED BY <1>1, <1>2, <1>3, TypeAndTasks, PTL DEF Spec

-----------------------------------------------------------------------------
(* The order of the saves *)

\* A save holds a campaign.
LEMMA WaitingState ==
    ASSUME NEW q \in Seq(Tasks), NEW i, Waiting(q, i)
    PROVE  q[i] \in Tasks /\ q[i].state \in States
  <1>1. q[i] \in Tasks
        BY LenProperties DEF Waiting
  <1> QED BY <1>1 DEF Waiting, Tasks, ResetTask, ShutdownTask

\* Precedes is transitive.
LEMMA PrecedesTransitive ==
    ASSUME NEW s \in States, NEW t \in States, NEW u \in States,
           Precedes(s, t), Precedes(t, u)
    PROVE  Precedes(s, u)
  <1>1. s.epoch \in Nat /\ t.epoch \in Nat /\ u.epoch \in Nat
        BY DEF States
  <1> QED BY <1>1 DEF Precedes

\* A campaign that grows stays ahead of what was saved of it.
LEMMA Grown ==
    ASSUME NEW e \in Nat, NEW d \in States \cup {None}, NEW q \in Seq(Tasks),
           NEW m \in States, NEW n \in States, Ordered(m, e, d, q),
           n.epoch = m.epoch, m.done \subseteq n.done
    PROVE  Ordered(n, e, d, q)
  <1>1. Precedes(m, n)
        BY DEF Precedes
  <1>2. m # None
        BY NotStates
  <1>3. d # None => Precedes(d, n)
        BY <1>1, <1>2, PrecedesTransitive DEF Ordered
  <1>4. \A i \in 1..Len(q) : Waiting(q, i) => Precedes(q[i].state, n)
        BY <1>1, <1>2, PrecedesTransitive, WaitingState DEF Ordered
  <1> QED BY <1>2, <1>3, <1>4 DEF Ordered

\* A later mission's campaign is ahead of everything.
LEMMA NextMission ==
    ASSUME NEW e \in Nat, NEW d \in States \cup {None}, NEW q \in Seq(Tasks),
           NEW m, NEW n \in States, Ordered(m, e, d, q), n.epoch = e + 1
    PROVE  Ordered(n, e + 1, d, q)
  <1>1. d # None => d.epoch <= e + 1 /\ Precedes(d, n)
    <2> SUFFICES ASSUME d # None PROVE d.epoch <= e + 1 /\ Precedes(d, n)
        OBVIOUS
    <2>1. d.epoch \in Nat /\ d.epoch <= e
          BY DEF Ordered, States
    <2> QED BY <2>1 DEF Precedes
  <1>2. \A i \in 1..Len(q) : Waiting(q, i) =>
            q[i].state.epoch <= e + 1 /\ Precedes(q[i].state, n)
    <2> SUFFICES ASSUME NEW i \in 1..Len(q), Waiting(q, i)
                 PROVE  q[i].state.epoch <= e + 1 /\ Precedes(q[i].state, n)
        OBVIOUS
    <2>1. q[i].state.epoch \in Nat /\ q[i].state.epoch <= e
          BY WaitingState DEF Ordered, States
    <2> QED BY <2>1 DEF Precedes
  <1> QED BY <1>1, <1>2 DEF Ordered

\* The campaign in memory is gone.
LEMMA Forgotten ==
    ASSUME NEW e, NEW d, NEW q, NEW m, Ordered(m, e, d, q)
    PROVE  Ordered(None, e, d, q) /\ Ordered(m, e, None, q)
  BY DEF Ordered

\* Whatever is sent, if it saves anything it saves the campaign as it is.
LEMMA Sent ==
    ASSUME NEW e \in Nat, NEW d \in States \cup {None}, NEW m \in States,
           NEW q \in Seq(Tasks), NEW r \in Seq(Tasks), Ordered(m, e, d, q),
           \A i \in 1..Len(q) : i \in 1..Len(r) /\ r[i] = q[i],
           \A i \in 1..Len(r) : i \notin 1..Len(q) /\ r[i].kind = "save" => r[i].state = m
    PROVE  Ordered(m, e, d, r)
  <1>1. m # None /\ m.epoch = e /\ Precedes(m, m)
        BY NotStates DEF Ordered, Precedes
  <1>2. Len(q) \in Nat /\ Len(r) \in Nat
        BY LenProperties
  <1>3. ASSUME NEW i \in 1..Len(r), Waiting(r, i)
        PROVE  /\ r[i].state.epoch <= e
               /\ d # None => Precedes(d, r[i].state)
               /\ Precedes(r[i].state, m)
    <2>1. CASE i \in 1..Len(q)
          BY <1>1, <1>3, <2>1 DEF Ordered, Waiting
    <2>2. CASE i \notin 1..Len(q)
          BY <1>1, <1>3, <2>2 DEF Ordered, Waiting
    <2> QED BY <2>1, <2>2
  <1>4. ASSUME NEW i \in 1..Len(r), NEW j \in 1..Len(r), Waiting(r, i), Waiting(r, j), i <= j
        PROVE  Precedes(r[i].state, r[j].state)
    <2>1. CASE j \in 1..Len(q)
      <3>1. i \in 1..Len(q)
            BY <1>2, <1>4, <2>1
      <3> QED BY <1>4, <2>1, <3>1 DEF Ordered, Waiting
    <2>2. CASE j \notin 1..Len(q)
      <3>1. r[j].state = m
            BY <1>4, <2>2 DEF Waiting
      <3> QED BY <1>3, <1>4, <3>1
    <2> QED BY <2>1, <2>2
  <1> QED BY <1>1, <1>3, <1>4 DEF Ordered

\* The head is taken; if it was a save it may have become the file.
LEMMA Taken ==
    ASSUME NEW e, NEW d, NEW m, NEW q \in Seq(Tasks), q # <<>>, Ordered(m, e, d, q)
    PROVE  /\ Ordered(m, e, d, Tail(q))
           /\ Head(q).kind = "save" => Ordered(m, e, Head(q).state, Tail(q))
  <1> DEFINE t == Tail(q)
  <1>1. /\ Len(q) \in Nat /\ Len(q) >= 1 /\ Head(q) = q[1]
        /\ Len(t) = Len(q) - 1
        /\ \A i \in 1..(Len(q) - 1) : t[i] = q[i + 1]
        BY HeadTaken
  <1> HIDE DEF t
  <1>2. \A i \in 1..Len(t) : i + 1 \in 1..Len(q) /\ 1 <= i + 1 /\ t[i] = q[i + 1]
        BY <1>1
  <1>3. \A i \in 1..Len(t) : Waiting(t, i) => Waiting(q, i + 1)
        BY <1>2 DEF Waiting
  <1>4. \A i \in 1..Len(t) : Waiting(t, i) =>
            /\ t[i].state.epoch <= e
            /\ d # None => Precedes(d, t[i].state)
            /\ m # None => Precedes(t[i].state, m)
        BY <1>2, <1>3 DEF Ordered
  <1>5. \A i, j \in 1..Len(t) : Waiting(t, i) /\ Waiting(t, j) /\ i <= j =>
            Precedes(t[i].state, t[j].state)
    <2> SUFFICES ASSUME NEW i \in 1..Len(t), NEW j \in 1..Len(t),
                        Waiting(t, i), Waiting(t, j), i <= j
                 PROVE  Precedes(t[i].state, t[j].state)
        OBVIOUS
    <2>1. i + 1 <= j + 1
          BY <1>1
    <2> QED BY <1>2, <1>3, <2>1 DEF Ordered
  <1>6. Ordered(m, e, d, t)
        BY <1>4, <1>5 DEF Ordered
  <1>7. ASSUME Head(q).kind = "save"
        PROVE  Ordered(m, e, Head(q).state, t)
    <2>1. 1 \in 1..Len(q) /\ Waiting(q, 1)
          BY <1>1, <1>7 DEF Waiting
    <2>2. q[1].state.epoch <= e /\ (m # None => Precedes(q[1].state, m))
          BY <2>1 DEF Ordered
    <2>3. \A i \in 1..Len(t) : Waiting(t, i) => Precedes(q[1].state, t[i].state)
          BY <1>2, <1>3, <2>1 DEF Ordered
    <2> QED BY <1>1, <1>4, <1>5, <2>2, <2>3 DEF Ordered
  <1> QED BY <1>6, <1>7 DEF t

\* No step of either thread puts the saves out of order.
LEMMA OrderKept ==
    TypeOK /\ TypeOK' /\ TasksOK /\ Order /\ [Next]_vars => Order'
  <1> SUFFICES ASSUME TypeOK, TypeOK', TasksOK, Order, [Next]_vars
               PROVE  Order'
      OBVIOUS
  <1> USE DEF program, files
  <1>t. /\ epoch \in Nat /\ durable \in States \cup {None} /\ queue \in Seq(Tasks)
        /\ queue' \in Seq(Tasks) /\ mem \in States \cup {None}
        BY DEF TypeOK
  <1>1. CASE UNCHANGED <<mem, epoch, durable, queue>>
        BY <1>1 DEF Order
  <1>2. CASE Start \/ FindFile \/ LoadFails
        BY <1>1, <1>2 DEF Start, FindFile, LoadFails
  <1>3. CASE NewRound \/ Load
    <2>1. mem' \in States /\ mem'.epoch = epoch + 1
      <3>1. mem' # None
            BY <1>3 DEF NewRound, Load, TypeOK, Up
      <3>2. mem' \in States
            BY <3>1 DEF TypeOK
      <3>3. CASE NewRound
            BY <3>2, <3>3 DEF NewRound
      <3>4. CASE Load
        <4>1. main \in States
              BY <3>4 DEF Load, TypeOK
        <4> QED BY <3>2, <3>4, <4>1 DEF Load, States
      <3> QED BY <1>3, <3>2, <3>3, <3>4
    <2>2. epoch' = epoch + 1 /\ durable' = durable /\ queue' = queue
          BY <1>3 DEF NewRound, Load
    <2> QED BY <1>t, <2>1, <2>2, NextMission DEF Order
  <1>4. ASSUME mem \in States, mem' \in States, mem'.epoch = mem.epoch,
               mem.done \subseteq mem'.done, UNCHANGED <<epoch, durable, queue>>
        PROVE  Order'
        BY <1>t, <1>4, Grown DEF Order
  <1>5. ASSUME NEW live, Changed(live)
        PROVE  Order'
    <2>1. mem \in States /\ mem' \in States
          BY <1>5, NotStates DEF Changed, TypeOK, Up
    <2>2. mem'.epoch = mem.epoch /\ mem.done \subseteq mem'.done
          BY <1>5, <2>1 DEF Changed, States
    <2> QED BY <1>4, <1>5, <2>1, <2>2 DEF Changed
  <1>6. CASE Create \/ Delete
        BY <1>5, <1>6 DEF Create, Delete
  <1>7. CASE Snapshot
    <2>1. mem \in States /\ mem' \in States
          BY <1>7 DEF Snapshot, TypeOK, Up
    <2>2. mem'.epoch = mem.epoch /\ mem'.done = mem.done
          BY <1>7, <2>1 DEF Snapshot, States
    <2>3. Ordered(mem', epoch, durable, queue)
          BY <1>t, <2>1, <2>2, Grown DEF Order
    <2>4. /\ \A i \in 1..Len(queue) : i \in 1..Len(queue') /\ queue'[i] = queue[i]
          /\ \A i \in 1..Len(queue') :
                 i \notin 1..Len(queue) /\ queue'[i].kind = "save" => queue'[i].state = mem'
      <3>1. SaveTask(mem') \in Tasks /\ queue' = queue \o <<SaveTask(mem')>>
            BY <1>7, <2>1 DEF Snapshot, Send, SaveTask, Tasks
      <3>2. /\ Len(queue') = Len(queue) + 1
            /\ \A i \in 1..Len(queue) : queue'[i] = queue[i]
            /\ queue'[Len(queue) + 1] = SaveTask(mem')
            BY <1>t, <3>1, OneSent
      <3>3. Len(queue) \in Nat
            BY <1>t, LenProperties
      <3>4. \A i \in 1..Len(queue') : i \notin 1..Len(queue) => i = Len(queue) + 1
            BY <3>2, <3>3
      <3> QED BY <3>2, <3>3, <3>4 DEF SaveTask
    <2>5. Ordered(mem', epoch, durable, queue')
          BY <1>t, <2>1, <2>3, <2>4, Sent
    <2> QED BY <1>7, <2>5 DEF Snapshot, Order
  <1>8. ASSUME NEW a \in Tasks, NEW b \in Tasks, Send(<<a, b>>),
               a.kind = "save" => a.state = mem', b.kind # "save",
               mem \in States, mem' \in States, mem'.epoch = mem.epoch,
               mem.done \subseteq mem'.done, UNCHANGED <<epoch, durable>>
        PROVE  Order'
    <2>1. Ordered(mem', epoch, durable, queue)
          BY <1>t, <1>8, Grown DEF Order
    <2>2. /\ \A i \in 1..Len(queue) : i \in 1..Len(queue') /\ queue'[i] = queue[i]
          /\ \A i \in 1..Len(queue') :
                 i \notin 1..Len(queue) /\ queue'[i].kind = "save" => queue'[i].state = mem'
      <3>1. queue' = queue \o <<a, b>>
            BY <1>8 DEF Send
      <3>2. /\ Len(queue') = Len(queue) + 2
            /\ \A i \in 1..Len(queue) : queue'[i] = queue[i]
            /\ queue'[Len(queue) + 1] = a /\ queue'[Len(queue) + 2] = b
            BY <1>t, <1>8, <3>1, TwoSent
      <3>3. Len(queue) \in Nat
            BY <1>t, LenProperties
      <3>4. \A i \in 1..Len(queue') :
                i \notin 1..Len(queue) => i = Len(queue) + 1 \/ i = Len(queue) + 2
            BY <3>2, <3>3
      <3> QED BY <1>8, <3>2, <3>3, <3>4
    <2>3. Ordered(mem', epoch, durable, queue')
          BY <1>t, <1>8, <2>1, <2>2, Sent
    <2> QED BY <1>8, <2>3 DEF Order
  <1>9. CASE ShutdownSave
    <2>1. mem \in States /\ mem' \in States
          BY <1>9, NotStates DEF ShutdownSave, TypeOK, Up
    <2>2. mem'.epoch = mem.epoch /\ mem.done \subseteq mem'.done
          BY <1>9, <2>1 DEF ShutdownSave, States
    <2>3. /\ SaveTask(mem') \in Tasks /\ ShutdownTask \in Tasks
          /\ SaveTask(mem').state = mem' /\ ShutdownTask.kind # "save"
          BY <2>1 DEF SaveTask, ShutdownTask, Tasks
    <2>4. Send(<<SaveTask(mem'), ShutdownTask>>) /\ UNCHANGED <<epoch, durable>>
          BY <1>9 DEF ShutdownSave
    <2> QED BY <1>8, <2>1, <2>2, <2>3, <2>4
  <1>10. CASE ShutdownReset
    <2>1. mem \in States /\ mem' = mem
          BY <1>10 DEF ShutdownReset, TypeOK, Up
    <2>2. /\ ResetTask \in Tasks /\ ShutdownTask \in Tasks
          /\ ResetTask.kind # "save" /\ ShutdownTask.kind # "save"
          BY DEF ResetTask, ShutdownTask, Tasks
    <2>3. Send(<<ResetTask, ShutdownTask>>) /\ UNCHANGED <<epoch, durable>>
          BY <1>10 DEF ShutdownReset
    <2> QED BY <1>8, <2>1, <2>2, <2>3
  <1>11. CASE MissionEnd
         BY <1>11, Forgotten DEF MissionEnd, Order
  <1>12. CASE ProcessEnds
    <2>1. Len(queue') = 0
          BY <1>12, EmptySeq DEF ProcessEnds
    <2> QED BY <1>12, <2>1 DEF ProcessEnds, Order, Ordered
  <1>13. CASE BeginWrite \/ FinishWrite \/ Rotate \/ RotateFails \/ EndLoop
         BY <1>1, <1>13 DEF BeginWrite, FinishWrite, Rotate, RotateFails, EndLoop
  <1>14. CASE WriteFails \/ InstallFails \/ ResetFails
    <2>1. queue # <<>> /\ queue' = Tail(queue) /\ UNCHANGED <<mem, epoch, durable>>
          BY <1>14 DEF WriteFails, InstallFails, ResetFails, Done, Holding, TasksOK
    <2> QED BY <1>t, <2>1, Taken DEF Order
  <1>15. CASE Install
    <2>1. queue # <<>> /\ Head(queue).kind = "save" /\ durable' = Head(queue).state
          BY <1>15 DEF Install, TasksOK
    <2>2. queue' = Tail(queue) /\ UNCHANGED <<mem, epoch>>
          BY <1>15 DEF Install, Done
    <2>3. Ordered(mem, epoch, Head(queue).state, Tail(queue))
          BY <1>t, <2>1, Taken DEF Order
    <2> QED BY <2>1, <2>2, <2>3 DEF Order
  <1>16. CASE Reset
    <2>1. queue # <<>> /\ queue' = Tail(queue) /\ durable' = None /\ UNCHANGED <<mem, epoch>>
          BY <1>16 DEF Reset, Done, Holding
    <2>2. Ordered(mem, epoch, durable, Tail(queue))
          BY <1>t, <2>1, Taken DEF Order
    <2>3. Ordered(mem, epoch, None, Tail(queue))
          BY <2>2, Forgotten
    <2> QED BY <2>1, <2>3 DEF Order
  <1>17. CASE UNCHANGED vars
         BY <1>1, <1>17 DEF vars
  <1> QED BY <1>2, <1>3, <1>6, <1>7, <1>9, <1>10, <1>11, <1>12, <1>13, <1>14, <1>15,
             <1>16, <1>17 DEF Next, Background

\* FileMovesForward (src/bflib/src/bg/mod.rs's background_loop; maybe_snapshot): the
\* snapshots reach the file in the order they were taken, whatever mission took them.
THEOREM FileNeverGoesBack == Spec => FileMovesForward
  <1>1. Init => Order
    <2>1. Init => Len(queue) = 0
          BY EmptySeq DEF Init
    <2> QED BY <2>1 DEF Init, Order, Ordered
  <1>2. Spec => []Order
        BY <1>1, OrderKept, TypeAndTasks, PTL DEF Spec
  <1>3. TypeOK /\ TasksOK /\ Order /\ [Next]_vars
            => [durable # None /\ durable' # None => Precedes(durable, durable')]_vars
    <2> SUFFICES ASSUME TypeOK, TasksOK, Order, [Next]_vars,
                        durable # None, durable' # None
                 PROVE  Precedes(durable, durable')
        OBVIOUS
    <2> USE DEF program, files
    <2>1. CASE durable' = durable
          BY <2>1 DEF Precedes
    <2>2. CASE Install
      <3>1. queue # <<>> /\ Head(queue).kind = "save" /\ durable' = Head(queue).state
            BY <2>2 DEF Install, TasksOK
      <3>2. Len(queue) \in Nat /\ Len(queue) >= 1 /\ Head(queue) = queue[1]
            BY <3>1, HeadTaken DEF TypeOK
      <3>3. 1 \in 1..Len(queue) /\ Waiting(queue, 1)
            BY <3>1, <3>2 DEF Waiting
      <3> QED BY <3>1, <3>2, <3>3 DEF Order, Ordered
    <2>3. CASE \/ Start \/ NewRound \/ FindFile \/ Load \/ LoadFails \/ Create \/ Delete
               \/ Snapshot \/ ShutdownSave \/ ShutdownReset \/ MissionEnd \/ ProcessEnds
          BY <2>1, <2>3 DEF Start, NewRound, FindFile, Load, LoadFails, Create, Delete,
                            Changed, Snapshot, ShutdownSave, ShutdownReset, MissionEnd,
                            ProcessEnds
    <2>4. CASE \/ BeginWrite \/ FinishWrite \/ WriteFails \/ Rotate \/ RotateFails
               \/ InstallFails \/ Reset \/ ResetFails \/ EndLoop
          BY <2>1, <2>4 DEF BeginWrite, FinishWrite, WriteFails, Rotate, RotateFails,
                            InstallFails, Reset, ResetFails, EndLoop
    <2>5. CASE UNCHANGED vars
          BY <2>1, <2>5 DEF vars
    <2> QED BY <2>2, <2>3, <2>4, <2>5 DEF Next, Background
  <1> QED BY <1>2, <1>3, TypeAndTasks, PTL DEF Spec, FileMovesForward

-----------------------------------------------------------------------------
(* The shutdown *)

\* No step of either thread undoes a shutdown's place in the queue.
LEMMA StopsKept ==
    TypeOK /\ TypeOK' /\ TasksOK /\ Stops /\ [Next]_vars => Stops'
  <1> SUFFICES ASSUME TypeOK, TypeOK', TasksOK, Stops, [Next]_vars
               PROVE  Stops'
      OBVIOUS
  <1> USE DEF program, files
  <1>t. queue \in Seq(Tasks) /\ queue' \in Seq(Tasks) /\ Len(queue) \in Nat
        BY LenProperties DEF TypeOK
  \* What happens while there is no shutdown, and sends none.
  <1>1. ASSUME phase \notin Stopping, phase' \notin Stopping, queue' = queue
        PROVE  Stops'
        BY <1>1 DEF Stops, Stopping
  <1>2. CASE \/ Start \/ NewRound \/ FindFile \/ Load \/ LoadFails \/ Create \/ Delete
             \/ MissionEnd
        BY <1>1, <1>2 DEF Start, NewRound, FindFile, Load, LoadFails, Create, Delete,
                          Changed, MissionEnd, Stopping
  <1>3. CASE Snapshot
    <2>1. SaveTask(mem') \in Tasks /\ queue' = queue \o <<SaveTask(mem')>>
      <3>1. mem' \in States
            BY <1>3, NotStates DEF Snapshot, TypeOK, Up
      <3> QED BY <1>3, <3>1 DEF Snapshot, Send, SaveTask, Tasks
    <2>2. /\ Len(queue') = Len(queue) + 1
          /\ \A i \in 1..Len(queue) : queue'[i] = queue[i]
          /\ queue'[Len(queue) + 1] = SaveTask(mem')
          BY <1>t, <2>1, OneSent
    <2>3. \A i \in 1..Len(queue) : queue[i].kind # "shutdown"
          BY <1>3 DEF Snapshot, Stops, Stopping
    <2>4. \A i \in 1..Len(queue') : i \in 1..Len(queue) \/ i = Len(queue) + 1
          BY <1>t, <2>2
    <2>5. \A i \in 1..Len(queue') : queue'[i].kind # "shutdown"
          BY <2>2, <2>3, <2>4 DEF SaveTask
    <2> QED BY <1>3, <2>5 DEF Snapshot, Stops, Stopping
  \* What the two tasks of a shutdown leave.
  <1>4. ASSUME NEW a \in Tasks, Send(<<a, ShutdownTask>>), a.kind # "shutdown",
               phase \notin Stopping
        PROVE  /\ Len(queue') >= 2 /\ queue' # <<>> /\ queue'[Len(queue')] = ShutdownTask
               /\ queue'[Len(queue') - 1] = a
               /\ \A i \in 1..(Len(queue') - 1) : queue'[i].kind # "shutdown"
    <2>1. queue' = queue \o <<a, ShutdownTask>> /\ ShutdownTask \in Tasks
          BY <1>4 DEF Send, Tasks
    <2>2. /\ Len(queue') = Len(queue) + 2 /\ queue' # <<>>
          /\ \A i \in 1..Len(queue) : queue'[i] = queue[i]
          /\ queue'[Len(queue) + 1] = a /\ queue'[Len(queue) + 2] = ShutdownTask
          BY <1>t, <2>1, TwoSent
    <2>3. Len(queue') - 1 = Len(queue) + 1 /\ Len(queue') >= 2
          BY <1>t, <2>2
    <2>4. \A i \in 1..(Len(queue') - 1) : i \in 1..Len(queue) \/ i = Len(queue) + 1
          BY <1>t, <2>2
    <2>5. \A i \in 1..Len(queue) : queue[i].kind # "shutdown"
          BY <1>4 DEF Stops
    <2> QED BY <1>4, <2>2, <2>3, <2>4, <2>5
  <1>5. CASE ShutdownSave
    <2>1. /\ SaveTask(mem') \in Tasks /\ SaveTask(mem').kind # "shutdown"
          /\ phase \notin Stopping /\ Send(<<SaveTask(mem'), ShutdownTask>>)
      <3>1. mem' \in States
            BY <1>5, NotStates DEF ShutdownSave, TypeOK, Up
      <3> QED BY <1>5, <3>1 DEF ShutdownSave, SaveTask, Tasks, Stopping
    <2>2. phase' = "stopSave" /\ Len(queue') # 1
          BY <1>4, <1>5, <2>1 DEF ShutdownSave
    <2> QED BY <1>4, <2>1, <2>2 DEF Stops, Stopping
  <1>6. CASE ShutdownReset
    <2>1. /\ ResetTask \in Tasks /\ ResetTask.kind # "shutdown"
          /\ phase \notin Stopping /\ Send(<<ResetTask, ShutdownTask>>)
          BY <1>6 DEF ShutdownReset, ResetTask, Tasks, Stopping
    <2>2. phase' = "stopReset" /\ Len(queue') # 1
          BY <1>4, <1>6, <2>1 DEF ShutdownReset
    <2> QED BY <1>4, <2>1, <2>2 DEF Stops, Stopping
  <1>7. CASE ProcessEnds
    <2>1. Len(queue') = 0
          BY <1>7, EmptySeq DEF ProcessEnds
    <2> QED BY <1>7, <2>1 DEF ProcessEnds, Stops, Stopping
  \* The background thread: only Rotate moves the file without taking a task, and it has
  \* a save in hand, so the shutdown's own task is still ahead.
  <1>8. CASE BeginWrite \/ FinishWrite \/ RotateFails \/ EndLoop \/ UNCHANGED vars
    <2>1. UNCHANGED <<phase, mem, queue, main, erred>>
          BY <1>8 DEF BeginWrite, FinishWrite, RotateFails, EndLoop, vars
    <2> QED BY <2>1 DEF Stops
  <1>9. CASE Rotate
    <2>1. UNCHANGED <<phase, mem, queue, erred>> /\ queue # <<>> /\ Head(queue).kind = "save"
          BY <1>9 DEF Rotate, TasksOK
    <2>2. phase \in Stopping => Len(queue) # 1
          BY <1>t, <2>1, HeadTaken DEF Stops, ShutdownTask
    <2> QED BY <2>1, <2>2 DEF Stops, Stopping
  <1>10. ASSUME queue # <<>>, Head(queue).kind # "shutdown", queue' = Tail(queue),
                UNCHANGED <<phase, mem>>,
                phase = "stopSave" /\ Head(queue) = SaveTask(mem) => erred' \/ main' = mem,
                phase = "stopReset" /\ Head(queue) = ResetTask => erred' \/ main' = None
         PROVE  Stops'
    <2>1. /\ Len(queue) >= 1 /\ Head(queue) = queue[1]
          /\ Len(queue') = Len(queue) - 1
          /\ \A i \in 1..(Len(queue) - 1) : queue'[i] = queue[i + 1]
          BY <1>t, <1>10, HeadTaken
    <2>2. CASE phase \notin Stopping
      <3>1. \A i \in 1..Len(queue') : i + 1 \in 1..Len(queue) /\ queue'[i] = queue[i + 1]
            BY <1>t, <2>1
      <3>2. \A i \in 1..Len(queue') : queue'[i].kind # "shutdown"
            BY <2>2, <3>1 DEF Stops
      <3> QED BY <1>10, <2>2, <3>2 DEF Stops, Stopping
    <2>3. CASE phase \in Stopping
      <3>1. queue[Len(queue)] = ShutdownTask
            BY <2>3 DEF Stops
      <3>2. Len(queue) >= 2
            BY <1>t, <1>10, <2>1, <3>1 DEF ShutdownTask
      <3>3. queue' # <<>>
            BY <1>t, <2>1, <3>2, EmptySeq
      <3>4. queue'[Len(queue')] = ShutdownTask
        <4>1. Len(queue') \in 1..(Len(queue) - 1) /\ Len(queue') + 1 = Len(queue)
              BY <1>t, <2>1, <3>2
        <4> QED BY <2>1, <3>1, <4>1
      <3>5. \A i \in 1..(Len(queue') - 1) : queue'[i].kind # "shutdown"
        <4>1. \A i \in 1..(Len(queue') - 1) :
                  i + 1 \in 1..(Len(queue) - 1) /\ queue'[i] = queue[i + 1]
              BY <1>t, <2>1
        <4> QED BY <2>3, <4>1 DEF Stops
      <3>6. CASE Len(queue') = 1
        <4>0. Len(queue) \in Nat /\ Len(queue) - 1 = 1
              BY <1>t, <2>1, <3>6
        <4>1. Len(queue) # 1 /\ Len(queue) - 1 = 1
              BY <4>0
        <4>2. /\ phase = "stopSave" => Head(queue) = SaveTask(mem)
              /\ phase = "stopReset" => Head(queue) = ResetTask
              BY <2>1, <4>1 DEF Stops
        <4> QED BY <1>10, <2>3, <3>3, <3>4, <3>5, <3>6, <4>2 DEF Stops, Stopping
      <3>7. CASE Len(queue') # 1
        <4>1. Len(queue) # 1 /\ (Len(queue') - 1) \in 1..(Len(queue) - 1)
              /\ (Len(queue') - 1) + 1 = Len(queue) - 1
              BY <1>t, <2>1, <3>2, <3>7
        <4>2. queue'[Len(queue') - 1] = queue[Len(queue) - 1]
              BY <2>1, <4>1
        <4> QED BY <1>10, <2>3, <3>3, <3>4, <3>5, <3>7, <4>1, <4>2 DEF Stops, Stopping
      <3> QED BY <3>6, <3>7
    <2> QED BY <2>2, <2>3
  <1>11. CASE WriteFails \/ InstallFails \/ ResetFails
    <2>1. queue # <<>> /\ Head(queue).kind # "shutdown"
          BY <1>11 DEF WriteFails, InstallFails, ResetFails, Holding, TasksOK
    <2>2. queue' = Tail(queue) /\ UNCHANGED <<phase, mem>> /\ erred'
          BY <1>11 DEF WriteFails, InstallFails, ResetFails, Done
    <2> QED BY <1>10, <2>1, <2>2
  <1>12. CASE Install
    <2>1. queue # <<>> /\ Head(queue).kind = "save" /\ tmp = Head(queue).state
          BY <1>12 DEF Install, TasksOK
    <2>2. queue' = Tail(queue) /\ UNCHANGED <<phase, mem>> /\ main' = tmp
          BY <1>12 DEF Install, Done
    <2>3. Head(queue) = SaveTask(mem) => main' = mem
          BY <2>1, <2>2 DEF SaveTask
    <2>4. Head(queue) # ResetTask
          BY <2>1 DEF ResetTask
    <2> QED BY <1>10, <2>1, <2>2, <2>3, <2>4
  <1>13. CASE Reset
    <2>1. queue # <<>> /\ Head(queue).kind = "reset"
          BY <1>13 DEF Reset, Holding
    <2>2. queue' = Tail(queue) /\ UNCHANGED <<phase, mem>> /\ main' = None
          BY <1>13 DEF Reset, Done
    <2>3. Head(queue) # SaveTask(mem)
          BY <2>1 DEF SaveTask
    <2> QED BY <1>10, <2>1, <2>2, <2>3
  <1> QED BY <1>2, <1>3, <1>5, <1>6, <1>7, <1>8, <1>9, <1>11, <1>12, <1>13
          DEF Next, Background

\* ShutdownHonoured (src/bflib/src/admin.rs's admin_shutdown; background_loop): once the
\* background thread has acknowledged the shutdown, the file is what was asked for.
THEOREM ShutdownIsHonoured == Spec => []ShutdownHonoured
  <1>1. Init => Stops
    <2>1. Init => Len(queue) = 0
          BY EmptySeq DEF Init
    <2> QED BY <2>1 DEF Init, Stops, Stopping
  <1>2. Spec => []Stops
        BY <1>1, StopsKept, TypeAndTasks, PTL DEF Spec
  <1>3. TypeOK /\ TasksOK /\ Stops => ShutdownHonoured
    <2> SUFFICES ASSUME TypeOK, TasksOK, Stops, step = "ended", ~erred,
                        phase \in Stopping
                 PROVE  /\ phase = "stopSave" => main = mem
                        /\ phase = "stopReset" => main = None
        BY DEF ShutdownHonoured, Stopping
    <2>1. queue # <<>> /\ Head(queue).kind = "shutdown" /\ queue \in Seq(Tasks)
          BY DEF TypeOK, TasksOK
    <2>2. Len(queue) \in Nat /\ Len(queue) >= 1 /\ Head(queue) = queue[1]
          BY <2>1, HeadTaken
    <2>3. 1 \notin 1..(Len(queue) - 1)
          BY <2>1, <2>2 DEF Stops
    <2>4. Len(queue) = 1
      <3>1. \A n \in Nat : n >= 1 /\ 1 \notin 1..(n - 1) => n = 1
            OBVIOUS
      <3> QED BY <2>2, <2>3, <3>1
    <2>5. /\ phase = "stopSave" => erred \/ main = mem
          /\ phase = "stopReset" => erred \/ main = None
          BY <2>4 DEF Stops
    <2> QED BY <2>5
  <1> QED BY <1>2, <1>3, TypeAndTasks, PTL
=============================================================================
