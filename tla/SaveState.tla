----------------------------- MODULE SaveState -----------------------------
(***************************************************************************)
(* How the campaign survives.  The main thread (DCS's) changes the         *)
(* campaign, takes a snapshot when it is dirty and sends it to the         *)
(* background thread; that thread writes it to a temporary file, moves the *)
(* save file away to a backup and moves the temporary file into its place. *)
(* The process may be killed between any two of these steps, the mission   *)
(* may be restarted inside the process, and the files may fail.            *)
(*                                                                         *)
(* A campaign state is what the properties tell apart: the objects alive   *)
(* (their ids), the counter saved with them, and, as history, the changes  *)
(* it includes and the mission ("epoch") that made it.                     *)
(***************************************************************************)
EXTENDS Integers, Sequences, FiniteSets

CONSTANTS None,        \* no file, no campaign in memory
          Partial,     \* a file being written
          MaxChanges,  \* bound: changes made to the campaign
          MaxEpochs,   \* bound: missions started
          MaxFaults    \* bound: file operations that fail

ASSUME BoundsAreNat == MaxChanges \in Nat /\ MaxEpochs \in Nat /\ MaxFaults \in Nat

States == [epoch : Nat, done : SUBSET Nat, live : SUBSET Nat, gid : Nat]

ASSUME NotStates == None \notin States /\ Partial \notin States /\ None # Partial

SaveTask(s) == [kind |-> "save", state |-> s]
ResetTask == [kind |-> "reset", state |-> None]
ShutdownTask == [kind |-> "shutdown", state |-> None]

Tasks == [kind : {"save"}, state : States] \cup {ResetTask, ShutdownTask}

VARIABLES phase,     \* where the main thread is
          mem,       \* Db.persisted
          dirty,     \* Ephemeral.dirty
          seq,       \* the id counter, a static of the process
          queue,     \* tasks sent to the background thread; the head is in its hands
          step,      \* how far the background thread is with the head
          main,      \* the save file
          tmp,       \* the temporary file
          backups,   \* the time-stamped copies
          clock,     \* history: changes made so far
          epoch,     \* history: missions started so far
          durable,   \* history: the state last put in place and not reset
          faults,    \* history: failures so far
          erred      \* the last task for the background thread was logged as failed

program == <<phase, mem, dirty, seq>>
files == <<main, tmp, backups, durable>>
vars == <<phase, mem, dirty, seq, queue, step, main, tmp, backups,
          clock, epoch, durable, faults, erred>>

Phases == {"off", "loading", "opening", "failed", "running", "stopSave", "stopReset"}

\* Up: there is a campaign in memory.
Up == {"running", "stopSave", "stopReset"}

TypeOK ==
    /\ phase \in Phases
    /\ mem \in States \cup {None} /\ (phase \in Up <=> mem # None)
    /\ dirty \in BOOLEAN
    /\ seq \in Nat
    /\ queue \in Seq(Tasks)
    /\ step \in {"idle", "writing", "written", "rotated", "ended"}
    /\ main \in States \cup {None}
    /\ tmp \in States \cup {None, Partial}
    /\ backups \in SUBSET States
    /\ clock \in Nat /\ epoch \in Nat /\ faults \in Nat
    /\ durable \in States \cup {None}
    /\ erred \in BOOLEAN

Init ==
    /\ phase = "off" /\ mem = None /\ dirty = FALSE /\ seq = 0
    /\ queue = <<>> /\ step = "idle"
    /\ main = None /\ tmp = None /\ backups = {}
    /\ clock = 0 /\ epoch = 0 /\ durable = None /\ faults = 0 /\ erred = FALSE

-----------------------------------------------------------------------------
(* The mission starts: delayed_init_miz *)

\* DCS loads the library: a fresh process, its counters at zero.
Start ==
    /\ phase = "off" /\ epoch < MaxEpochs
    /\ phase' = "loading"
    /\ seq' = 0
    /\ UNCHANGED <<mem, dirty, queue, step, files, clock, epoch, faults, erred>>

\* No save file: a new round is begun, from the mission file.
NewRound ==
    /\ phase = "loading" /\ main = None /\ epoch < MaxEpochs
    /\ phase' = "running"
    /\ mem' = [epoch |-> epoch + 1, done |-> {}, live |-> {seq}, gid |-> 0]
    /\ seq' = seq + 1
    /\ epoch' = epoch + 1
    /\ dirty' = TRUE
    /\ UNCHANGED <<queue, step, files, clock, faults, erred>>

FindFile ==
    /\ phase = "loading" /\ main # None /\ epoch < MaxEpochs
    /\ phase' = "opening"
    /\ UNCHANGED <<mem, dirty, seq, queue, step, files, clock, epoch, faults, erred>>

\* Mutant of Seen: an id read from the file does not move the counter.
SeenCounters(s) == {s.gid, seq}

\* Where the counter may have to go: where it is, where it was when the file was saved
\* (Db::load), and past every id read from the file (update_max).
Seen(s) == {s.gid, seq} \cup {g + 1 : g \in s.live}

\* Db::load, then respawn_after_load, which may find something to change.
Load ==
    /\ phase = "opening" /\ main # None
    /\ phase' = "running"
    /\ mem' = [main EXCEPT !.epoch = epoch + 1]
    /\ seq' \in Seen(main) /\ \A n \in Seen(main) : n <= seq'
    /\ epoch' = epoch + 1
    /\ dirty' \in BOOLEAN
    /\ UNCHANGED <<queue, step, files, clock, faults, erred>>

\* The file was there a moment ago: the mission cannot start.
LoadFails ==
    /\ phase = "opening" /\ main = None
    /\ phase' = "failed"
    /\ UNCHANGED <<mem, dirty, seq, queue, step, files, clock, epoch, faults, erred>>

-----------------------------------------------------------------------------
(* The mission runs *)

Changed(live) ==
    /\ phase = "running" /\ clock < MaxChanges
    /\ clock' = clock + 1
    /\ mem' = [mem EXCEPT !.done = @ \cup {clock + 1}, !.live = live]
    /\ dirty' = TRUE
    /\ UNCHANGED <<phase, queue, step, files, epoch, faults, erred>>

\* A group, a unit or an objective is made; it takes the next id.
Create == Changed(mem.live \cup {seq}) /\ seq' = seq + 1

Delete ==
    /\ phase = "running"
    /\ \E g \in mem.live : Changed(mem.live \ {g})
    /\ UNCHANGED seq

Send(tasks) == queue' = queue \o tasks

\* Mutant of Snapshot: the campaign stays clean, the snapshot is not sent.
SnapshotForgotten ==
    /\ phase = "running" /\ dirty
    /\ dirty' = FALSE
    /\ mem' = [mem EXCEPT !.gid = seq]
    /\ UNCHANGED <<queue, phase, seq, step, files, clock, epoch, faults, erred>>

\* Mutant of Snapshot: the newest snapshot overtakes those still waiting.
SnapshotOvertakes ==
    /\ phase = "running" /\ dirty
    /\ dirty' = FALSE
    /\ mem' = [mem EXCEPT !.gid = seq]
    /\ queue' = IF queue = <<>> THEN <<SaveTask(mem')>>
                ELSE <<Head(queue), SaveTask(mem')>> \o Tail(queue)
    /\ UNCHANGED <<phase, seq, step, files, clock, epoch, faults, erred>>

\* maybe_snapshot, from the slow timer.
Snapshot ==
    /\ phase = "running" /\ dirty
    /\ dirty' = FALSE
    /\ mem' = [mem EXCEPT !.gid = seq]
    /\ Send(<<SaveTask(mem')>>)
    /\ UNCHANGED <<phase, seq, step, files, clock, epoch, faults, erred>>

\* Mutant of ShutdownSave: the background thread is stopped first.
ShutdownFirst ==
    /\ phase = "running"
    /\ phase' = "stopSave"
    /\ Send(<<ShutdownTask, SaveTask(mem)>>)
    /\ UNCHANGED <<mem, dirty, seq, step, files, clock, epoch, faults, erred>>

\* admin_shutdown without a reset: airborne pilots' lives are returned (a change, if
\* there is one), the campaign is saved as it is and the background thread stopped.
ShutdownSave ==
    /\ phase = "running"
    /\ phase' = "stopSave"
    /\ \/ UNCHANGED <<mem, clock>>
       \/ /\ clock < MaxChanges
          /\ clock' = clock + 1
          /\ mem' = [mem EXCEPT !.done = @ \cup {clock + 1}]
    /\ Send(<<SaveTask(mem'), ShutdownTask>>)
    /\ UNCHANGED <<dirty, seq, step, files, epoch, faults, erred>>

\* admin_shutdown with a reset: an admin's, or a victory.
ShutdownReset ==
    /\ phase = "running"
    /\ phase' = "stopReset"
    /\ Send(<<ResetTask, ShutdownTask>>)
    /\ UNCHANGED <<mem, dirty, seq, step, files, clock, epoch, faults, erred>>

\* Event::MissionEnd: Context::reset.  The process, its counters, the background
\* thread and whatever is queued for it stay.
MissionEnd ==
    /\ phase \in {"running", "failed"}
    /\ phase' = "loading" /\ mem' = None /\ dirty' = FALSE
    /\ UNCHANGED <<seq, queue, step, files, clock, epoch, faults, erred>>

\* The process ends: admin_shutdown has heard from the background thread or has waited
\* for a minute, or it is killed at any other moment.  The files stay as they are.
ProcessEnds ==
    /\ phase # "off"
    /\ phase' = "off" /\ mem' = None /\ dirty' = FALSE
    /\ queue' = <<>> /\ step' = "idle" /\ erred' = FALSE
    /\ UNCHANGED <<seq, files, clock, epoch, faults>>

-----------------------------------------------------------------------------
(* The background thread: background_loop, save, rotate_state *)

Holding(kind) == queue # <<>> /\ Head(queue).kind = kind

Done(ok) ==
    /\ queue' = Tail(queue)
    /\ step' = "idle"
    /\ erred' = ~ok

Fault == faults < MaxFaults /\ faults' = faults + 1

BeginWrite ==
    /\ Holding("save") /\ step = "idle"
    /\ tmp' = Partial /\ step' = "writing"
    /\ UNCHANGED <<program, queue, main, backups, durable, clock, epoch, faults, erred>>

FinishWrite ==
    /\ step = "writing"
    /\ tmp' = Head(queue).state /\ step' = "written"
    /\ UNCHANGED <<program, queue, main, backups, durable, clock, epoch, faults, erred>>

WriteFails ==
    /\ step = "writing"
    /\ Fault /\ Done(FALSE)
    /\ UNCHANGED <<program, files, clock, epoch>>

\* Mutant of Rotate: the old file is removed, not renamed.
RotateRemoves ==
    /\ step = "written" /\ step' = "rotated"
    /\ main' = None /\ UNCHANGED backups
    /\ UNCHANGED <<program, queue, tmp, clock, epoch, durable, faults, erred>>

\* rotate_state: the save file becomes the newest backup; which of the older ones stay
\* depends on their age.
Rotate ==
    /\ step = "written" /\ step' = "rotated"
    /\ IF main = None
       THEN UNCHANGED <<main, backups>>
       ELSE /\ main' = None
            /\ \E kept \in SUBSET backups : backups' = kept \cup {main}
    /\ UNCHANGED <<program, queue, tmp, clock, epoch, durable, faults, erred>>

\* A failure to rotate is logged and the save goes on.
RotateFails ==
    /\ step = "written" /\ step' = "rotated"
    /\ Fault
    /\ UNCHANGED <<program, queue, files, clock, epoch, erred>>

Install ==
    /\ step = "rotated"
    /\ main' = tmp /\ durable' = tmp /\ tmp' = None
    /\ Done(TRUE)
    /\ UNCHANGED <<program, backups, clock, epoch, faults>>

InstallFails ==
    /\ step = "rotated"
    /\ Fault /\ Done(FALSE)
    /\ UNCHANGED <<program, files, clock, epoch>>

Reset ==
    /\ Holding("reset") /\ step = "idle"
    /\ main' = None /\ durable' = None
    /\ Done(main # None)
    /\ UNCHANGED <<program, tmp, backups, clock, epoch, faults>>

ResetFails ==
    /\ Holding("reset") /\ step = "idle"
    /\ Fault /\ Done(FALSE)
    /\ UNCHANGED <<program, files, clock, epoch>>

\* The loop signals admin_shutdown and ends; what is still queued is never handled.
EndLoop ==
    /\ Holding("shutdown") /\ step = "idle"
    /\ step' = "ended"
    /\ UNCHANGED <<program, queue, files, clock, epoch, faults, erred>>

-----------------------------------------------------------------------------
Background == \/ BeginWrite \/ FinishWrite \/ WriteFails \/ Rotate \/ RotateFails
              \/ Install \/ InstallFails \/ Reset \/ ResetFails \/ EndLoop

Next == \/ Start \/ NewRound \/ FindFile \/ Load \/ LoadFails
        \/ Create \/ Delete \/ Snapshot
        \/ ShutdownSave \/ ShutdownReset \/ MissionEnd \/ ProcessEnds
        \/ Background

Spec == Init /\ [][Next]_vars

\* The slow timer runs as long as the mission does; the background thread is a loop.
Fairness == WF_vars(Snapshot) /\ WF_vars(Background)

FairSpec == Spec /\ Fairness

-----------------------------------------------------------------------------
(* What it promises *)

\* The next id is never that of an object still alive, however the program was stopped
\* and whatever file it was started from: the counter saved may lag behind the objects
\* saved with it (admin_shutdown does not bring it up to date).
IdsUnused == phase \in Up => \A g \in mem.live : g < seq

\* The state last put in place is never lost by the program's own doing: it is the save
\* file, or, while a new one is moved in or after that failed, the newest backup.
NothingUnrecoverable == durable # None => main = durable \/ durable \in backups

\* A shutdown the background thread has acknowledged did what it was for: the file is the
\* campaign as it ended, or gone, unless the failure was logged.
ShutdownHonoured ==
    step = "ended" /\ ~erred =>
        /\ phase = "stopSave" => main = mem
        /\ phase = "stopReset" => main = None

\* s is an earlier state of t's mission, or of an earlier mission.
Precedes(s, t) == s.epoch < t.epoch \/ (s.epoch = t.epoch /\ s.done \subseteq t.done)

\* The save file never goes back: within a mission it only gains changes, and a snapshot
\* still queued by an earlier mission never replaces one of a later mission.
FileMovesForward ==
    [][durable # None /\ durable' # None => Precedes(durable, durable')]_vars

\* A change made while the mission goes on reaches the save file, and everything the
\* campaign was before it, unless the mission ends or a failure to save is logged first.
ChangesReachTheFile ==
    \A c \in 1..MaxChanges :
        (phase = "running" /\ dirty /\ c \in mem.done)
            ~> (phase # "running" \/ erred \/ (durable # None /\ c \in durable.done))

\* "The campaign state saves between server restarts": a new round is begun only when
\* nothing was ever saved, or the campaign was reset.
SavedCampaignGoesOn ==
    [][phase = "loading" /\ phase' = "running" => durable = None]_vars
=============================================================================
