---------------------------- MODULE SpawnQueue ----------------------------
(***************************************************************************)
(* The queues of Ephemeral that stand between the campaign and DCS: groups *)
(* to spawn, groups to despawn, groups to spawn later.  A queue is a       *)
(* record; the time a delayed spawn is due is left to whoever takes it.    *)
(*                                                                         *)
(* A despawn and a spawn of one group cancel each other: whichever is      *)
(* pushed second takes the first out of its queue and is not queued.       *)
(***************************************************************************)
EXTENDS Sequences, SequencesExt

EmptyQueue == [spawn |-> <<>>, despawn |-> <<>>, later |-> {}]

ToSpawn(q) == ToSet(q.spawn)
ToDespawn(q) == ToSet(q.despawn)
Queued(q) == ToSpawn(q) \cup ToDespawn(q) \cup q.later

Without(queue, g) ==
    FoldLeft(LAMBDA kept, x : IF x = g THEN kept ELSE Append(kept, x), <<>>, queue)

\* Mutant of push_despawn: the spawn stays in its queue, and the despawn comes first.
PushDespawnKeepsSpawn(q, g) ==
    IF g \in ToDespawn(q) THEN q ELSE [q EXCEPT !.despawn = Append(@, g)]

\* Mutant of WithDue: what is due is forgotten.
WithDueForgotten(q, due) == [q EXCEPT !.later = @ \ due]

push_despawn(q, g) ==
    IF g \in ToSpawn(q) THEN [q EXCEPT !.spawn = Without(@, g)]
    ELSE IF g \in ToDespawn(q) THEN q
    ELSE [q EXCEPT !.despawn = Append(@, g)]

push_spawn(q, g) ==
    IF g \in ToDespawn(q) THEN [q EXCEPT !.despawn = Without(@, g)]
    ELSE IF g \in ToSpawn(q) THEN q
    ELSE [q EXCEPT !.spawn = Append(@, g)]

push_later(q, gs) == [q EXCEPT !.later = @ \cup gs]

push_spawns(q, gs) == FoldSet(LAMBDA g, acc : push_spawn(acc, g), q, gs)
push_despawns(q, gs) == FoldSet(LAMBDA g, acc : push_despawn(acc, g), q, gs)

\* The first step of process_spawn_queue: delayed spawns that are due are pushed.
WithDue(q, due) == push_spawns([q EXCEPT !.later = @ \ due], due)
=============================================================================
