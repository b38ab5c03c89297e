-------------------------------- MODULE MsgQ --------------------------------
(***************************************************************************)
(* The outgoing message queue, bflib/src/msgq.rs: three FIFO queues, the   *)
(* first emptied before the second and the second before the third.  Chat  *)
(* and panels go to the first, pins, labels and deletions to the second,   *)
(* shapes and changes of shapes and labels to the third.  A command is a   *)
(* record; what a pin or a shape looks like is one value, `look`.          *)
(***************************************************************************)
EXTENDS Naturals, SequencesExt

(* What Op makes of v, called for every member of S in turn, or of seq in   *)
(* order.  Each step has its v as a value: TLC evaluates it once.           *)
Each(Op(_, _), v, S) ==
    FoldSet(LAMBDA e, w : CHOOSE r \in {Op(x, e) : x \in {w}} : TRUE, v, S)

EachOf(Op(_, _), v, seq) ==
    FoldLeft(LAMBDA w, e : CHOOSE r \in {Op(x, e) : x \in {w}} : TRUE, v, seq)

EmptyMsgs == [p \in 1..3 |-> <<>>]

Push(q, p, cmd) == [q EXCEPT ![p] = Append(@, cmd)]

(* A loop that pushes these, in whatever order. *)
PushAll(q, p, cmds) == Each(LAMBDA r, cmd : Push(r, p, cmd), q, cmds)

Panel(q) == Push(q, 1, [op |-> "panel"])

PinCmd(id, look) == [op |-> "pin", id |-> id, look |-> look]
DrawCmd(id, look) == [op |-> "draw", id |-> id, look |-> look]
DeleteCmd(id) == [op |-> "delete", id |-> id]
SetCmd(id, field, val) == [op |-> "set", id |-> id, field |-> field, val |-> val]

mark_to(q, id, look) == Push(q, 2, PinCmd(id, look))
text_to_all(q, id, look) == Push(q, 2, DrawCmd(id, look))
circle_to_all(q, id, look) == Push(q, 3, DrawCmd(id, look))
set_markup(q, id, field, val) == Push(q, 3, SetCmd(id, field, val))

Draws(q, id) ==
    \E p \in DOMAIN q : \E i \in DOMAIN q[p] : q[p][i].op = "draw" /\ q[p][i].id = id

About(cmd, id) == cmd.op \in {"draw", "set"} /\ cmd.id = id

(* VecDeque::retain, of what is not about id. *)
Without(queue, id) ==
    EachOf(LAMBDA kept, cmd : IF About(cmd, id) THEN kept ELSE Append(kept, cmd), <<>>, queue)

(* Plausible bugs of delete_mark: the deletion goes out ahead of the pin it *)
(* deletes, and the changes of a deleted mark stay queued.                  *)
DeleteAhead(q, id) ==
    LET rest == [p \in DOMAIN q |-> Without(q[p], id)]
    IN  IF Draws(q, id) THEN rest ELSE Push(rest, 1, DeleteCmd(id))

DeleteLeavesChanges(q, id) ==
    LET rest == [p \in DOMAIN q |->
                    SelectSeq(q[p], LAMBDA cmd : ~(cmd.op = "draw" /\ cmd.id = id))]
    IN  IF Draws(q, id) THEN rest ELSE Push(rest, 2, DeleteCmd(id))

(* A shape or label still queued is taken back with its changes; anything   *)
(* else is deleted by a command.  A queued pin is never taken back.         *)
delete_mark(q, id) ==
    LET rest == [p \in DOMAIN q |-> Without(q[p], id)]
    IN  IF Draws(q, id) THEN rest ELSE Push(rest, 2, DeleteCmd(id))

delete_marks(q, ids) == Each(delete_mark, q, ids)

len(q) == Len(q[1]) + Len(q[2]) + Len(q[3])

-----------------------------------------------------------------------------
(* What DCS makes of the commands: map.shown are the marks on the map and   *)
(* how they look, map.lost those that were to be changed and were not there.*)

NothingShown == [shown |-> <<>>, lost |-> {}]

Put(seen, id, look) == [i \in DOMAIN seen \union {id} |-> IF i = id THEN look ELSE seen[i]]

Drop(seen, id) == [i \in DOMAIN seen \ {id} |-> seen[i]]

Executed(map, cmd) ==
    CASE cmd.op \in {"pin", "draw"} ->
           [map EXCEPT !.shown = Put(@, cmd.id, cmd.look)]
      [] cmd.op = "delete" ->
           [map EXCEPT !.shown = Drop(@, cmd.id)]
      [] cmd.op = "set" ->
           IF cmd.id \in DOMAIN map.shown
           THEN [map EXCEPT !.shown[cmd.id] = [@ EXCEPT ![cmd.field] = cmd.val]]
           ELSE [map EXCEPT !.lost = @ \union {cmd.id}]
      [] OTHER -> map

Carried(map, cmds) == EachOf(Executed, map, cmds)

(* All that is queued, in the order it will be sent. *)
Waiting(q) == q[1] \o q[2] \o q[3]
=============================================================================
