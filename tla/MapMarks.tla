------------------------------ MODULE MapMarks ------------------------------
(***************************************************************************)
(* What the players' map shows: the markup of the objectives               *)
(* (db/markup.rs), the pins of the groups (db/group.rs, mark_group) and    *)
(* the queue that carries both to DCS at a limited rate (msgq.rs).         *)
(*                                                                         *)
(* One hub supplies the other objectives and draws an arrow to each.  An   *)
(* objective has an owner ring, a ring that shows while it can be captured *)
(* and a label; the ring of a threatened objective has the form of the     *)
(* second and is left out.  A mark looks like a colour, a text and a       *)
(* position; positions and healths are small numbers.                      *)
(***************************************************************************)
EXTENDS MsgQ, FiniteSets

CONSTANTS
    Hub, Farps,      \* the objectives: one hub, and FARPs that come and go
    Garrison,        \* groups of the hub
    Troops,          \* groups deployed by players
    Raids,           \* groups deployed by actions, sent to a destination
    Sides, SideOf,   \* SideOf[g]: the side of a group of the garrison
    Rate,            \* cfg.max_msgs_per_second
    MaxEvents,       \* bound on the changes of objectives and groups
    MaxPanels        \* bound on the panels shown

Nobody == "nobody"   \* the owner of a FARP that is not there

ASSUME MapAssumption ==
    /\ Hub \notin Farps /\ IsFiniteSet(Farps)
    /\ IsFiniteSet(Garrison) /\ IsFiniteSet(Troops) /\ IsFiniteSet(Raids)
    /\ Garrison \intersect Raids = {}   \* a group has one kind of origin
    /\ \A s \in Sides : s # Nobody
    /\ SideOf \in [Garrison -> Sides]
    /\ Rate \in Nat \ {0} /\ MaxEvents \in Nat /\ MaxPanels \in Nat

Objectives == {Hub} \union Farps
Groups == Garrison \union Troops \union Raids
Gone == [owner |-> Nobody, logi |-> 0, at |-> 0]
(* What may be left of the logistics: a FARP without any is deleted. *)
Levels(o) == IF o = Hub THEN 0..1 ELSE 1..2
NoMark == 0
NoMarkup == [ring |-> NoMark]
Target == 9          \* the destination of every raid

VARIABLES
    obj,           \* the objectives; a FARP may be Gone
    destination,   \* the FARPs the hub supplies
    at,            \* the groups there are, with their positions
    rtb,           \* the raids told to return to base
    markup,        \* ephemeral.objective_markup
    group_marks,   \* ephemeral.group_marks
    marks,         \* DeployKind::Action.marks: the pin at the destination
    msgs,          \* ephemeral.msgs
    next,          \* MarkId::new
    dcs,           \* the map, in DCS
    events, panels \* how many there have been

book == <<markup, group_marks, marks, next>>
vars == <<obj, destination, at, rtb, book, msgs, dcs, events, panels>>

Init ==
    /\ obj \in [Objectives -> [owner : Sides, logi : 0..2, at : {0}]]
    /\ \A o \in Objectives : obj[o].logi \in Levels(o)
    /\ destination = {f \in Farps : obj[f].owner = obj[Hub].owner}
    /\ at = [g \in Groups |-> 0] /\ rtb = {}
    /\ markup = [o \in Objectives |-> NoMarkup]
    /\ group_marks = [g \in Groups |-> NoMark]
    /\ marks = [g \in Raids |-> NoMark]
    /\ msgs = EmptyMsgs /\ next = 1
    /\ dcs = NothingShown
    /\ events = 0 /\ panels = 0

Look(colour, text, pos) == [colour |-> colour, text |-> text, pos |-> pos]

Capturable(logi) == IF logi = 0 THEN "white" ELSE "clear"

(* Marking under way: what the steps of one handler hand on to each other. *)
Work == [q |-> msgs, table |-> markup, pin |-> group_marks, dst |-> marks, n |-> next]

Finish(work) == \E w \in {work} :
    /\ msgs' = w.q /\ markup' = w.table /\ next' = w.n
    /\ group_marks' = w.pin /\ marks' = w.dst
    /\ UNCHANGED dcs

-----------------------------------------------------------------------------
(* The markup of objectives. *)

RingsOf(m) == {m.ring, m.capturable, m.label}
ArrowsOf(m) == {m.arrows[f] : f \in DOMAIN m.arrows}
MarksOf(m) == IF m = NoMarkup THEN {} ELSE RingsOf(m) \union ArrowsOf(m)

(* How an arrow to an objective at `pos` looks. *)
Arrow(pos) == Look("gray", 0, pos)

(* ObjectiveMarkup::new for objective o of `world`, which supplies `to`. *)
NewMarkup(n, world, o, to) ==
    [ring |-> n, capturable |-> n + 1, label |-> n + 2,
     side |-> world[o].owner, logi |-> world[o].logi, at |-> world[o].at,
     arrows |-> CHOOSE a \in [to -> n + 3 .. n + 2 + Cardinality(to)] : IsInjective(a),
     ends |-> [f \in to |-> world[f].at]]

Drawn(q, m) ==
    LET ring == circle_to_all(q, m.ring, Look(m.side, 0, m.at))
        capturable == circle_to_all(ring, m.capturable, Look(Capturable(m.logi), 0, m.at))
        label == text_to_all(capturable, m.label, Look(m.side, m.logi, m.at))
    IN  PushAll(label, 3, {DrawCmd(m.arrows[f], Arrow(m.ends[f])) : f \in DOMAIN m.arrows})

Supplied(o, to) == IF o = Hub THEN to ELSE {}

(* ObjectiveMarkup::remove *)
Undrawn(q, m) == delete_marks(q, MarksOf(m))

create_objective_markup(w, world, o, to) ==
    LET m == NewMarkup(w.n, world, o, Supplied(o, to))
    IN  [w EXCEPT !.q = Drawn(Undrawn(@, w.table[o]), m),
                  !.table[o] = m,
                  !.n = @ + 3 + Cardinality(Supplied(o, to))]

remove_objective_markup(w, o) ==
    [w EXCEPT !.q = Undrawn(@, w.table[o]), !.table[o] = NoMarkup]

(* What `update` sends if the logistics or the place are not what they were. *)
SetLogi(q, m, logi, ring) ==
    LET coloured == IF ring THEN set_markup(q, m.capturable, "colour", Capturable(logi)) ELSE q
    IN  IF m.logi = logi THEN q ELSE set_markup(coloured, m.label, "text", logi)

SetPlace(q, m, pos) ==
    IF m.at = pos THEN q
    ELSE set_markup(set_markup(set_markup(q, m.ring, "pos", pos),
                               m.capturable, "pos", pos), m.label, "pos", pos)

UpdatedAs(w, world, o, ends, ring) ==
    LET m == w.table[o]
        set == SetPlace(SetLogi(w.q, m, world[o].logi, ring), m, world[o].at)
    IN  [w EXCEPT !.q = PushAll(set, 3, {SetCmd(m.arrows[f], "pos", world[f].at) : f \in ends}),
                  !.table[o] = [m EXCEPT
                      !.logi = world[o].logi, !.at = world[o].at,
                      !.ends = [f \in DOMAIN @ |-> IF f \in ends THEN world[f].at ELSE @[f]]]]

(* A plausible bug: the ring of what can be captured is left as it was. *)
UpdateForgetsRing(w, world, o, moved) ==
    UpdatedAs(w, world, o, moved \intersect DOMAIN w.table[o].arrows, FALSE)

(* ObjectiveMarkup::update sends what has changed since the last time;      *)
(* `moved` are the FARPs that have moved.                                   *)
update(w, world, o, moved) ==
    UpdatedAs(w, world, o, moved \intersect DOMAIN w.table[o].arrows, TRUE)

(* update_objective_markup: an objective without markup gets it. *)
update_objective_markup(w, world, o, moved) ==
    IF w.table[o] = NoMarkup THEN create_objective_markup(w, world, o, destination)
    ELSE update(w, world, o, moved)

CreateAll(w, world, to, os) ==
    Each(LAMBDA v, o : create_objective_markup(v, world, o, to), w, os)

UpdateAll(w, world, moved, os) ==
    Each(LAMBDA v, o : update_objective_markup(v, world, o, moved), w, os)

-----------------------------------------------------------------------------
(* The pins of groups. *)

(* A garrison group has a pin while its side owns the hub. *)
Hidden(g, world) == g \in Garrison /\ SideOf[g] # world[Hub].owner

Unpin(w, g) ==
    IF w.pin[g] = NoMark THEN w
    ELSE [w EXCEPT !.q = delete_mark(@, w.pin[g]), !.pin[g] = NoMark]

Pin(w, g, pos) ==
    [w EXCEPT !.q = mark_to(@, w.n, Look("pin", 0, pos)), !.pin[g] = w.n, !.n = @ + 1]

PinTarget(w, g) ==
    [w EXCEPT !.q = mark_to(@, w.n, Look("pin", 0, Target)), !.dst[g] = w.n, !.n = @ + 1]

mark_group(w, g, world, pos) ==
    IF Hidden(g, world) THEN Unpin(w, g)
    ELSE IF g \in Raids /\ w.dst[g] = NoMark
         THEN PinTarget(Pin(Unpin(w, g), g, pos), g)
    ELSE Pin(Unpin(w, g), g, pos)

Pinned(w, world, pos, groups) ==
    Each(LAMBDA v, g : mark_group(v, g, world, pos[g]), w, groups)

Unpinned(w, groups) == Each(Unpin, w, groups)

-----------------------------------------------------------------------------
(* Sending. *)

(* What is left of queue p when n commands have gone, `before` of them at   *)
(* most from the queues ahead of it.                                        *)
Left(p, n, before) == SubSeq(msgs[p], (IF n > before THEN n - before ELSE 0) + 1, Len(msgs[p]))

(* MsgQ::process: n commands, each from the first queue that has one. *)
process(n) ==
    /\ dcs' = Carried(dcs, SubSeq(Waiting(msgs), 1, n))
    /\ msgs' = [p \in 1..3 |->
                   Left(p, n, IF p = 1 THEN 0 ELSE IF p = 2 THEN Len(msgs[1])
                              ELSE Len(msgs[1]) + Len(msgs[2]))]

-----------------------------------------------------------------------------
(* The handlers. *)

Loaded == markup[Hub] # NoMarkup
Event == Loaded /\ events < MaxEvents /\ events' = events + 1
Here(o) == obj[o] # Gone

(* respawn_after_load marks the groups of the saved war, draws the          *)
(* objectives and empties the queue before anybody plays.                   *)
Load ==
    /\ ~Loaded
    /\ \E w \in {CreateAll(Pinned(Work, obj, at, DOMAIN at), obj, destination, Objectives)} :
          /\ dcs' = Carried(dcs, Waiting(w.q))
          /\ markup' = w.table /\ next' = w.n
          /\ group_marks' = w.pin /\ marks' = w.dst
    /\ UNCHANGED <<obj, destination, at, rtb, msgs, events, panels>>

(* A blow or a repair changes the logistics of an objective. *)
LogiChanges(o) ==
    /\ Event /\ Here(o)
    /\ \E l \in Levels(o) \ {obj[o].logi} : obj' = [obj EXCEPT ![o].logi = l]
    /\ UNCHANGED <<destination, at, rtb, book, msgs, dcs, panels>>

(* The slow tick: FARPs aboard ships may have moved, then every objective's *)
(* markup is brought up to date.                                            *)
update_objectives_markup(moved) ==
    /\ Loaded /\ \A f \in moved : Here(f)
    /\ events' = events + Cardinality(moved) /\ events' <= MaxEvents
    /\ obj' = [o \in Objectives |-> IF o \in moved THEN [obj[o] EXCEPT !.at = 1 - @] ELSE obj[o]]
    /\ Finish(UpdateAll(Work, obj', moved, {o \in Objectives : Here(o)}))
    /\ UNCHANGED <<destination, at, rtb, panels>>

(* A plausible bug: the arrows stay as they were. *)
SupplyLinesUndrawn(w, world, to) == w

(* setup_supply_lines: the hub is drawn again when whom it supplies changes. *)
SupplyLines(w, world, to) ==
    IF to = destination THEN w ELSE create_objective_markup(w, world, Hub, to)

OfSide(world, s) == {f \in Farps : world[f].owner = s}

(* check_capture, for the hub: the losers' pins go, a step of repairs is    *)
(* made, the supply lines are drawn, the hub is drawn, the winners' groups  *)
(* are pinned.  (One that breaks off is in Objectives: only then has the    *)
(* owner changed when `update` looks, which is left out there.)             *)
Capture(s) ==
    /\ Event /\ obj[Hub].logi = 0 /\ obj[Hub].owner # s
    /\ obj' = [obj EXCEPT ![Hub].owner = s, ![Hub].logi = 1]
    /\ destination' = OfSide(obj', s)
    /\ LET there == Garrison \intersect DOMAIN at
           losers == {g \in there : SideOf[g] # s}
           lines == SupplyLines(Unpinned(Work, losers), obj', destination')
           drawn == create_objective_markup(lines, obj', Hub, destination')
       IN  Finish(Pinned(drawn, obj', at, there \ losers))
    /\ UNCHANGED <<at, rtb, panels>>

add_farp(f, s) ==
    /\ Event /\ ~Here(f)
    /\ obj' = [obj EXCEPT ![f] = [owner |-> s, logi |-> 1, at |-> 0]]
    /\ destination' = OfSide(obj', obj[Hub].owner)
    /\ Finish(create_objective_markup(SupplyLines(Work, obj', destination'), obj', f, {}))
    /\ UNCHANGED <<at, rtb, panels>>

(* A FARP loses what it had left of its logistics. *)
delete_objective(f) ==
    /\ Event /\ Here(f)
    /\ obj' = [obj EXCEPT ![f] = Gone]
    /\ destination' = destination \ {f}
    /\ LET w == IF f \in destination THEN create_objective_markup(Work, obj', Hub, destination')
                ELSE Work
       IN  Finish(remove_objective_markup(w, f))
    /\ UNCHANGED <<at, rtb, panels>>

(* An administrator has an objective drawn again. *)
remark(o) ==
    /\ Event /\ Here(o)
    /\ Finish(create_objective_markup(Work, obj, o, destination))
    /\ UNCHANGED <<obj, destination, at, rtb, panels>>

add_group(g) ==
    /\ Event /\ g \notin DOMAIN at
    /\ at' = [h \in DOMAIN at \union {g} |-> IF h = g THEN 0 ELSE at[h]]
    /\ Finish(mark_group(Work, g, obj, 0))
    /\ UNCHANGED <<obj, destination, rtb, panels>>

(* update_unit_positions: a group that has moved is marked again. *)
Move(g) ==
    /\ Event /\ g \in DOMAIN at
    /\ at' = [at EXCEPT ![g] = 1 - @]
    /\ Finish(mark_group(Work, g, obj, 1 - at[g]))
    /\ UNCHANGED <<obj, destination, rtb, panels>>

(* rtb: the destination's pin is deleted; `marks` still names it. *)
Rtb(g) ==
    /\ Event /\ g \in DOMAIN at \ rtb
    /\ rtb' = rtb \union {g}
    /\ Finish([Work EXCEPT !.q = delete_mark(@, marks[g])])
    /\ UNCHANGED <<obj, destination, at, panels>>

(* unit_dead: the last unit of a garrison group. *)
GarrisonDies(g) ==
    /\ Event /\ g \in DOMAIN at
    /\ Finish(Unpin(Work, g))
    /\ UNCHANGED <<obj, destination, at, rtb, panels>>

delete_group(g) ==
    /\ Event /\ g \in DOMAIN at
    /\ at' = [h \in DOMAIN at \ {g} |-> at[h]] /\ rtb' = rtb \ {g}
    /\ LET w == IF g \in Raids THEN [Work EXCEPT !.q = delete_mark(@, marks[g]), !.dst[g] = NoMark]
                ELSE Work
       IN  Finish(Unpin(w, g))
    /\ UNCHANGED <<obj, destination, panels>>

ShowPanel ==
    /\ Loaded /\ panels < MaxPanels
    /\ panels' = panels + 1 /\ msgs' = Panel(msgs)
    /\ UNCHANGED <<obj, destination, at, rtb, book, dcs, events>>

Process ==
    /\ Loaded /\ Waiting(msgs) # <<>>
    /\ process(IF Rate < len(msgs) THEN Rate ELSE len(msgs))
    /\ UNCHANGED <<obj, destination, at, rtb, book, events, panels>>

Next ==
    \/ Load
    \/ \E o \in Objectives : LogiChanges(o) \/ remark(o)
    \/ \E moved \in SUBSET Farps : update_objectives_markup(moved)
    \/ \E s \in Sides : Capture(s)
    \/ \E f \in Farps, s \in Sides : add_farp(f, s)
    \/ \E f \in Farps : delete_objective(f)
    \/ \E g \in Groups : add_group(g) \/ Move(g)
    \/ \E g \in Raids : Rtb(g)
    \/ \E g \in Garrison : GarrisonDies(g)
    \/ \E g \in Troops \union Raids : delete_group(g)
    \/ ShowPanel
    \/ Process

Spec == Init /\ [][Next]_vars

FairSpec ==
    Spec /\ WF_vars(Load) /\ WF_vars(Process) /\ WF_vars(update_objectives_markup({}))

-----------------------------------------------------------------------------
(* The marks the program believes the players see; a raid told to return    *)
(* has its destination's pin no more.                                       *)
Marked(w, back) ==
    (({w.pin[g] : g \in Groups} \union {w.dst[g] : g \in Raids \ back}) \ {NoMark})
    \union UNION {MarksOf(w.table[o]) : o \in Objectives}

(* What is seen of the markup of an objective. *)
ShowsMarkup(seen, m) ==
    /\ seen[m.ring] = Look(m.side, 0, m.at)
    /\ seen[m.capturable] = Look(Capturable(m.logi), 0, m.at)
    /\ seen[m.label] = Look(m.side, m.logi, m.at)
    /\ \A f \in DOMAIN m.arrows : seen[m.arrows[f]] = Arrow(m.ends[f])

(* The map shows the marks of the tables w and nothing else, with the looks *)
(* the program gave them; groups are where `pos` has them.                  *)
Shows(seen, w, pos, back) ==
    /\ DOMAIN seen = Marked(w, back)
    /\ \A g \in Groups : w.pin[g] # NoMark => seen[w.pin[g]] = Look("pin", 0, pos[g])
    /\ \A g \in Raids \ back : w.dst[g] # NoMark => seen[w.dst[g]] = Look("pin", 0, Target)
    /\ \A o \in Objectives : w.table[o] # NoMarkup => ShowsMarkup(seen, w.table[o])

(* Whatever is queued and in whatever order it came, when all of it is sent *)
(* the map shows exactly the marks the program has in its tables, with the  *)
(* looks it gave them: no mark of something deleted, captured or moved      *)
(* stays, none is missing (delete_mark, process).                           *)
MapComesRight == Shows(Carried(dcs, Waiting(msgs)).shown, Work, at, rtb)

(* No change of a mark is sent before the mark or after its deletion. *)
ChangesFindTheirMark == dcs.lost = {}

(* The hub's arrows lead to the FARPs it supplies, all of them of its side. *)
ArrowsAreSupplyLines ==
    Loaded => /\ DOMAIN markup[Hub].arrows = destination
              /\ destination = OfSide(obj, obj[Hub].owner)

ShownRight(o) ==
    /\ markup[o] # NoMarkup
    /\ LET m == markup[o]
           here == obj[o]
       IN  /\ RingsOf(m) \subseteq DOMAIN dcs.shown
           /\ dcs.shown[m.ring] = Look(here.owner, 0, here.at)
           /\ dcs.shown[m.capturable] = Look(Capturable(here.logi), 0, here.at)
           /\ dcs.shown[m.label] = Look(here.owner, here.logi, here.at)

(* Once the war and the panels pause, the map comes to show the owner, the  *)
(* health and the place of every objective, and stays so.                   *)
MapCatchesUp == <>[](\A o \in Objectives : Here(o) => ShownRight(o))
=============================================================================
