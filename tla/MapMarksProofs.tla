--------------------------- MODULE MapMarksProofs ---------------------------
(***************************************************************************)
(* The map comes right, proved of MapMarks for any FARPs, groups and sides *)
(* and any rate.                                                           *)
(*                                                                         *)
(* What is queued is looked at mark by mark.  A command says something of  *)
(* one mark and leaves the rest of the map as it is (Aside), so commands   *)
(* of different marks may change places.  Thus pushing a command does to   *)
(* the map as it will be (Final) what the command says, although it is     *)
(* sent before others (PushedIsExecuted); taking a mark back does what     *)
(* deleting it would (MarkIsDeleted); and sending changes nothing of the   *)
(* map as it will be (SendingIsFair).                                      *)
(*                                                                         *)
(* What the program has marks for are slots: the pin of a group, the pin   *)
(* at a raid's destination, each ring, label and arrow of an objective.    *)
(* Agrees says of the marks and looks of some slots that they are what     *)
(* will be seen; it is kept by drawing, changing and deleting marks, one   *)
(* at a time and in loops.  Good says it of the program's tables, and each *)
(* helper of the handlers keeps that; so does each handler (MapInv).       *)
(***************************************************************************)
EXTENDS MapMarks, FoldLemmas, SequenceTheorems

-----------------------------------------------------------------------------
(* Sequences. *)

\* Induction over sequences that grow at their end.
LEMMA SeqInduction ==
    ASSUME NEW S, NEW P, <<>> \in P, \A s \in Seq(S), e \in S : s \in P => Append(s, e) \in P
    PROVE  \A s \in Seq(S) : s \in P
<1> SUFFICES ASSUME NEW s \in Seq(S) PROVE s \in P
  OBVIOUS
<1> DEFINE n == Len(s)
           first == [k \in 0..n |-> SubSeq(s, 1, k)]
           Q == {k \in 0..n : first[k] \in P}
<1>1. n \in Nat /\ \A i \in 1..n : s[i] \in S
  OBVIOUS
<1>2. first[0] = <<>>
  BY <1>1, SubSeqEmpty
<1>3. ASSUME NEW i \in 1..n
      PROVE  first[i - 1] \in Seq(S) /\ first[i] = Append(first[i - 1], s[i])
  <2>1. SubSeq(s, 1, i - 1) \in Seq(S)
    BY <1>1, SubSeqProperties
  <2>2. SubSeq(s, 1, i) = SubSeq(s, 1, i - 1) \o <<s[i]>>
    BY <1>1, SubSeqRecursiveSecond
  <2>3. SubSeq(s, 1, i) = Append(SubSeq(s, 1, i - 1), s[i])
    BY <1>1, <2>1, <2>2, AppendIsConcat
  <2>4. i \in 0..n /\ i - 1 \in 0..n
    BY <1>1
  <2> QED
    BY <2>1, <2>3, <2>4
<1>4. first[n] = s
  BY <1>1, SubSeqFull
<1> HIDE DEF first
<1>5. \A i \in 0..n : i \in Q
  <2> HIDE DEF n
  <2>1. 0 \in Q
    BY <1>1, <1>2
  <2>2. ASSUME NEW i \in 1..n, i - 1 \in Q
        PROVE  i \in Q
    <3>1. first[i - 1] \in P /\ first[i - 1] \in Seq(S) /\ s[i] \in S
      BY <1>1, <1>3, <2>2
    <3>2. Append(first[i - 1], s[i]) \in P
      BY <3>1
    <3>3. i \in 0..n
      BY <1>1
    <3> QED
      BY <1>3, <3>2, <3>3
  <2> HIDE DEF Q
  <2> QED
    BY <1>1, <2>1, <2>2, Stepwise
<1> QED
  BY <1>1, <1>4, <1>5

\* The steps of two folds over sequences, the one a beginning of the other.
Begins(op, on, n, m, V) ==
    /\ n \in Nat /\ m = n + 1
    /\ op \in [(1..n) \X V -> V] /\ on \in [(1..m) \X V -> V]
    /\ \A i \in 1..n, v \in V : op[<<i, v>>] = on[<<i, v>>]

\* A fold over a sequence, and over the sequence with one more at its end.
LEMMA FoldOfMore ==
    ASSUME NEW n, NEW m, NEW V, NEW base \in V, NEW op, NEW on, Begins(op, on, n, m, V),
           NEW it, NEW jt, Ordered(it, n, V, base, op), Ordered(jt, m, V, base, on)
    PROVE  it[1..n] \in V /\ jt[1..m] = on[<<m, it[1..n]>>]
<1> USE DEF Begins
<1>1. PICK run : Runs(run, n, V, base, op, it[1..n])
  BY FoldRuns
<1>2. PICK jog : Runs(jog, m, V, base, on, jt[1..m])
  <2>1. m \in Nat
    OBVIOUS
  <2> QED
    BY <2>1, FoldRuns
<1> DEFINE P == {i \in 0..n : run[i] = jog[i]}
<1>3. 0 \in P
  BY <1>1, <1>2 DEF Runs
<1>4. ASSUME NEW i \in 1..n, i - 1 \in P
      PROVE  i \in P
  <2>1. i \in 1..m
    OBVIOUS
  <2>2. run[i - 1] \in V /\ run[i] = op[<<i, run[i - 1]>>] /\ jog[i] = on[<<i, jog[i - 1]>>]
    BY <1>1, <1>2, <2>1 DEF Runs
  <2> QED
    BY <1>4, <2>2
<1>5. \A i \in 0..n : i \in P
  <2> HIDE DEF P
  <2> QED
    BY <1>3, <1>4, Stepwise
<1>6. run[n] = jog[n] /\ run[n] = it[1..n] /\ run[n] \in V
  BY <1>1, <1>5 DEF Runs
<1>7. jt[1..m] = on[<<m, jog[n]>>]
  <2>1. m \in 1..m /\ m - 1 = n
    OBVIOUS
  <2> QED
    BY <1>2, <2>1 DEF Runs
<1> QED
  BY <1>6, <1>7

-----------------------------------------------------------------------------
(* Types of what is queued and of the map. *)

Colours == Sides \cup {Nobody, "white", "clear", "gray", "pin"}
Vals == Nat \cup Colours
Fields == {"colour", "text", "pos"}
Looks == [colour : Vals, text : Vals, pos : Vals]

Making == [op : {"pin", "draw"}, id : Nat, look : Looks]
Deleting == [op : {"delete"}, id : Nat]
Setting == [op : {"set"}, id : Nat, field : Fields, val : Vals]
Showing == [op : {"panel"}]

Cmds == Making \cup Deleting \cup Setting \cup Showing

Seen == UNION {[D -> Looks] : D \in SUBSET Nat}
Maps == [shown : Seen, lost : SUBSET Nat]

Queues == [1..3 -> Seq(Cmds)]

\* What kind of command c is, by its name.
LEMMA KindOf ==
    ASSUME NEW c \in Cmds
    PROVE  /\ c.op \in {"pin", "draw", "delete", "set", "panel"}
           /\ c.op \in {"pin", "draw"} <=> c \in Making
           /\ c.op = "delete" <=> c \in Deleting
           /\ c.op = "set" <=> c \in Setting
           /\ c.op = "panel" <=> c \in Showing
           /\ c.op # "panel" => c.id \in Nat
<1>1. /\ c \in Making => c.op \in {"pin", "draw"} /\ c.id \in Nat
      /\ c \in Deleting => c.op = "delete" /\ c.id \in Nat
      /\ c \in Setting => c.op = "set" /\ c.id \in Nat
      /\ c \in Showing => c.op = "panel"
  BY DEF Making, Deleting, Setting, Showing
<1> QED
  BY <1>1 DEF Cmds

\* What can be seen: marks with looks.
LEMMA SeenIs ==
    ASSUME NEW f
    PROVE  f \in Seen <=> DOMAIN f \subseteq Nat /\ f \in [DOMAIN f -> Looks]
  BY DEF Seen

\* A mark put on the map, or put there again.
LEMMA PutIn ==
    ASSUME NEW seen \in Seen, NEW id \in Nat, NEW look \in Looks
    PROVE  /\ Put(seen, id, look) \in Seen
           /\ DOMAIN Put(seen, id, look) = DOMAIN seen \cup {id}
           /\ Put(seen, id, look)[id] = look
           /\ \A j \in DOMAIN seen \ {id} : Put(seen, id, look)[j] = seen[j]
<1> DEFINE new == Put(seen, id, look)
<1>1. DOMAIN seen \subseteq Nat /\ \A j \in DOMAIN seen : seen[j] \in Looks
  BY DEF Seen
<1>2. /\ new = [i \in DOMAIN seen \cup {id} |-> IF i = id THEN look ELSE seen[i]]
  BY DEF Put
<1>3. new \in [DOMAIN seen \cup {id} -> Looks]
  BY <1>1, <1>2
<1>4. DOMAIN seen \cup {id} \in SUBSET Nat
  BY <1>1
<1> HIDE DEF new
<1> QED
  BY <1>2, <1>3, <1>4 DEF Seen, new

IsPut(new, seen, id, look) ==
    /\ new \in Seen /\ DOMAIN new = DOMAIN seen \cup {id} /\ new[id] = look
    /\ \A j \in DOMAIN seen \ {id} : new[j] = seen[j]

\* The same, as one fact of all maps, marks and looks.
LEMMA PutIs ==
    \A seen \in Seen, id \in Nat, look \in Looks : IsPut(Put(seen, id, look), seen, id, look)
<1> TAKE seen \in Seen, id \in Nat, look \in Looks
<1> QED
  BY PutIn, ZenonT(30) DEF IsPut

\* A mark taken off the map.
LEMMA DropFrom ==
    ASSUME NEW seen \in Seen, NEW id
    PROVE  /\ Drop(seen, id) \in Seen
           /\ DOMAIN Drop(seen, id) = DOMAIN seen \ {id}
           /\ \A j \in DOMAIN seen \ {id} : Drop(seen, id)[j] = seen[j]
<1> DEFINE new == Drop(seen, id)
<1>1. DOMAIN seen \subseteq Nat /\ \A j \in DOMAIN seen : seen[j] \in Looks
  BY DEF Seen
<1>2. new = [i \in DOMAIN seen \ {id} |-> seen[i]]
  BY DEF Drop
<1>3. new \in [DOMAIN seen \ {id} -> Looks] /\ DOMAIN seen \ {id} \in SUBSET Nat
  BY <1>1, <1>2
<1> HIDE DEF new
<1> QED
  BY <1>2, <1>3 DEF Seen, new

\* A look with one of its fields changed.
LEMMA ChangedLook ==
    ASSUME NEW look \in Looks, NEW field \in Fields, NEW val \in Vals
    PROVE  [look EXCEPT ![field] = val] \in Looks
  BY DEF Looks, Fields

\* The same record, the looks apart.
Changed(seen, id, field, val) == [seen EXCEPT ![id] = [@ EXCEPT ![field] = val]]

\* A mark on the map whose look changes in one field.
LEMMA ChangedIn ==
    ASSUME NEW seen \in Seen, NEW id \in DOMAIN seen, NEW field \in Fields, NEW val \in Vals
    PROVE  /\ Changed(seen, id, field, val) \in Seen
           /\ DOMAIN Changed(seen, id, field, val) = DOMAIN seen
           /\ Changed(seen, id, field, val)[id] = [seen[id] EXCEPT ![field] = val]
           /\ \A j \in DOMAIN seen \ {id} : Changed(seen, id, field, val)[j] = seen[j]
<1> DEFINE new == Changed(seen, id, field, val)
           look == [seen[id] EXCEPT ![field] = val]
<1>1. DOMAIN seen \subseteq Nat /\ seen \in [DOMAIN seen -> Looks]
  BY DEF Seen
<1>2. look \in Looks
  BY <1>1, ChangedLook
<1>3. new = [seen EXCEPT ![id] = look]
  BY DEF Changed
<1> HIDE DEF new, look
<1>4. new \in [DOMAIN seen -> Looks] /\ new[id] = look /\ \A j \in DOMAIN seen \ {id} : new[j] = seen[j]
  BY <1>1, <1>2, <1>3
<1>5. new \in Seen /\ DOMAIN new = DOMAIN seen
  BY <1>1, <1>4 DEF Seen
<1> QED
  BY <1>4, <1>5 DEF new, look

IsChanged(new, seen, id, field, val) ==
    /\ new \in Seen /\ DOMAIN new = DOMAIN seen /\ new[id] = [seen[id] EXCEPT ![field] = val]
    /\ \A j \in DOMAIN seen \ {id} : new[j] = seen[j]

\* The same, as one fact of all marks, maps, fields and values.
LEMMA ChangedIs ==
    \A id : \A seen \in Seen, field \in Fields, val \in Vals :
       id \in DOMAIN seen => IsChanged(Changed(seen, id, field, val), seen, id, field, val)
  BY ChangedIn DEF IsChanged

\* What each kind of command does.
LEMMA ExecutedIs ==
    ASSUME NEW d \in Maps, NEW c \in Cmds
    PROVE  /\ Executed(d, c) \in Maps
           /\ c \in Making => Executed(d, c) = [shown |-> Put(d.shown, c.id, c.look), lost |-> d.lost]
           /\ c \in Deleting => Executed(d, c) = [shown |-> Drop(d.shown, c.id), lost |-> d.lost]
           /\ c \in Setting /\ c.id \in DOMAIN d.shown
                => Executed(d, c) = [shown |-> Changed(d.shown, c.id, c.field, c.val), lost |-> d.lost]
           /\ c \in Setting /\ c.id \notin DOMAIN d.shown
                => Executed(d, c) = [shown |-> d.shown, lost |-> d.lost \cup {c.id}]
           /\ c \in Showing => Executed(d, c) = d
<1>0. d.shown \in Seen /\ d.lost \in SUBSET Nat /\ d = [shown |-> d.shown, lost |-> d.lost]
  BY DEF Maps
<1>1. CASE c \in Making
  <2>1. c.op \in {"pin", "draw"} /\ c.id \in Nat /\ c.look \in Looks
    BY <1>1 DEF Making
  <2>2. Executed(d, c) = [shown |-> Put(d.shown, c.id, c.look), lost |-> d.lost]
    BY <1>0, <2>1 DEF Executed
  <2>3. Put(d.shown, c.id, c.look) \in Seen
    BY <1>0, <2>1, PutIn
  <2>4. c \notin Deleting /\ c \notin Setting /\ c \notin Showing
    BY <2>1 DEF Deleting, Setting, Showing
  <2> QED
    BY <1>0, <2>2, <2>3, <2>4 DEF Maps
<1>2. CASE c \in Deleting
  <2>1. c.op = "delete" /\ c.id \in Nat
    BY <1>2 DEF Deleting
  <2>2. Executed(d, c) = [shown |-> Drop(d.shown, c.id), lost |-> d.lost]
    BY <1>0, <2>1 DEF Executed
  <2>3. Drop(d.shown, c.id) \in Seen
    BY <1>0, DropFrom
  <2>4. c \notin Making /\ c \notin Setting /\ c \notin Showing
    BY <2>1 DEF Making, Setting, Showing
  <2> QED
    BY <1>0, <2>2, <2>3, <2>4 DEF Maps
<1>3. CASE c \in Setting
  <2>1. c.op = "set" /\ c.id \in Nat /\ c.field \in Fields /\ c.val \in Vals
    BY <1>3 DEF Setting
  <2>2. c \notin Making /\ c \notin Deleting /\ c \notin Showing
    BY <2>1 DEF Making, Deleting, Showing
  <2>3. CASE c.id \in DOMAIN d.shown
    <3>1. Executed(d, c) = [shown |-> Changed(d.shown, c.id, c.field, c.val), lost |-> d.lost]
      BY <1>0, <2>1, <2>3 DEF Executed, Changed
    <3>2. Changed(d.shown, c.id, c.field, c.val) \in Seen
      BY <1>0, <2>1, <2>3, ChangedIn
    <3> QED
      BY <1>0, <2>2, <2>3, <3>1, <3>2 DEF Maps
  <2>4. CASE c.id \notin DOMAIN d.shown
    <3>1. Executed(d, c) = [shown |-> d.shown, lost |-> d.lost \cup {c.id}]
      BY <1>0, <2>1, <2>4 DEF Executed
    <3> QED
      BY <1>0, <2>1, <2>2, <2>4, <3>1 DEF Maps
  <2> QED
    BY <2>3, <2>4
<1>4. CASE c \in Showing
  <2>1. c.op = "panel"
    BY <1>4 DEF Showing
  <2>2. Executed(d, c) = d
    BY <2>1 DEF Executed
  <2>3. c \notin Making /\ c \notin Deleting /\ c \notin Setting
    BY <2>1 DEF Making, Deleting, Setting
  <2> QED
    BY <2>2, <2>3
<1> QED
  BY <1>1, <1>2, <1>3, <1>4 DEF Cmds

-----------------------------------------------------------------------------
(* A mark, and the rest of the map. *)

\* The map but for one mark.
Aside(d, id) == [shown |-> Drop(d.shown, id), lost |-> d.lost \ {id}]

\* Does a command say anything of the mark?
Concerns(c, id) == c.op # "panel" /\ c.id = id

\* What is left of a map without one mark.
LEMMA AsideIn ==
    ASSUME NEW d \in Maps, NEW id
    PROVE  /\ Aside(d, id) \in Maps
           /\ Aside(d, id).lost = d.lost \ {id}
           /\ DOMAIN Aside(d, id).shown = DOMAIN d.shown \ {id}
           /\ \A j \in DOMAIN d.shown \ {id} : Aside(d, id).shown[j] = d.shown[j]
<1>1. d.shown \in Seen /\ d.lost \in SUBSET Nat
  BY DEF Maps
<1> QED
  BY <1>1, DropFrom DEF Aside, Maps

\* What is seen is known from its marks and their looks.
LEMMA SameSeen ==
    ASSUME NEW f \in Seen, NEW g \in Seen, DOMAIN f = DOMAIN g, \A j \in DOMAIN f : f[j] = g[j]
    PROVE  f = g
  BY DEF Seen

\* A map is known from what is left of it without one mark, and without another.
LEMMA TwoAsides ==
    ASSUME NEW d \in Maps, NEW e \in Maps, NEW i, NEW j, i # j,
           Aside(d, i) = Aside(e, i), Aside(d, j) = Aside(e, j)
    PROVE  d = e
<1>0. /\ d = [shown |-> d.shown, lost |-> d.lost] /\ e = [shown |-> e.shown, lost |-> e.lost]
      /\ d.shown \in Seen /\ e.shown \in Seen
  BY DEF Maps
<1>1. d.lost \ {i} = e.lost \ {i} /\ d.lost \ {j} = e.lost \ {j}
  BY AsideIn
<1>2. /\ DOMAIN d.shown \ {i} = DOMAIN e.shown \ {i}
      /\ DOMAIN d.shown \ {j} = DOMAIN e.shown \ {j}
  BY AsideIn
<1>3. d.lost = e.lost
  BY <1>1
<1>4. DOMAIN d.shown = DOMAIN e.shown
  BY <1>2
<1>5. /\ \A k \in DOMAIN d.shown \ {i} : d.shown[k] = e.shown[k]
      /\ \A k \in DOMAIN d.shown \ {j} : d.shown[k] = e.shown[k]
  BY <1>4, AsideIn
<1>6. d.shown = e.shown
  BY <1>0, <1>4, <1>5, SameSeen
<1> QED
  BY <1>0, <1>3, <1>6

\* A mark that is not there.
LEMMA NothingAside ==
    ASSUME NEW d \in Maps, NEW id, id \notin DOMAIN d.shown, id \notin d.lost
    PROVE  Aside(d, id) = d
<1>0. d = [shown |-> d.shown, lost |-> d.lost] /\ d.shown \in Seen
  BY DEF Maps
<1> DEFINE f == Drop(d.shown, id)
<1>1. /\ f \in Seen /\ DOMAIN f = DOMAIN d.shown \ {id}
      /\ \A j \in DOMAIN d.shown \ {id} : f[j] = d.shown[j]
  BY <1>0, DropFrom
<1> HIDE DEF f
<1>2. f = d.shown
  <2>1. DOMAIN f = DOMAIN d.shown /\ \A j \in DOMAIN f : f[j] = d.shown[j]
    BY <1>1
  <2> QED
    BY <1>0, <1>1, <2>1, SameSeen
<1> QED
  BY <1>0, <1>2 DEF Aside, f

\* A command about a mark leaves the rest as it is; another does to the rest what it does.
LEMMA AsideOf ==
    ASSUME NEW d \in Maps, NEW c \in Cmds, NEW id
    PROVE  Aside(Executed(d, c), id)
              = IF Concerns(c, id) THEN Aside(d, id) ELSE Executed(Aside(d, id), c)
<1> DEFINE e == Executed(d, c)
           a == Aside(d, id)
           b == Executed(a, c)
<1>0. /\ d.shown \in Seen /\ d.lost \in SUBSET Nat /\ a \in Maps /\ e \in Maps /\ b \in Maps
      /\ a.shown \in Seen /\ a.shown = Drop(d.shown, id) /\ a.lost = d.lost \ {id}
  BY AsideIn, ExecutedIs DEF Maps, Aside
<1>1. CASE c \in Showing
  <2>1. c.op = "panel" /\ e = d /\ b = a
    BY <1>0, <1>1, ExecutedIs DEF Showing
  <2> QED
    BY <2>1 DEF Concerns
<1>2. CASE c \in Making
  <2>1. c.op # "panel" /\ c.id \in Nat /\ c.look \in Looks
    BY <1>2 DEF Making
  <2> DEFINE f == Put(d.shown, c.id, c.look)
             g == Put(a.shown, c.id, c.look)
  <2>2. e = [shown |-> f, lost |-> d.lost] /\ b = [shown |-> g, lost |-> a.lost]
    BY <1>0, <1>2, ExecutedIs
  <2>3. /\ f \in Seen /\ DOMAIN f = DOMAIN d.shown \cup {c.id} /\ f[c.id] = c.look
        /\ \A j \in DOMAIN d.shown \ {c.id} : f[j] = d.shown[j]
        /\ g \in Seen /\ DOMAIN g = DOMAIN a.shown \cup {c.id} /\ g[c.id] = c.look
        /\ \A j \in DOMAIN a.shown \ {c.id} : g[j] = a.shown[j]
    <3>1. d.shown \in Seen /\ a.shown \in Seen /\ c.id \in Nat /\ c.look \in Looks
      BY <1>0, <2>1
    <3> HIDE DEF a, e, b
    <3>2. IsPut(f, d.shown, c.id, c.look) /\ IsPut(g, a.shown, c.id, c.look)
      BY <3>1, PutIs
    <3> HIDE DEF f, g
    <3> QED
      BY <3>2 DEF IsPut
  <2>4. /\ DOMAIN a.shown = DOMAIN d.shown \ {id}
        /\ \A j \in DOMAIN d.shown \ {id} : a.shown[j] = d.shown[j]
    BY AsideIn
  <2> HIDE DEF f, g, e, b, a
  <2>5. /\ Drop(f, id) \in Seen /\ DOMAIN Drop(f, id) = DOMAIN f \ {id}
        /\ \A j \in DOMAIN f \ {id} : Drop(f, id)[j] = f[j]
    BY <2>3, DropFrom
  <2>6. Aside(e, id) = [shown |-> Drop(f, id), lost |-> a.lost]
    BY <1>0, <2>2 DEF Aside
  <2>7. CASE c.id = id
    <3>1. DOMAIN Drop(f, id) = DOMAIN a.shown
      BY <2>3, <2>4, <2>5, <2>7
    <3>2. \A j \in DOMAIN a.shown : Drop(f, id)[j] = a.shown[j]
      BY <2>3, <2>4, <2>5, <2>7
    <3>3. Drop(f, id) = a.shown
      BY <1>0, <2>5, <3>1, <3>2, SameSeen
    <3>4. Aside(e, id) = a
      BY <1>0, <2>6, <3>3 DEF Maps
    <3> QED
      BY <2>1, <2>7, <3>4 DEF Concerns, e, a
  <2>8. CASE c.id # id
    <3>1. DOMAIN Drop(f, id) = DOMAIN g
      BY <2>3, <2>4, <2>5, <2>8
    <3>2. \A j \in DOMAIN g : Drop(f, id)[j] = g[j]
      BY <2>3, <2>4, <2>5, <2>8
    <3>3. Drop(f, id) = g
      BY <2>3, <2>5, <3>1, <3>2, SameSeen
    <3> QED
      BY <2>2, <2>6, <2>8, <3>3 DEF Concerns, e, a, b
  <2> QED
    BY <2>7, <2>8
<1>3. CASE c \in Deleting
  <2>1. c.op # "panel" /\ c.id \in Nat
    BY <1>3 DEF Deleting
  <2> DEFINE f == Drop(d.shown, c.id)
             g == Drop(a.shown, c.id)
  <2>2. e = [shown |-> f, lost |-> d.lost] /\ b = [shown |-> g, lost |-> a.lost]
    BY <1>0, <1>3, ExecutedIs
  <2>3. /\ f \in Seen /\ DOMAIN f = DOMAIN d.shown \ {c.id}
        /\ \A j \in DOMAIN d.shown \ {c.id} : f[j] = d.shown[j]
        /\ g \in Seen /\ DOMAIN g = DOMAIN a.shown \ {c.id}
        /\ \A j \in DOMAIN a.shown \ {c.id} : g[j] = a.shown[j]
    BY <1>0, <2>1, DropFrom
  <2>4. /\ DOMAIN a.shown = DOMAIN d.shown \ {id}
        /\ \A j \in DOMAIN d.shown \ {id} : a.shown[j] = d.shown[j]
    BY AsideIn
  <2> HIDE DEF f, g, e, b, a
  <2>5. /\ Drop(f, id) \in Seen /\ DOMAIN Drop(f, id) = DOMAIN f \ {id}
        /\ \A j \in DOMAIN f \ {id} : Drop(f, id)[j] = f[j]
    BY <2>3, DropFrom
  <2>6. Aside(e, id) = [shown |-> Drop(f, id), lost |-> a.lost]
    BY <1>0, <2>2 DEF Aside
  <2>7. CASE c.id = id
    <3>1. DOMAIN Drop(f, id) = DOMAIN a.shown
      BY <2>3, <2>4, <2>5, <2>7
    <3>2. \A j \in DOMAIN a.shown : Drop(f, id)[j] = a.shown[j]
      BY <2>3, <2>4, <2>5, <2>7
    <3>3. Drop(f, id) = a.shown
      BY <1>0, <2>5, <3>1, <3>2, SameSeen
    <3>4. Aside(e, id) = a
      BY <1>0, <2>6, <3>3 DEF Maps
    <3> QED
      BY <2>1, <2>7, <3>4 DEF Concerns, e, a
  <2>8. CASE c.id # id
    <3>1. DOMAIN Drop(f, id) = DOMAIN g
      BY <2>3, <2>4, <2>5, <2>8
    <3>2. \A j \in DOMAIN g : Drop(f, id)[j] = g[j]
      BY <2>3, <2>4, <2>5, <2>8
    <3>3. Drop(f, id) = g
      BY <2>3, <2>5, <3>1, <3>2, SameSeen
    <3> QED
      BY <2>2, <2>6, <2>8, <3>3 DEF Concerns, e, a, b
  <2> QED
    BY <2>7, <2>8
<1>4. CASE c \in Setting /\ c.id \notin DOMAIN d.shown
  <2>1. c.op # "panel" /\ c.id \in Nat
    BY <1>4 DEF Setting
  <2>2. c.id \notin DOMAIN a.shown
    BY <1>4, AsideIn
  <2>3. /\ e = [shown |-> d.shown, lost |-> d.lost \cup {c.id}]
        /\ b = [shown |-> a.shown, lost |-> a.lost \cup {c.id}]
    BY <1>0, <1>4, <2>2, ExecutedIs
  <2>4. Aside(e, id) = [shown |-> a.shown, lost |-> (d.lost \cup {c.id}) \ {id}]
    BY <1>0, <2>3 DEF Aside
  <2>5. CASE c.id = id
    <3>1. (d.lost \cup {c.id}) \ {id} = a.lost
      BY <1>0, <2>5
    <3> HIDE DEF a, e, b
    <3>2. Aside(e, id) = a
      BY <1>0, <2>4, <3>1 DEF Maps
    <3> QED
      BY <2>1, <2>5, <3>2 DEF Concerns, e, a
  <2>6. CASE c.id # id
    <3>1. (d.lost \cup {c.id}) \ {id} = a.lost \cup {c.id}
      BY <1>0, <2>6
    <3> HIDE DEF a, e, b
    <3> QED
      BY <2>3, <2>4, <2>6, <3>1 DEF Concerns, e, a, b
  <2> QED
    BY <2>5, <2>6
<1>5. CASE c \in Setting /\ c.id \in DOMAIN d.shown
  <2>1. c.op # "panel" /\ c.id \in Nat /\ c.field \in Fields /\ c.val \in Vals
    BY <1>5 DEF Setting
  <2> DEFINE f == Changed(d.shown, c.id, c.field, c.val)
             g == Changed(a.shown, c.id, c.field, c.val)
  <2>2. e = [shown |-> f, lost |-> d.lost]
    BY <1>5, ExecutedIs
  <2>3. /\ f \in Seen /\ DOMAIN f = DOMAIN d.shown
        /\ f[c.id] = [d.shown[c.id] EXCEPT ![c.field] = c.val]
        /\ \A j \in DOMAIN d.shown \ {c.id} : f[j] = d.shown[j]
    BY <1>0, <1>5, <2>1, ChangedIn
  <2>4. /\ DOMAIN a.shown = DOMAIN d.shown \ {id}
        /\ \A j \in DOMAIN d.shown \ {id} : a.shown[j] = d.shown[j]
    BY AsideIn
  <2> HIDE DEF f, e, b, a
  <2>5. /\ Drop(f, id) \in Seen /\ DOMAIN Drop(f, id) = DOMAIN f \ {id}
        /\ \A j \in DOMAIN f \ {id} : Drop(f, id)[j] = f[j]
    BY <2>3, DropFrom
  <2>6. Aside(e, id) = [shown |-> Drop(f, id), lost |-> a.lost]
    BY <1>0, <2>2 DEF Aside
  <2>7. CASE c.id = id
    <3>1. DOMAIN Drop(f, id) = DOMAIN a.shown
      BY <2>3, <2>4, <2>5
    <3>2. \A j \in DOMAIN a.shown : Drop(f, id)[j] = a.shown[j]
      BY <2>3, <2>4, <2>5, <2>7
    <3>3. Drop(f, id) = a.shown
      BY <1>0, <2>5, <3>1, <3>2, SameSeen
    <3>4. Aside(e, id) = a
      BY <1>0, <2>6, <3>3 DEF Maps
    <3> QED
      BY <2>1, <2>7, <3>4 DEF Concerns, e, a
  <2>8. CASE c.id # id
    <3>0. c.id \in DOMAIN a.shown
      BY <1>5, <2>4, <2>8
    <3>1. b = [shown |-> g, lost |-> a.lost]
      BY <1>0, <1>5, <3>0, ExecutedIs DEF b
    <3>2. /\ g \in Seen /\ DOMAIN g = DOMAIN a.shown
          /\ g[c.id] = [a.shown[c.id] EXCEPT ![c.field] = c.val]
          /\ \A j \in DOMAIN a.shown \ {c.id} : g[j] = a.shown[j]
      BY <1>0, <2>1, <3>0, ChangedIn
    <3> HIDE DEF g
    <3>3. DOMAIN Drop(f, id) = DOMAIN g
      BY <2>3, <2>4, <2>5, <3>2
    <3>4. \A j \in DOMAIN g : Drop(f, id)[j] = g[j]
      <4> TAKE j \in DOMAIN g
      <4>1. j \in DOMAIN a.shown /\ j \in DOMAIN d.shown \ {id} /\ j \in DOMAIN f \ {id}
        BY <2>3, <2>4, <3>2
      <4>2. Drop(f, id)[j] = f[j] /\ a.shown[j] = d.shown[j]
        BY <2>4, <2>5, <4>1
      <4>3. CASE j = c.id
        BY <2>3, <3>2, <4>2, <4>3
      <4>4. CASE j # c.id
        BY <2>3, <3>2, <4>1, <4>2, <4>4
      <4> QED
        BY <4>3, <4>4
    <3>5. Drop(f, id) = g
      BY <2>5, <3>2, <3>3, <3>4, SameSeen
    <3> QED
      BY <2>6, <2>8, <3>1, <3>5 DEF Concerns, e, a, b
  <2> QED
    BY <2>7, <2>8
<1> QED
  BY <1>1, <1>2, <1>3, <1>4, <1>5 DEF Cmds

\* Commands about different marks may change places.
LEMMA TheyCommute ==
    ASSUME NEW d \in Maps, NEW a \in Cmds, NEW b \in Cmds, a.op = "panel" \/ ~Concerns(b, a.id)
    PROVE  Executed(Executed(d, a), b) = Executed(Executed(d, b), a)
<1> DEFINE x == Executed(Executed(d, a), b)
           y == Executed(Executed(d, b), a)
<1>1. /\ Executed(d, a) \in Maps /\ Executed(d, b) \in Maps /\ x \in Maps /\ y \in Maps
  BY ExecutedIs
<1>2. CASE a.op = "panel"
  BY <1>1, <1>2, ExecutedIs, KindOf
<1>3. CASE b.op = "panel"
  BY <1>1, <1>3, ExecutedIs, KindOf
<1>4. CASE a.op # "panel" /\ b.op # "panel"
  <2>1. a.id # b.id /\ Concerns(a, a.id) /\ Concerns(b, b.id) /\ ~Concerns(a, b.id) /\ ~Concerns(b, a.id)
    BY <1>4 DEF Concerns
  <2>2. Aside(d, a.id) \in Maps /\ Aside(d, b.id) \in Maps
    BY AsideIn
  <2>3. Aside(x, a.id) = Executed(Aside(d, a.id), b) /\ Aside(y, a.id) = Executed(Aside(d, a.id), b)
    BY <1>1, <2>1, AsideOf
  <2>4. Aside(x, b.id) = Executed(Aside(d, b.id), a) /\ Aside(y, b.id) = Executed(Aside(d, b.id), a)
    BY <1>1, <2>1, AsideOf
  <2> HIDE DEF x, y
  <2>5. x = y
    BY <1>1, <2>1, <2>3, <2>4, TwoAsides
  <2> QED
    BY <2>5 DEF x, y
<1> QED
  BY <1>2, <1>3, <1>4

-----------------------------------------------------------------------------
(* Commands in order. *)

\* Carried goes through the sequence from its first to its last.
Doing(s) == [p \in (1..Len(s)) \X Maps |-> Executed(p[2], s[p[1]])]

\* It is such a fold.
LEMMA CarriedRuns ==
    ASSUME NEW d \in Maps, NEW s \in Seq(Cmds)
    PROVE  \E it : Carried(d, s) = it[1..Len(s)] /\ Ordered(it, Len(s), Maps, d, Doing(s))
<1> DEFINE Step(c, v) == CHOOSE r \in {Executed(x, c) : x \in {v}} : TRUE
           IsIt(it) == it = [T \in SUBSET DOMAIN s |->
                               IF T = {} THEN d ELSE Step(s[Max(T)], it[T \ {Max(T)}])]
           it == CHOOSE f : IsIt(f)
           n == Len(s)
           op == Doing(s)
<1>1. Carried(d, s) = it[DOMAIN s]
  BY DEF Carried, EachOf, FoldLeft, MapThenFoldSet
<1>2. n \in Nat /\ DOMAIN s = 1..n /\ \A i \in 1..n : s[i] \in Cmds
  OBVIOUS
<1>3. \A c \in Cmds, v \in Maps : Step(c, v) = Executed(v, c) /\ Step(c, v) \in Maps
  <2> TAKE c \in Cmds, v \in Maps
  <2>1. {Executed(x, c) : x \in {v}} = {Executed(v, c)}
    OBVIOUS
  <2>2. Step(c, v) = Executed(v, c)
    BY <2>1
  <2> HIDE DEF Step
  <2> QED
    BY <2>2, ExecutedIs
<1> HIDE DEF Step, n
<1>4. d \in Maps
  OBVIOUS
<1>5. op \in [(1..n) \X Maps -> Maps] /\ \A i \in 1..n, v \in Maps : op[<<i, v>>] = Step(s[i], v)
  <2>1. op = [p \in (1..n) \X Maps |-> Executed(p[2], s[p[1]])]
    BY DEF n, Doing
  <2>2. \A p \in (1..n) \X Maps : s[p[1]] \in Cmds /\ p[2] \in Maps
    BY <1>2
  <2>3. \A p \in (1..n) \X Maps : Executed(p[2], s[p[1]]) = Step(s[p[1]], p[2])
    BY <1>3, <2>2
  <2>4. op = [p \in (1..n) \X Maps |-> Step(s[p[1]], p[2])]
    BY <2>1, <2>3
  <2> HIDE DEF op
  <2> QED
    BY <1>2, <1>3, <2>4
<1> HIDE DEF op
<1>6. \A T \in SUBSET (1..n) : T # {} => Max(T) \in 1..n
  BY <1>2, LastIsThere
<1>7. PICK f \in [SUBSET (1..n) -> Maps] : IsOrdered(f, n, d, op)
  <2> HIDE DEF IsIt, it
  <2> QED
    BY ONLY <1>2, <1>4, <1>5, FoldInOrder
<1>8. IsIt(f)
  <2>1. \A T \in SUBSET (1..n) : T # {} => op[<<Max(T), f[T \ {Max(T)}]>>]
                                            = Step(s[Max(T)], f[T \ {Max(T)}])
    <3>1. \A T \in SUBSET (1..n) : f[T \ {Max(T)}] \in Maps
      OBVIOUS
    <3> QED
      BY <1>5, <1>6, <3>1
  <2> QED
    BY <1>2, <1>7, <2>1 DEF IsOrdered
<1>9. IsIt(it)
  <2> HIDE DEF IsIt
  <2> QED
    BY <1>8
<1>10. Ordered(it, n, Maps, d, op)
  <2> HIDE DEF it
  <2>1. it[{}] = d
    BY <1>9
  <2>2. \A T \in SUBSET (1..n) : T # {} => it[T] = Step(s[Max(T)], it[T \ {Max(T)}])
    BY <1>2, <1>9
  <2> HIDE DEF IsIt
  <2> QED
    BY <1>5, <1>6, <2>1, <2>2 DEF Ordered
<1> HIDE DEF it, IsIt
<1> QED
  BY <1>1, <1>2, <1>10 DEF n, op

\* One command more is executed last.
LEMMA CarriedOfMore ==
    ASSUME NEW d \in Maps, NEW s \in Seq(Cmds), NEW c \in Cmds
    PROVE  /\ Carried(d, s) \in Maps
           /\ Carried(d, Append(s, c)) = Executed(Carried(d, s), c)
<1> DEFINE n == Len(s)
           t == Append(s, c)
           m == Len(t)
           op == Doing(s)
           on == Doing(t)
<1>1. /\ n \in Nat /\ t \in Seq(Cmds) /\ m = n + 1 /\ t[m] = c
      /\ \A i \in 1..n : t[i] = s[i] /\ s[i] \in Cmds
  OBVIOUS
<1>2. PICK it : Carried(d, s) = it[1..n] /\ Ordered(it, n, Maps, d, op)
  BY CarriedRuns
<1>3. PICK jt : Carried(d, t) = jt[1..m] /\ Ordered(jt, m, Maps, d, on)
  <2>1. PICK jt : Carried(d, t) = jt[1..Len(t)] /\ Ordered(jt, Len(t), Maps, d, on)
    <3> HIDE DEF t, on
    <3> QED
      BY <1>1, CarriedRuns DEF on
  <2> QED
    BY <1>1, <2>1
<1> HIDE DEF t, n, m
<1>4. \A x \in Cmds, v \in Maps : Executed(v, x) \in Maps
  BY ExecutedIs
<1>5. /\ op \in [(1..n) \X Maps -> Maps]
      /\ \A i \in 1..n, v \in Maps : op[<<i, v>>] = Executed(v, s[i])
  BY <1>1, <1>4 DEF n, Doing
<1>6. /\ on \in [(1..m) \X Maps -> Maps]
      /\ \A i \in 1..m, v \in Maps : on[<<i, v>>] = Executed(v, t[i])
  <2>1. on = [p \in (1..m) \X Maps |-> Executed(p[2], t[p[1]])]
    BY <1>1 DEF Doing, m
  <2>2. \A i \in 1..m : t[i] \in Cmds
    BY <1>1
  <2> HIDE DEF on
  <2> QED
    BY <1>4, <2>1, <2>2
<1> HIDE DEF op, on
<1>7. \A i \in 1..n, v \in Maps : op[<<i, v>>] = on[<<i, v>>]
  <2> TAKE i \in 1..n, v \in Maps
  <2>1. i \in 1..m /\ t[i] = s[i]
    BY <1>1
  <2>2. op[<<i, v>>] = Executed(v, s[i])
    BY <1>5
  <2>3. on[<<i, v>>] = Executed(v, t[i])
    BY <1>6, <2>1
  <2> QED
    BY <2>1, <2>2, <2>3
<1>8. d \in Maps
  OBVIOUS
<1>9. it[1..n] \in Maps /\ jt[1..m] = on[<<m, it[1..n]>>]
  <2>1. n \in Nat /\ m = n + 1
    BY <1>1
  <2>2. Ordered(it, n, Maps, d, op) /\ Ordered(jt, m, Maps, d, on)
    BY <1>2, <1>3
  <2>3. op \in [(1..n) \X Maps -> Maps] /\ on \in [(1..m) \X Maps -> Maps]
    BY <1>5, <1>6
  <2>4. Begins(op, on, n, m, Maps)
    BY <2>1, <2>3, <1>7 DEF Begins
  <2> DEFINE V == Maps
             base == d
  <2>5. base \in V /\ Begins(op, on, n, m, V) /\ Ordered(it, n, V, base, op) /\ Ordered(jt, m, V, base, on)
    BY <2>2, <2>4, <1>8
  <2> HIDE DEF V, base
  <2>6. it[1..n] \in V /\ jt[1..m] = on[<<m, it[1..n]>>]
    BY ONLY <2>5, FoldOfMore
  <2> QED
    BY <2>6 DEF V
<1>10. m \in 1..m
  BY <1>1
<1>11. on[<<m, it[1..n]>>] = Executed(it[1..n], c)
  BY <1>1, <1>6, <1>9, <1>10
<1> QED
  BY <1>2, <1>3, <1>9, <1>11 DEF t

\* What is kept of a queue but what is about a mark.
Kept(kept, c, id) == IF About(c, id) THEN kept ELSE Append(kept, c)

\* What is kept are commands.
LEMMA KeptIn == \A id : \A kept \in Seq(Cmds), c \in Cmds : Kept(kept, c, id) \in Seq(Cmds)
  BY DEF Kept

\* Without goes through the sequence from its first to its last.
Keeping(s, id) == [p \in (1..Len(s)) \X Seq(Cmds) |-> Kept(p[2], s[p[1]], id)]

\* It is such a fold.
LEMMA WithoutRuns ==
    ASSUME NEW id, NEW s \in Seq(Cmds)
    PROVE  \E it : Without(s, id) = it[1..Len(s)] /\ Ordered(it, Len(s), Seq(Cmds), <<>>, Keeping(s, id))
<1> DEFINE Step(c, v) == CHOOSE r \in {Kept(x, c, id) : x \in {v}} : TRUE
           IsIt(it) == it = [T \in SUBSET DOMAIN s |->
                               IF T = {} THEN <<>> ELSE Step(s[Max(T)], it[T \ {Max(T)}])]
           it == CHOOSE f : IsIt(f)
           n == Len(s)
           op == Keeping(s, id)
<1>1. Without(s, id) = it[DOMAIN s]
  BY DEF Without, Kept, EachOf, FoldLeft, MapThenFoldSet
<1>2. n \in Nat /\ DOMAIN s = 1..n /\ \A i \in 1..n : s[i] \in Cmds
  OBVIOUS
<1>3. \A c \in Cmds, v \in Seq(Cmds) : Step(c, v) = Kept(v, c, id) /\ Step(c, v) \in Seq(Cmds)
  <2> TAKE c \in Cmds, v \in Seq(Cmds)
  <2>1. {Kept(x, c, id) : x \in {v}} = {Kept(v, c, id)}
    OBVIOUS
  <2>2. Step(c, v) = Kept(v, c, id)
    BY <2>1
  <2> HIDE DEF Step
  <2> QED
    BY <2>2, KeptIn
<1> HIDE DEF Step, n
<1>4. <<>> \in Seq(Cmds)
  OBVIOUS
<1>5. op \in [(1..n) \X Seq(Cmds) -> Seq(Cmds)] /\ \A i \in 1..n, v \in Seq(Cmds) : op[<<i, v>>] = Step(s[i], v)
  <2>1. op = [p \in (1..n) \X Seq(Cmds) |-> Kept(p[2], s[p[1]], id)]
    BY DEF n, Keeping
  <2>2. \A p \in (1..n) \X Seq(Cmds) : s[p[1]] \in Cmds /\ p[2] \in Seq(Cmds)
    BY <1>2
  <2>3. \A p \in (1..n) \X Seq(Cmds) : Kept(p[2], s[p[1]], id) = Step(s[p[1]], p[2])
    BY <1>3, <2>2
  <2>4. op = [p \in (1..n) \X Seq(Cmds) |-> Step(s[p[1]], p[2])]
    BY <2>1, <2>3
  <2> HIDE DEF op
  <2> QED
    BY <1>2, <1>3, <2>4
<1> HIDE DEF op
<1>6. \A T \in SUBSET (1..n) : T # {} => Max(T) \in 1..n
  BY <1>2, LastIsThere
<1>7. PICK f \in [SUBSET (1..n) -> Seq(Cmds)] : IsOrdered(f, n, <<>>, op)
  <2> HIDE DEF IsIt, it
  <2> QED
    BY ONLY <1>2, <1>4, <1>5, FoldInOrder
<1>8. IsIt(f)
  <2>1. \A T \in SUBSET (1..n) : T # {} => op[<<Max(T), f[T \ {Max(T)}]>>]
                                            = Step(s[Max(T)], f[T \ {Max(T)}])
    <3>1. \A T \in SUBSET (1..n) : f[T \ {Max(T)}] \in Seq(Cmds)
      OBVIOUS
    <3> QED
      BY <1>5, <1>6, <3>1
  <2> QED
    BY <1>2, <1>7, <2>1 DEF IsOrdered
<1>9. IsIt(it)
  <2> HIDE DEF IsIt
  <2> QED
    BY <1>8
<1>10. Ordered(it, n, Seq(Cmds), <<>>, op)
  <2> HIDE DEF it
  <2>1. it[{}] = <<>>
    BY <1>9
  <2>2. \A T \in SUBSET (1..n) : T # {} => it[T] = Step(s[Max(T)], it[T \ {Max(T)}])
    BY <1>2, <1>9
  <2> HIDE DEF IsIt
  <2> QED
    BY <1>5, <1>6, <2>1, <2>2 DEF Ordered
<1> HIDE DEF it, IsIt
<1> QED
  BY <1>1, <1>2, <1>10 DEF n, op

\* One command more is kept last, or not.
LEMMA WithoutOfMore ==
    ASSUME NEW id, NEW s \in Seq(Cmds), NEW c \in Cmds
    PROVE  /\ Without(s, id) \in Seq(Cmds)
           /\ Without(Append(s, c), id) = Kept(Without(s, id), c, id)
<1> DEFINE n == Len(s)
           t == Append(s, c)
           m == Len(t)
           op == Keeping(s, id)
           on == Keeping(t, id)
<1>1. /\ n \in Nat /\ t \in Seq(Cmds) /\ m = n + 1 /\ t[m] = c
      /\ \A i \in 1..n : t[i] = s[i] /\ s[i] \in Cmds
  OBVIOUS
<1>2. PICK it : Without(s, id) = it[1..n] /\ Ordered(it, n, Seq(Cmds), <<>>, op)
  BY WithoutRuns
<1>3. PICK jt : Without(t, id) = jt[1..m] /\ Ordered(jt, m, Seq(Cmds), <<>>, on)
  <2>1. PICK jt : Without(t, id) = jt[1..Len(t)] /\ Ordered(jt, Len(t), Seq(Cmds), <<>>, on)
    <3> HIDE DEF t, on
    <3> QED
      BY <1>1, WithoutRuns DEF on
  <2> QED
    BY <1>1, <2>1
<1> HIDE DEF t, n, m
<1>4. \A x \in Cmds, v \in Seq(Cmds) : Kept(v, x, id) \in Seq(Cmds)
  BY KeptIn
<1>5. /\ op \in [(1..n) \X Seq(Cmds) -> Seq(Cmds)]
      /\ \A i \in 1..n, v \in Seq(Cmds) : op[<<i, v>>] = Kept(v, s[i], id)
  BY <1>1, <1>4 DEF n, Keeping
<1>6. /\ on \in [(1..m) \X Seq(Cmds) -> Seq(Cmds)]
      /\ \A i \in 1..m, v \in Seq(Cmds) : on[<<i, v>>] = Kept(v, t[i], id)
  <2>1. on = [p \in (1..m) \X Seq(Cmds) |-> Kept(p[2], t[p[1]], id)]
    BY <1>1 DEF Keeping, m
  <2>2. \A i \in 1..m : t[i] \in Cmds
    BY <1>1
  <2> HIDE DEF on
  <2> QED
    BY <1>4, <2>1, <2>2
<1> HIDE DEF op, on
<1>7. \A i \in 1..n, v \in Seq(Cmds) : op[<<i, v>>] = on[<<i, v>>]
  <2> TAKE i \in 1..n, v \in Seq(Cmds)
  <2>1. i \in 1..m /\ t[i] = s[i]
    BY <1>1
  <2>2. op[<<i, v>>] = Kept(v, s[i], id)
    BY <1>5
  <2>3. on[<<i, v>>] = Kept(v, t[i], id)
    BY <1>6, <2>1
  <2> QED
    BY <2>1, <2>2, <2>3
<1>8. <<>> \in Seq(Cmds)
  OBVIOUS
<1>9. it[1..n] \in Seq(Cmds) /\ jt[1..m] = on[<<m, it[1..n]>>]
  <2>1. n \in Nat /\ m = n + 1
    BY <1>1
  <2>2. Ordered(it, n, Seq(Cmds), <<>>, op) /\ Ordered(jt, m, Seq(Cmds), <<>>, on)
    BY <1>2, <1>3
  <2>3. op \in [(1..n) \X Seq(Cmds) -> Seq(Cmds)] /\ on \in [(1..m) \X Seq(Cmds) -> Seq(Cmds)]
    BY <1>5, <1>6
  <2>4. Begins(op, on, n, m, Seq(Cmds))
    BY <2>1, <2>3, <1>7 DEF Begins
  <2> DEFINE V == Seq(Cmds)
             base == <<>>
  <2>5. base \in V /\ Begins(op, on, n, m, V) /\ Ordered(it, n, V, base, op) /\ Ordered(jt, m, V, base, on)
    BY <2>2, <2>4, <1>8
  <2> HIDE DEF V, base
  <2>6. it[1..n] \in V /\ jt[1..m] = on[<<m, it[1..n]>>]
    BY ONLY <2>5, FoldOfMore
  <2> QED
    BY <2>6 DEF V
<1>10. m \in 1..m
  BY <1>1
<1>11. on[<<m, it[1..n]>>] = Kept(it[1..n], c, id)
  BY <1>1, <1>6, <1>9, <1>10
<1> QED
  BY <1>2, <1>3, <1>9, <1>11 DEF t

\* Without commands the map stays.
LEMMA CarriedOfNone == \A d \in Maps : Carried(d, <<>>) = d
<1> TAKE d \in Maps
<1> DEFINE s == <<>>
<1>1. s \in Seq(Cmds) /\ Len(s) = 0
  OBVIOUS
<1>2. PICK it : Carried(d, s) = it[1..Len(s)] /\ Ordered(it, Len(s), Maps, d, Doing(s))
  <2> HIDE DEF s
  <2> QED
    BY <1>1, CarriedRuns
<1>3. 1..Len(s) = {}
  OBVIOUS
<1> QED
  BY <1>2, <1>3 DEF Ordered

\* Nothing is kept of nothing.
LEMMA WithoutOfNone == \A id : Without(<<>>, id) = <<>>
<1> TAKE id
<1> DEFINE s == <<>>
<1>1. s \in Seq(Cmds) /\ Len(s) = 0
  OBVIOUS
<1>2. PICK it : /\ Without(s, id) = it[1..Len(s)]
                /\ Ordered(it, Len(s), Seq(Cmds), <<>>, Keeping(s, id))
  <2> HIDE DEF s
  <2> QED
    BY <1>1, WithoutRuns
<1>3. 1..Len(s) = {}
  OBVIOUS
<1> QED
  BY <1>2, <1>3 DEF Ordered

\* A panel is a command: there are commands.
LEMMA APanel == [op |-> "panel"] \in Cmds
  BY DEF Cmds, Showing

\* Commands make a map of a map.
LEMMA CarriedIn == \A d \in Maps, s \in Seq(Cmds) : Carried(d, s) \in Maps
  BY APanel, CarriedOfMore

\* What is kept of commands are commands.
LEMMA WithoutIn == \A id : \A s \in Seq(Cmds) : Without(s, id) \in Seq(Cmds)
  BY APanel, WithoutOfMore

\* Two sequences, the second one longer.
LEMMA MoreBehind ==
    ASSUME NEW S, NEW s \in Seq(S), NEW t \in Seq(S), NEW e \in S
    PROVE  s \o Append(t, e) = Append(s \o t, e) /\ s \o t \in Seq(S)
<1>1. Append(t, e) = t \o <<e>> /\ <<e>> \in Seq(S)
  BY AppendIsConcat
<1>2. s \o t \in Seq(S)
  BY ConcatProperties
<1>3. Append(s \o t, e) = (s \o t) \o <<e>>
  BY <1>2, AppendIsConcat
<1>4. s \o (t \o <<e>>) = (s \o t) \o <<e>>
  BY <1>1, ConcatAssociative
<1> QED
  BY <1>1, <1>2, <1>3, <1>4

\* A sequence with nothing behind it.
LEMMA NothingBehind ==
    ASSUME NEW S, NEW s \in Seq(S)
    PROVE  s \o <<>> = s
  BY ConcatEmptySeq

\* One sequence of commands after another.
LEMMA CarriedBoth ==
    ASSUME NEW d \in Maps, NEW s \in Seq(Cmds)
    PROVE  \A t \in Seq(Cmds) : Carried(d, s \o t) = Carried(Carried(d, s), t)
<1> DEFINE P == {t \in Seq(Cmds) : Carried(d, s \o t) = Carried(Carried(d, s), t)}
<1>1. <<>> \in P
  <2>1. <<>> \in Seq(Cmds) /\ s \o <<>> = s /\ Carried(d, s) \in Maps
    BY CarriedIn, NothingBehind
  <2> QED
    BY <2>1, CarriedOfNone
<1>2. ASSUME NEW t \in Seq(Cmds), NEW e \in Cmds, t \in P
      PROVE  Append(t, e) \in P
  <2>1. s \o Append(t, e) = Append(s \o t, e) /\ s \o t \in Seq(Cmds) /\ Append(t, e) \in Seq(Cmds)
    BY MoreBehind
  <2>2. Carried(d, s \o Append(t, e)) = Executed(Carried(d, s \o t), e)
    <3> DEFINE u == s \o t
    <3>1. u \in Seq(Cmds)
      BY <2>1
    <3> HIDE DEF u, P
    <3>2. Carried(d, Append(u, e)) = Executed(Carried(d, u), e)
      BY <3>1, CarriedOfMore
    <3> QED
      BY <2>1, <3>2 DEF u
  <2>3. Carried(d, s) \in Maps
    BY CarriedIn
  <2>4. Carried(Carried(d, s), Append(t, e)) = Executed(Carried(Carried(d, s), t), e)
    BY <2>3, CarriedOfMore
  <2> QED
    BY <1>2, <2>1, <2>2, <2>4
<1> HIDE DEF P
<1>3. \A t \in Seq(Cmds) : t \in P
  BY <1>1, <1>2, SeqInduction
<1> QED
  BY <1>3 DEF P

\* What is kept of one sequence after another.
LEMMA WithoutBoth ==
    ASSUME NEW id, NEW s \in Seq(Cmds)
    PROVE  \A t \in Seq(Cmds) : Without(s \o t, id) = Without(s, id) \o Without(t, id)
<1> DEFINE P == {t \in Seq(Cmds) : Without(s \o t, id) = Without(s, id) \o Without(t, id)}
<1>0. Without(s, id) \in Seq(Cmds)
  BY WithoutIn
<1>1. <<>> \in P
  <2>1. <<>> \in Seq(Cmds) /\ s \o <<>> = s /\ Without(s, id) \o <<>> = Without(s, id)
    BY <1>0, NothingBehind
  <2> QED
    BY <2>1, WithoutOfNone
<1>2. ASSUME NEW t \in Seq(Cmds), NEW e \in Cmds, t \in P
      PROVE  Append(t, e) \in P
  <2>1. s \o Append(t, e) = Append(s \o t, e) /\ s \o t \in Seq(Cmds) /\ Append(t, e) \in Seq(Cmds)
    BY MoreBehind
  <2>2. Without(s \o Append(t, e), id) = Kept(Without(s \o t, id), e, id)
    BY <2>1, WithoutOfMore
  <2>3. Without(Append(t, e), id) = Kept(Without(t, id), e, id) /\ Without(t, id) \in Seq(Cmds)
    BY WithoutOfMore
  <2>4. Without(s, id) \o Append(Without(t, id), e) = Append(Without(s, id) \o Without(t, id), e)
    BY <1>0, <2>3, MoreBehind
  <2> QED
    BY <1>2, <2>1, <2>2, <2>3, <2>4 DEF Kept
<1> HIDE DEF P
<1>3. \A t \in Seq(Cmds) : t \in P
  BY <1>1, <1>2, SeqInduction
<1> QED
  BY <1>3 DEF P

\* A sequence of some of the commands is one of commands.
LEMMA SomeCmds ==
    ASSUME NEW S \in SUBSET Cmds, NEW s \in Seq(S)
    PROVE  s \in Seq(Cmds)
  OBVIOUS

\* Commands about other marks than c's.
Others(c) == {e \in Cmds : c.op = "panel" \/ ~Concerns(e, c.id)}

\* A command that overtakes others about other marks does what it does at their end.
LEMMA ItOvertakes ==
    ASSUME NEW d \in Maps, NEW c \in Cmds
    PROVE  \A t \in Seq(Others(c)) : Carried(Executed(d, c), t) = Executed(Carried(d, t), c)
<1> DEFINE P == {t \in Seq(Others(c)) : Carried(Executed(d, c), t) = Executed(Carried(d, t), c)}
<1>0. Executed(d, c) \in Maps /\ Others(c) \in SUBSET Cmds
  BY ExecutedIs DEF Others
<1>1. <<>> \in P
  BY <1>0, CarriedOfNone
<1>2. ASSUME NEW t \in Seq(Others(c)), NEW e \in Others(c), t \in P
      PROVE  Append(t, e) \in P
  <2>1. t \in Seq(Cmds) /\ e \in Cmds /\ (c.op = "panel" \/ ~Concerns(e, c.id)) /\ Append(t, e) \in Seq(Others(c))
    BY <1>0, SomeCmds DEF Others
  <2>2. Carried(d, t) \in Maps /\ Carried(d, Append(t, e)) = Executed(Carried(d, t), e)
    BY <2>1, CarriedOfMore
  <2>3. Carried(Executed(d, c), Append(t, e)) = Executed(Executed(Carried(d, t), c), e)
    BY <1>0, <1>2, <2>1, CarriedOfMore
  <2>4. Executed(Executed(Carried(d, t), c), e) = Executed(Executed(Carried(d, t), e), c)
    BY <2>1, <2>2, TheyCommute
  <2> QED
    BY <2>1, <2>2, <2>3, <2>4
<1> HIDE DEF P
<1>3. \A t \in Seq(Others(c)) : t \in P
  BY <1>1, <1>2, SeqInduction
<1> QED
  BY <1>3 DEF P

\* The rest of the map does not depend on what is queued about a mark.
LEMMA RestWithout ==
    ASSUME NEW d \in Maps, NEW id
    PROVE  \A s \in Seq(Cmds) : Aside(Carried(d, Without(s, id)), id) = Aside(Carried(d, s), id)
<1> DEFINE P == {s \in Seq(Cmds) : Aside(Carried(d, Without(s, id)), id) = Aside(Carried(d, s), id)}
<1>1. <<>> \in P
  BY WithoutOfNone
<1>2. ASSUME NEW s \in Seq(Cmds), NEW e \in Cmds, s \in P
      PROVE  Append(s, e) \in P
  <2>0. Append(s, e) \in Seq(Cmds) /\ Without(s, id) \in Seq(Cmds) /\ Carried(d, s) \in Maps
        /\ Carried(d, Without(s, id)) \in Maps
    BY WithoutIn, CarriedIn
  <2>1. Carried(d, Append(s, e)) = Executed(Carried(d, s), e)
    BY CarriedOfMore
  <2>2. Without(Append(s, e), id) = Kept(Without(s, id), e, id)
    BY WithoutOfMore
  <2>3. CASE About(e, id)
    <3>1. Concerns(e, id)
      BY <2>3 DEF About, Concerns
    <3>2. Aside(Executed(Carried(d, s), e), id) = Aside(Carried(d, s), id)
      BY <2>0, <3>1, AsideOf
    <3> QED
      BY <1>2, <2>0, <2>1, <2>2, <2>3, <3>2 DEF Kept
  <2>4. CASE ~About(e, id)
    <3>1. Carried(d, Without(Append(s, e), id)) = Executed(Carried(d, Without(s, id)), e)
      BY <2>0, <2>2, <2>4, CarriedOfMore DEF Kept
    <3>2. Aside(Executed(Carried(d, Without(s, id)), e), id) = Aside(Executed(Carried(d, s), e), id)
      BY <1>2, <2>0, AsideOf
    <3> QED
      BY <2>0, <2>1, <3>1, <3>2
  <2> QED
    BY <2>3, <2>4
<1> HIDE DEF P
<1>3. \A s \in Seq(Cmds) : s \in P
  BY <1>1, <1>2, SeqInduction
<1> QED
  BY <1>3 DEF P

Makes(c) == c.op \in {"pin", "draw"}

\* A mark that is seen after a command was seen before, or the command makes it.
LEMMA SeenAfter ==
    ASSUME NEW d \in Maps, NEW e \in Cmds, NEW j \in DOMAIN Executed(d, e).shown
    PROVE  j \in DOMAIN d.shown \/ (Makes(e) /\ e.id = j)
<1> DEFINE now == Executed(d, e).shown
           seen == d.shown
<1>0. seen \in Seen
  BY DEF Maps
<1>1. CASE e \in Making
  <2>1. Makes(e) /\ e.id \in Nat /\ e.look \in Looks
    BY <1>1 DEF Making, Makes
  <2>2. now = Put(seen, e.id, e.look)
    BY <1>1, ExecutedIs
  <2>3. j \in DOMAIN now
    OBVIOUS
  <2> HIDE DEF now
  <2>4. IsPut(Put(seen, e.id, e.look), seen, e.id, e.look)
    BY <1>0, <2>1, PutIs
  <2> HIDE DEF seen
  <2>5. DOMAIN now = DOMAIN seen \cup {e.id}
    BY <2>2, <2>4 DEF IsPut
  <2>6. j \in DOMAIN seen \/ j = e.id
    BY <2>3, <2>5
  <2> QED
    BY <2>1, <2>6 DEF seen
<1>2. CASE e \in Deleting
  <2>1. now = Drop(seen, e.id)
    BY <1>2, ExecutedIs
  <2>2. j \in DOMAIN now
    OBVIOUS
  <2> HIDE DEF now
  <2>3. DOMAIN Drop(seen, e.id) = DOMAIN seen \ {e.id}
    BY <1>0, DropFrom
  <2> HIDE DEF seen
  <2>4. j \in DOMAIN seen
    BY <2>1, <2>2, <2>3
  <2> QED
    BY <2>4 DEF seen
<1>3. CASE e \in Setting /\ e.id \in DOMAIN seen
  <2>1. e.field \in Fields /\ e.val \in Vals
    BY <1>3 DEF Setting
  <2>2. now = Changed(seen, e.id, e.field, e.val)
    BY <1>3, ExecutedIs
  <2>3. j \in DOMAIN now
    OBVIOUS
  <2> HIDE DEF now, seen
  <2>4. IsChanged(Changed(seen, e.id, e.field, e.val), seen, e.id, e.field, e.val)
    BY <1>0, <1>3, <2>1, ChangedIs
  <2>5. j \in DOMAIN seen
    BY <2>2, <2>3, <2>4 DEF IsChanged
  <2> QED
    BY <2>5 DEF seen
<1>4. CASE e \in Setting /\ e.id \notin DOMAIN seen
  <2>1. Executed(d, e) = [shown |-> seen, lost |-> d.lost \cup {e.id}]
    BY <1>4, ExecutedIs
  <2>2. now = seen
    BY <2>1
  <2> QED
    BY <2>2
<1>5. CASE e \in Showing
  <2>1. Executed(d, e) = d
    BY <1>5, ExecutedIs
  <2> QED
    BY <2>1
<1> QED
  BY <1>1, <1>2, <1>3, <1>4, <1>5 DEF Cmds

\* Marks come from commands that make them.
LEMMA SeenIsMade ==
    ASSUME NEW d \in Maps, NEW M
    PROVE  \A s \in Seq({c \in Cmds : Makes(c) => c.id \in M}) :
              DOMAIN Carried(d, s).shown \subseteq DOMAIN d.shown \cup M
<1> DEFINE C == {c \in Cmds : Makes(c) => c.id \in M}
           P == {s \in Seq(C) : DOMAIN Carried(d, s).shown \subseteq DOMAIN d.shown \cup M}
<1>1. <<>> \in P
  BY CarriedOfNone
<1>2. ASSUME NEW s \in Seq(C), NEW e \in C, s \in P
      PROVE  Append(s, e) \in P
  <2>1. s \in Seq(Cmds) /\ e \in Cmds /\ (Makes(e) => e.id \in M) /\ Append(s, e) \in Seq(C)
    BY SomeCmds
  <2> DEFINE was == Carried(d, s)
             is == Executed(was, e)
  <2>2. was \in Maps /\ Carried(d, Append(s, e)) = is
    BY <2>1, CarriedOfMore
  <2>3. DOMAIN was.shown \subseteq DOMAIN d.shown \cup M
    BY <1>2
  <2> HIDE DEF was, C
  <2>4. DOMAIN is.shown \subseteq DOMAIN was.shown \cup M
    BY <2>1, <2>2, SeenAfter
  <2> QED
    BY <2>1, <2>2, <2>3, <2>4
<1>3. \A s \in Seq(C) : s \in P
  <2> HIDE DEF P, C
  <2> QED
    BY <1>1, <1>2, SeqInduction
<1> QED
  BY <1>3

\* What is lost was to be changed.
LEMMA LostIs ==
    ASSUME NEW d \in Maps, NEW c \in Cmds
    PROVE  \/ Executed(d, c).lost = d.lost
           \/ c.op = "set" /\ Executed(d, c).lost = d.lost \cup {c.id}
<1>1. CASE c \in Setting /\ c.id \in DOMAIN d.shown
  <2>1. Executed(d, c) = [shown |-> Changed(d.shown, c.id, c.field, c.val), lost |-> d.lost]
    BY <1>1, ExecutedIs
  <2> QED
    BY <2>1
<1>2. CASE c \in Setting /\ c.id \notin DOMAIN d.shown
  <2>1. Executed(d, c) = [shown |-> d.shown, lost |-> d.lost \cup {c.id}] /\ c.op = "set"
    BY <1>2, ExecutedIs DEF Setting
  <2> QED
    BY <2>1
<1>3. CASE c \in Making
  <2>1. Executed(d, c) = [shown |-> Put(d.shown, c.id, c.look), lost |-> d.lost]
    BY <1>3, ExecutedIs
  <2> QED
    BY <2>1
<1>4. CASE c \in Deleting
  <2>1. Executed(d, c) = [shown |-> Drop(d.shown, c.id), lost |-> d.lost]
    BY <1>4, ExecutedIs
  <2> QED
    BY <2>1
<1>5. CASE c \in Showing
  <2>1. Executed(d, c) = d
    BY <1>5, ExecutedIs
  <2> QED
    BY <2>1
<1> QED
  BY <1>1, <1>2, <1>3, <1>4, <1>5 DEF Cmds

\* What is to be lost is changed by some command.
LEMMA LostIsSet ==
    ASSUME NEW d \in Maps, NEW id, id \notin d.lost
    PROVE  \A s \in Seq({c \in Cmds : c.op = "set" => c.id # id}) : id \notin Carried(d, s).lost
<1> DEFINE C == {c \in Cmds : c.op = "set" => c.id # id}
           P == {s \in Seq(C) : id \notin Carried(d, s).lost}
<1>1. <<>> \in P
  BY CarriedOfNone
<1>2. ASSUME NEW s \in Seq(C), NEW e \in C, s \in P
      PROVE  Append(s, e) \in P
  <2>1. s \in Seq(Cmds) /\ e \in Cmds /\ (e.op = "set" => e.id # id) /\ Append(s, e) \in Seq(C)
    BY SomeCmds
  <2>2. Carried(d, s) \in Maps /\ Carried(d, Append(s, e)) = Executed(Carried(d, s), e)
    BY <2>1, CarriedOfMore
  <2>3. id \notin Executed(Carried(d, s), e).lost
    BY <1>2, <2>1, <2>2, LostIs
  <2> QED
    BY <2>1, <2>2, <2>3
<1>3. \A s \in Seq(C) : s \in P
  <2> HIDE DEF P, C
  <2> QED
    BY <1>1, <1>2, SeqInduction
<1> QED
  BY <1>3

\* What is lost stays lost.
LEMMA LostStays ==
    ASSUME NEW d \in Maps
    PROVE  \A s \in Seq(Cmds) : d.lost \subseteq Carried(d, s).lost
<1> DEFINE P == {s \in Seq(Cmds) : d.lost \subseteq Carried(d, s).lost}
<1>1. <<>> \in P
  BY CarriedOfNone
<1>2. ASSUME NEW s \in Seq(Cmds), NEW e \in Cmds, s \in P
      PROVE  Append(s, e) \in P
  <2>1. Carried(d, s) \in Maps /\ Carried(d, Append(s, e)) = Executed(Carried(d, s), e)
    BY CarriedOfMore
  <2>2. Carried(d, s).lost \subseteq Executed(Carried(d, s), e).lost
    BY <2>1, LostIs
  <2> QED
    BY <1>2, <2>1, <2>2
<1> HIDE DEF P
<1>3. \A s \in Seq(Cmds) : s \in P
  BY <1>1, <1>2, SeqInduction
<1> QED
  BY <1>3 DEF P

\* What is left of a sequence when some of it is taken out.
Thins(t, s) ==
    \E place \in [DOMAIN t -> DOMAIN s] :
       /\ \A i \in DOMAIN t : t[i] = s[place[i]]
       /\ \A i, k \in DOMAIN t : place[i] = place[k] => i = k

\* What is kept is thinned out, and nothing of it draws or changes the mark.
LEMMA WithoutThins ==
    ASSUME NEW id
    PROVE  \A s \in Seq(Cmds) : /\ Thins(Without(s, id), s)
                                /\ \A i \in DOMAIN Without(s, id) : ~About(Without(s, id)[i], id)
<1> DEFINE P == {s \in Seq(Cmds) : /\ Thins(Without(s, id), s)
                                   /\ \A i \in DOMAIN Without(s, id) : ~About(Without(s, id)[i], id)}
<1>1. <<>> \in P
  <2>1. Without(<<>>, id) = <<>> /\ DOMAIN <<>> = {} /\ <<>> \in Seq(Cmds)
    BY WithoutOfNone
  <2>2. [i \in {} |-> i] \in [{} -> {}]
    OBVIOUS
  <2>3. Thins(<<>>, <<>>)
    BY <2>1, <2>2 DEF Thins
  <2> QED
    BY <2>1, <2>3
<1>2. ASSUME NEW s \in Seq(Cmds), NEW e \in Cmds, s \in P
      PROVE  Append(s, e) \in P
  <2> DEFINE w == Without(s, id)
             v == Without(Append(s, e), id)
  <2>1. w \in Seq(Cmds) /\ v = Kept(w, e, id)
    BY WithoutOfMore
  <2>2. Thins(w, s) /\ \A i \in DOMAIN w : ~About(w[i], id)
    BY <1>2
  <2> HIDE DEF w, v
  <2>3. PICK place \in [DOMAIN w -> DOMAIN s] :
           /\ \A i \in DOMAIN w : w[i] = s[place[i]]
           /\ \A i, k \in DOMAIN w : place[i] = place[k] => i = k
    BY <2>2 DEF Thins
  <2> DEFINE n == Len(s)
             m == Len(w)
  <2>4. /\ n \in Nat /\ m \in Nat /\ DOMAIN s = 1..n /\ DOMAIN w = 1..m
        /\ DOMAIN Append(s, e) = 1..n + 1 /\ Append(s, e)[n + 1] = e
        /\ \A i \in 1..n : Append(s, e)[i] = s[i]
        /\ DOMAIN Append(w, e) = 1..m + 1 /\ Append(w, e)[m + 1] = e
        /\ \A i \in 1..m : Append(w, e)[i] = w[i]
    BY <2>1
  <2> HIDE DEF n, m
  <2>5. CASE About(e, id)
    <3>1. v = w
      BY <2>1, <2>5 DEF Kept
    <3>2. place \in [DOMAIN w -> DOMAIN Append(s, e)] /\ \A i \in DOMAIN w : w[i] = Append(s, e)[place[i]]
      BY <2>3, <2>4
    <3>3. Thins(v, Append(s, e))
      BY <2>3, <3>1, <3>2 DEF Thins
    <3> QED
      BY <2>2, <3>1, <3>3 DEF v
  <2>6. CASE ~About(e, id)
    <3>1. v = Append(w, e)
      BY <2>1, <2>6 DEF Kept
    <3> DEFINE there == [i \in 1..m + 1 |-> IF i \in 1..m THEN place[i] ELSE n + 1]
    <3>2. /\ there \in [DOMAIN v -> DOMAIN Append(s, e)]
          /\ \A i \in DOMAIN v : v[i] = Append(s, e)[there[i]]
      <4>1. \A i \in 1..m : there[i] \in 1..n /\ there[i] = place[i] /\ i # m + 1
        BY <2>3, <2>4
      <4>2. there[m + 1] = n + 1 /\ \A i \in 1..m + 1 : i \in 1..m \/ i = m + 1
        BY <2>4
      <4>3. \A i \in 1..m + 1 : there[i] \in 1..n + 1 /\ Append(w, e)[i] = Append(s, e)[there[i]]
        BY <2>3, <2>4, <4>1, <4>2
      <4> QED
        BY <2>4, <3>1, <4>3
    <3>3. \A i, k \in DOMAIN v : there[i] = there[k] => i = k
      <4>1. \A i \in 1..m : there[i] \in 1..n /\ there[i] = place[i]
        BY <2>3, <2>4
      <4>2. there[m + 1] = n + 1 /\ (n + 1) \notin 1..n /\ \A i \in 1..m + 1 : i \in 1..m \/ i = m + 1
        BY <2>4
      <4> HIDE DEF there
      <4>3. \A i, k \in 1..m : there[i] = there[k] => i = k
        BY <2>3, <2>4, <4>1
      <4>4. \A i \in 1..m : there[i] # there[m + 1]
        BY <4>1, <4>2
      <4>5. \A i, k \in 1..m + 1 : there[i] = there[k] => i = k
        <5> TAKE i, k \in 1..m + 1
        <5>1. (i \in 1..m \/ i = m + 1) /\ (k \in 1..m \/ k = m + 1)
          BY <4>2
        <5> QED
          BY <4>3, <4>4, <5>1
      <4> QED
        BY <2>4, <3>1, <4>5
    <3> HIDE DEF there
    <3>4. Thins(v, Append(s, e))
      BY <3>2, <3>3 DEF Thins
    <3>5. \A i \in DOMAIN v : ~About(v[i], id)
      <4>1. \A i \in 1..m + 1 : i \in 1..m \/ i = m + 1
        BY <2>4
      <4> QED
        BY <2>2, <2>4, <2>6, <3>1, <4>1
    <3> QED
      BY <3>4, <3>5 DEF v
  <2> QED
    BY <2>5, <2>6
<1>3. \A s \in Seq(Cmds) : s \in P
  <2> HIDE DEF P
  <2> QED
    BY <1>1, <1>2, SeqInduction
<1> QED
  BY <1>3

-----------------------------------------------------------------------------
(* The three queues. *)

\* The map when all that is queued has been sent.
Final(q, d) == Carried(d, Waiting(q))

\* It is what the first queue makes of the map, then the second, then the third.
LEMMA FinalIs ==
    ASSUME NEW q \in Queues, NEW d \in Maps
    PROVE  /\ Waiting(q) \in Seq(Cmds) /\ Final(q, d) \in Maps
           /\ Final(q, d) = Carried(Carried(Carried(d, q[1]), q[2]), q[3])
<1>1. q[1] \in Seq(Cmds) /\ q[2] \in Seq(Cmds) /\ q[3] \in Seq(Cmds)
  BY DEF Queues
<1>2. q[1] \o q[2] \in Seq(Cmds) /\ (q[1] \o q[2]) \o q[3] \in Seq(Cmds)
  BY <1>1, ConcatProperties
<1>3. Waiting(q) = (q[1] \o q[2]) \o q[3]
  BY DEF Waiting
<1>4. Carried(d, Waiting(q)) = Carried(Carried(d, q[1] \o q[2]), q[3])
  <2> DEFINE ab == q[1] \o q[2]
  <2>1. \A t \in Seq(Cmds) : Carried(d, ab \o t) = Carried(Carried(d, ab), t)
    <3>1. ab \in Seq(Cmds)
      BY <1>2
    <3> HIDE DEF ab
    <3> QED
      BY <3>1, CarriedBoth
  <2> QED
    BY <1>1, <1>3, <2>1
<1>5. Carried(d, q[1] \o q[2]) = Carried(Carried(d, q[1]), q[2])
  BY <1>1, CarriedBoth
<1> QED
  BY <1>2, <1>3, <1>4, <1>5, CarriedIn DEF Final

\* A queue with one command more; the others stay.
LEMMA PushedIs ==
    ASSUME NEW q \in Queues, NEW p \in 1..3, NEW c \in Cmds
    PROVE  /\ Push(q, p, c) \in Queues /\ Push(q, p, c)[p] = Append(q[p], c)
           /\ \A r \in 1..3 \ {p} : Push(q, p, c)[r] = q[r]
<1>1. Append(q[p], c) \in Seq(Cmds)
  BY DEF Queues
<1> QED
  BY <1>1 DEF Push, Queues

\* A command pushed onto a queue does what it says to the map as it was to become, if nothing in
\* the queues behind is about the same mark.
LEMMA PushedIsExecuted ==
    ASSUME NEW q \in Queues, NEW d \in Maps, NEW p \in 1..3, NEW c \in Cmds,
           \A r \in 1..3 : r > p => q[r] \in Seq(Others(c))
    PROVE  Final(Push(q, p, c), d) = Executed(Final(q, d), c)
<1> DEFINE n == Push(q, p, c)
           a == Carried(d, q[1])
           b == Carried(a, q[2])
<1>1. n \in Queues /\ n[p] = Append(q[p], c) /\ \A r \in 1..3 \ {p} : n[r] = q[r]
  BY PushedIs
<1>2. /\ Final(n, d) = Carried(Carried(Carried(d, n[1]), n[2]), n[3])
      /\ Final(q, d) = Carried(b, q[3])
  BY <1>1, FinalIs
<1>3. /\ q[1] \in Seq(Cmds) /\ q[2] \in Seq(Cmds) /\ q[3] \in Seq(Cmds)
      /\ a \in Maps /\ b \in Maps
  BY CarriedIn DEF Queues
<1> HIDE DEF n, a, b
<1>4. CASE p = 3
  <2>1. n[1] = q[1] /\ n[2] = q[2] /\ n[3] = Append(q[3], c)
    BY <1>1, <1>4
  <2>2. Final(n, d) = Carried(b, Append(q[3], c))
    BY <1>2, <2>1 DEF a, b
  <2> QED
    BY <1>2, <1>3, <2>2, CarriedOfMore DEF n
<1>5. CASE p = 2
  <2>1. n[1] = q[1] /\ n[2] = Append(q[2], c) /\ n[3] = q[3] /\ q[3] \in Seq(Others(c))
    BY <1>1, <1>5
  <2>2. Carried(Carried(d, n[1]), n[2]) = Executed(b, c)
    BY <1>3, <2>1, CarriedOfMore DEF a, b
  <2>3. Carried(Executed(b, c), q[3]) = Executed(Carried(b, q[3]), c)
    BY <1>3, <2>1, ItOvertakes
  <2> QED
    BY <1>2, <2>1, <2>2, <2>3 DEF n
<1>6. CASE p = 1
  <2>1. /\ n[1] = Append(q[1], c) /\ n[2] = q[2] /\ n[3] = q[3]
        /\ q[2] \in Seq(Others(c)) /\ q[3] \in Seq(Others(c))
    BY <1>1, <1>6
  <2>2. Carried(d, n[1]) = Executed(a, c)
    BY <1>3, <2>1, CarriedOfMore DEF a
  <2>3. Carried(Executed(a, c), q[2]) = Executed(b, c)
    BY <1>3, <2>1, ItOvertakes DEF b
  <2>4. Carried(Executed(b, c), q[3]) = Executed(Carried(b, q[3]), c)
    BY <1>3, <2>1, ItOvertakes
  <2> QED
    BY <1>2, <2>1, <2>2, <2>3, <2>4 DEF n
<1> QED
  BY <1>4, <1>5, <1>6

\* The queues and the map, where the marks named so far are in U: what changes a mark waits in
\* the last queue, and what makes one waits once, and only while the mark is not on the map.
Queued(q, d, U) ==
    /\ q \in Queues /\ d \in Maps /\ U \subseteq Nat
    /\ \A i \in DOMAIN q[3] : q[3][i].op \in {"draw", "set"}
    /\ \A p \in 1..3 : \A i \in DOMAIN q[p] : q[p][i].op # "panel" => q[p][i].id \in U
    /\ DOMAIN d.shown \subseteq U
    /\ \A p, r \in 1..3 : \A i \in DOMAIN q[p], k \in DOMAIN q[r] :
          Makes(q[p][i]) /\ Makes(q[r][k]) /\ q[p][i].id = q[r][k].id => p = r /\ i = k
    /\ \A p \in 1..3 : \A i \in DOMAIN q[p] : Makes(q[p][i]) => q[p][i].id \notin DOMAIN d.shown

\* The places of a sequence with one more.
LEMMA MoreIs ==
    ASSUME NEW S, NEW s \in Seq(S), NEW c
    PROVE  /\ DOMAIN Append(s, c) = DOMAIN s \cup {Len(s) + 1} /\ (Len(s) + 1) \notin DOMAIN s
           /\ Append(s, c)[Len(s) + 1] = c
           /\ \A i \in DOMAIN s : Append(s, c)[i] = s[i]
  OBVIOUS

\* It stays so when a command is pushed about a mark there is, or that makes a new one.
LEMMA QueuedMore ==
    ASSUME NEW q, NEW d, NEW U, Queued(q, d, U), NEW p \in 1..3, NEW c \in Cmds,
           NEW W \in SUBSET Nat, U \subseteq W, c.op # "panel" => c.id \in W,
           Makes(c) => c.id \notin U, p = 3 => c.op \in {"draw", "set"}
    PROVE  Queued(Push(q, p, c), d, W)
<1> DEFINE n == Push(q, p, c)
           l == Len(q[p]) + 1
<1>1. q \in Queues /\ d \in Maps /\ q[p] \in Seq(Cmds)
  BY DEF Queued, Queues
<1>2. n \in Queues /\ n[p] = Append(q[p], c) /\ \A r \in 1..3 \ {p} : n[r] = q[r]
  BY <1>1, PushedIs
<1>3. /\ DOMAIN n[p] = DOMAIN q[p] \cup {l} /\ l \notin DOMAIN q[p] /\ n[p][l] = c
      /\ \A i \in DOMAIN q[p] : n[p][i] = q[p][i]
  BY <1>1, <1>2, MoreIs
<1> HIDE DEF n, l
<1>4. \A r \in 1..3 : \A i \in DOMAIN n[r] : (r = p /\ i = l) \/ (i \in DOMAIN q[r] /\ n[r][i] = q[r][i])
  BY <1>2, <1>3
<1>5. \A i \in DOMAIN n[3] : n[3][i].op \in {"draw", "set"}
  BY <1>3, <1>4 DEF Queued
<1>6. \A r \in 1..3 : \A i \in DOMAIN n[r] : n[r][i].op # "panel" => n[r][i].id \in W
  <2> TAKE r \in 1..3
  <2> TAKE i \in DOMAIN n[r]
  <2>1. CASE r = p /\ i = l
    BY <1>3, <2>1
  <2>2. CASE i \in DOMAIN q[r] /\ n[r][i] = q[r][i]
    BY <2>2 DEF Queued
  <2> QED
    BY <1>4, <2>1, <2>2
<1>7. \A r \in 1..3 : \A i \in DOMAIN q[r] : Makes(q[r][i]) => q[r][i].id \in U
  BY DEF Queued, Makes
<1>8. \A r, t \in 1..3 : \A i \in DOMAIN n[r], k \in DOMAIN n[t] :
          Makes(n[r][i]) /\ Makes(n[t][k]) /\ n[r][i].id = n[t][k].id => r = t /\ i = k
  BY <1>3, <1>4, <1>7 DEF Queued
<1>9. \A r \in 1..3 : \A i \in DOMAIN n[r] : Makes(n[r][i]) => n[r][i].id \notin DOMAIN d.shown
  BY <1>3, <1>4 DEF Queued
<1>10. DOMAIN d.shown \subseteq W
  BY DEF Queued
<1> QED
  BY <1>1, <1>2, <1>5, <1>6, <1>8, <1>9, <1>10 DEF Queued, n

\* And when some of it goes, if what goes to the map is not made later.
LEMMA QueuedLess ==
    ASSUME NEW q, NEW d, NEW U, Queued(q, d, U), NEW e \in Maps, NEW r \in Queues,
           \A p \in 1..3 : Thins(r[p], q[p]), DOMAIN e.shown \subseteq U,
           \A p \in 1..3 : \A i \in DOMAIN r[p] : Makes(r[p][i]) => r[p][i].id \notin DOMAIN e.shown
    PROVE  Queued(r, e, U)
<1>1. \A p \in 1..3 : \E f \in [DOMAIN r[p] -> DOMAIN q[p]] :
         /\ \A i \in DOMAIN r[p] : r[p][i] = q[p][f[i]]
         /\ \A i, k \in DOMAIN r[p] : f[i] = f[k] => i = k
  BY DEF Thins
<1>2. \A i \in DOMAIN r[3] : r[3][i].op \in {"draw", "set"}
  BY <1>1 DEF Queued
<1>3. \A p \in 1..3 : \A i \in DOMAIN r[p] : r[p][i].op # "panel" => r[p][i].id \in U
  BY <1>1 DEF Queued
<1>4. ASSUME NEW p \in 1..3, NEW t \in 1..3, NEW i \in DOMAIN r[p], NEW k \in DOMAIN r[t],
             Makes(r[p][i]), Makes(r[t][k]), r[p][i].id = r[t][k].id
      PROVE  p = t /\ i = k
  <2>1. PICK f \in [DOMAIN r[p] -> DOMAIN q[p]] :
           /\ \A j \in DOMAIN r[p] : r[p][j] = q[p][f[j]]
           /\ \A j, m \in DOMAIN r[p] : f[j] = f[m] => j = m
    BY <1>1
  <2>2. PICK g \in [DOMAIN r[t] -> DOMAIN q[t]] : \A j \in DOMAIN r[t] : r[t][j] = q[t][g[j]]
    BY <1>1
  <2>3. p = t
    BY <1>4, <2>1, <2>2 DEF Queued
  <2>4. k \in DOMAIN r[p] /\ r[t][k] = q[p][f[k]]
    BY <2>1, <2>3
  <2>5. f[i] = f[k]
    BY <1>4, <2>1, <2>3, <2>4 DEF Queued
  <2> QED
    BY <2>1, <2>3, <2>4, <2>5
<1> QED
  BY <1>2, <1>3, <1>4 DEF Queued

\* Everything that waits is in one of the queues.
Ahead(q, p) == IF p = 1 THEN 0 ELSE IF p = 2 THEN Len(q[1]) ELSE Len(q[1]) + Len(q[2])

\* Where a command that waits is.
LEMMA PlaceOf ==
    ASSUME NEW q \in Queues, NEW k \in DOMAIN Waiting(q)
    PROVE  \E p \in 1..3 : \E i \in DOMAIN q[p] : Waiting(q)[k] = q[p][i] /\ k = Ahead(q, p) + i
<1> DEFINE a == q[1]
           b == q[2]
           c == q[3]
<1>1. a \in Seq(Cmds) /\ b \in Seq(Cmds) /\ c \in Seq(Cmds)
  BY DEF Queues
<1>2. Waiting(q) = (a \o b) \o c
  BY DEF Waiting
<1> HIDE DEF a, b, c
<1>3. a \o b \in Seq(Cmds)
  BY <1>1, ConcatProperties
<1>4. \A s, t \in Seq(Cmds) : \A m \in DOMAIN (s \o t) :
         \/ m \in DOMAIN s /\ (s \o t)[m] = s[m]
         \/ \E i \in DOMAIN t : (s \o t)[m] = t[i] /\ m = Len(s) + i
  <2> TAKE s, t \in Seq(Cmds)
  <2> TAKE m \in DOMAIN (s \o t)
  <2>1. m \in 1..Len(s) + Len(t) /\ Len(s) \in Nat /\ Len(t) \in Nat
    OBVIOUS
  <2>2. CASE m <= Len(s)
    BY <2>1, <2>2
  <2>3. CASE m > Len(s)
    <3>1. /\ m - Len(s) \in 1..Len(t) /\ (s \o t)[m] = t[m - Len(s)]
          /\ m = Len(s) + (m - Len(s))
      BY <2>1, <2>3
    <3> QED
      BY <3>1
  <2> QED
    BY <2>1, <2>2, <2>3
<1>5. \/ k \in DOMAIN (a \o b) /\ Waiting(q)[k] = (a \o b)[k]
      \/ \E i \in DOMAIN c : Waiting(q)[k] = c[i] /\ k = Len(a) + Len(b) + i
  <2> DEFINE ab == a \o b
  <2>1. ab \in Seq(Cmds) /\ k \in DOMAIN (ab \o c) /\ Waiting(q) = ab \o c
    BY <1>2, <1>3
  <2> HIDE DEF ab
  <2>2. \/ k \in DOMAIN ab /\ (ab \o c)[k] = ab[k]
        \/ \E i \in DOMAIN c : (ab \o c)[k] = c[i] /\ k = Len(ab) + i
    BY <1>1, <1>4, <2>1
  <2>3. Len(ab) = Len(a) + Len(b)
    BY <1>1 DEF ab
  <2> QED
    BY <2>1, <2>2, <2>3 DEF ab
<1>6. CASE \E i \in DOMAIN c : Waiting(q)[k] = c[i] /\ k = Len(a) + Len(b) + i
  <2>1. 3 \in 1..3 /\ Ahead(q, 3) = Len(a) + Len(b)
    BY DEF Ahead, a, b
  <2> QED
    BY <1>6, <2>1 DEF c
<1>7. CASE k \in DOMAIN (a \o b) /\ Waiting(q)[k] = (a \o b)[k]
  <2>1. \/ k \in DOMAIN a /\ (a \o b)[k] = a[k]
        \/ \E i \in DOMAIN b : (a \o b)[k] = b[i] /\ k = Len(a) + i
    BY <1>1, <1>4, <1>7
  <2>2. CASE k \in DOMAIN a /\ (a \o b)[k] = a[k]
    <3>1. 1 \in 1..3 /\ Ahead(q, 1) = 0 /\ k = 0 + k
      BY <1>1, <2>2 DEF Ahead
    <3> QED
      BY <1>7, <2>2, <3>1 DEF a
  <2>3. CASE \E i \in DOMAIN b : (a \o b)[k] = b[i] /\ k = Len(a) + i
    <3>1. 2 \in 1..3 /\ Ahead(q, 2) = Len(a)
      BY DEF Ahead, a
    <3> QED
      BY <1>7, <2>3, <3>1 DEF b
  <2> QED
    BY <2>1, <2>2, <2>3
<1> QED
  BY <1>5, <1>6, <1>7

\* Taking off a mark that is not there.
LEMMA NothingDropped ==
    ASSUME NEW seen \in Seen, NEW id, id \notin DOMAIN seen
    PROVE  Drop(seen, id) = seen
<1> DEFINE f == Drop(seen, id)
<1>1. f \in Seen /\ DOMAIN f = DOMAIN seen \ {id} /\ \A j \in DOMAIN seen \ {id} : f[j] = seen[j]
  BY DropFrom
<1> HIDE DEF f
<1>2. DOMAIN f = DOMAIN seen /\ \A j \in DOMAIN f : f[j] = seen[j]
  BY <1>1
<1>3. f = seen
  BY <1>1, <1>2, SameSeen
<1> QED
  BY <1>3 DEF f

\* Deleting a mark, whether its shape is taken back or a command is sent, takes it off the map as
\* it was to become, and nothing else; and what was not to be lost is not.
LEMMA MarkIsDeleted ==
    ASSUME NEW q, NEW d, NEW U, Queued(q, d, U), NEW id \in U
    PROVE  /\ Queued(delete_mark(q, id), d, U)
           /\ Final(delete_mark(q, id), d).shown = Drop(Final(q, d).shown, id)
           /\ Final(q, d).lost = {} => Final(delete_mark(q, id), d).lost = {}
<1>0. q \in Queues /\ d \in Maps /\ id \in Nat
  BY DEF Queued
<1> DEFINE rest == [p \in DOMAIN q |-> Without(q[p], id)]
           was == Final(q, d)
           left == Final(rest, d)
<1>1. rest \in Queues /\ \A p \in 1..3 : rest[p] = Without(q[p], id)
  BY <1>0, WithoutIn DEF Queues
<1>2. \A p \in 1..3 : /\ Thins(rest[p], q[p])
                      /\ \A i \in DOMAIN rest[p] : ~About(rest[p][i], id)
  BY <1>0, <1>1, WithoutThins DEF Queues
<1>3. delete_mark(q, id) = IF Draws(q, id) THEN rest ELSE Push(rest, 2, DeleteCmd(id))
  BY DEF delete_mark
<1>4. /\ was \in Maps /\ left \in Maps
      /\ Waiting(q) \in Seq(Cmds) /\ Waiting(rest) \in Seq(Cmds)
  BY <1>0, <1>1, FinalIs
<1>5. Waiting(rest) = Without(Waiting(q), id)
  <2>1. q[1] \in Seq(Cmds) /\ q[2] \in Seq(Cmds) /\ q[3] \in Seq(Cmds)
    BY <1>0 DEF Queues
  <2>2. q[1] \o q[2] \in Seq(Cmds)
    BY <2>1, ConcatProperties
  <2>3. Without(q[1] \o q[2], id) = Without(q[1], id) \o Without(q[2], id)
    BY <2>1, WithoutBoth
  <2>4. Without((q[1] \o q[2]) \o q[3], id) = Without(q[1] \o q[2], id) \o Without(q[3], id)
    BY <2>1, <2>2, WithoutBoth
  <2> HIDE DEF rest
  <2>5. Waiting(rest) = (rest[1] \o rest[2]) \o rest[3] /\ Waiting(q) = (q[1] \o q[2]) \o q[3]
    BY DEF Waiting
  <2>6. rest[1] = Without(q[1], id) /\ rest[2] = Without(q[2], id) /\ rest[3] = Without(q[3], id)
    BY <1>1
  <2> QED
    BY <2>3, <2>4, <2>5, <2>6
<1>6. Aside(left, id) = Aside(was, id)
  BY <1>0, <1>4, <1>5, RestWithout DEF Final
<1> HIDE DEF rest
<1>7. Queued(rest, d, U)
  <2>1. \A p \in 1..3 : \A i \in DOMAIN rest[p] : Makes(rest[p][i]) => rest[p][i].id \notin DOMAIN d.shown
    BY <1>2 DEF Queued, Thins
  <2>2. DOMAIN d.shown \subseteq U
    BY DEF Queued
  <2> QED
    BY <1>0, <1>1, <1>2, <2>1, <2>2, QueuedLess
<1>8. \A i \in DOMAIN Waiting(rest) : ~About(Waiting(rest)[i], id)
  BY <1>4, <1>5, WithoutThins
<1>9. was.lost = {} => id \notin left.lost
  <2> SUFFICES ASSUME was.lost = {} PROVE id \notin left.lost
    OBVIOUS
  <2>1. id \notin d.lost
    BY <1>0, <1>4, LostStays DEF Final
  <2>2. Waiting(rest) \in Seq({c \in Cmds : c.op = "set" => c.id # id})
    <3>1. \A i \in DOMAIN Waiting(rest) : Waiting(rest)[i].op = "set" => Waiting(rest)[i].id # id
      BY <1>8 DEF About
    <3> QED
      BY <1>4, <3>1
  <2> QED
    BY <1>0, <2>1, <2>2, LostIsSet DEF Final
<1>10. CASE Draws(q, id)
  <2>0. PICK p \in 1..3 : \E i \in DOMAIN q[p] : q[p][i].op = "draw" /\ q[p][i].id = id
    BY <1>0, <1>10 DEF Draws, Queues
  <2>1. PICK i \in DOMAIN q[p] : q[p][i].op = "draw" /\ q[p][i].id = id
    BY <2>0
  <2>2. Makes(q[p][i]) /\ id \notin DOMAIN d.shown
    BY <2>1 DEF Queued, Makes
  <2>3. \A k \in DOMAIN Waiting(q) : Makes(Waiting(q)[k]) /\ Waiting(q)[k].id = id => About(Waiting(q)[k], id)
    <3> TAKE k \in DOMAIN Waiting(q)
    <3>1. \E r \in 1..3 : \E m \in DOMAIN q[r] : Waiting(q)[k] = q[r][m]
      BY <1>0, PlaceOf
    <3>2. ASSUME Makes(Waiting(q)[k]), Waiting(q)[k].id = id
          PROVE  About(Waiting(q)[k], id)
      BY <2>1, <2>2, <3>1, <3>2 DEF Queued, About
    <3> QED
      BY <3>2
  <2>4. \A k \in DOMAIN Waiting(rest) : Makes(Waiting(rest)[k]) => Waiting(rest)[k].id \in Nat \ {id}
    <3> TAKE k \in DOMAIN Waiting(rest)
    <3>1. \E m \in DOMAIN Waiting(q) : Waiting(rest)[k] = Waiting(q)[m]
      BY <1>4, <1>5, WithoutThins DEF Thins
    <3>2. Waiting(rest)[k] \in Cmds
      BY <1>4
    <3> QED
      BY <1>8, <2>3, <3>1, <3>2, KindOf DEF Makes
  <2>5. Waiting(rest) \in Seq({c \in Cmds : Makes(c) => c.id \in Nat \ {id}})
    BY <1>4, <2>4
  <2>6. id \notin DOMAIN left.shown
    <3>1. DOMAIN Carried(d, Waiting(rest)).shown \subseteq DOMAIN d.shown \cup (Nat \ {id})
      BY <1>0, <2>5, SeenIsMade
    <3> QED
      BY <2>2, <3>1 DEF Final
  <2>7. left.shown = Drop(was.shown, id)
    <3>1. Aside(left, id).shown = Drop(left.shown, id) /\ Aside(was, id).shown = Drop(was.shown, id)
      BY DEF Aside
    <3>2. Drop(left.shown, id) = left.shown
      BY <1>4, <2>6, NothingDropped DEF Maps
    <3> QED
      BY <1>6, <3>1, <3>2
  <2>8. was.lost = {} => left.lost = {}
    <3>1. Aside(left, id).lost = left.lost \ {id} /\ Aside(was, id).lost = was.lost \ {id}
      BY DEF Aside
    <3> QED
      BY <1>6, <1>9, <3>1
  <2> QED
    BY <1>3, <1>7, <1>10, <2>7, <2>8
<1>11. CASE ~Draws(q, id)
  <2> DEFINE c == DeleteCmd(id)
             more == Push(rest, 2, c)
  <2>1. c \in Cmds /\ c \in Deleting /\ c.op = "delete" /\ c.id = id
    BY <1>0 DEF DeleteCmd, Cmds, Deleting
  <2> HIDE DEF c
  <2>2. rest[3] \in Seq(Others(c))
    <3>1. rest[3] \in Seq(Cmds)
      BY <1>1 DEF Queues
    <3>2. \A i \in DOMAIN rest[3] : rest[3][i].op \in {"draw", "set"}
      BY <1>7 DEF Queued
    <3>3. \A i \in DOMAIN rest[3] : ~Concerns(rest[3][i], id)
      BY <1>2, <3>2 DEF About, Concerns
    <3> QED
      BY <2>1, <3>1, <3>3 DEF Others
  <2>3. Final(more, d) = Executed(left, c)
    <3>1. \A r \in 1..3 : r > 2 => rest[r] \in Seq(Others(c))
      BY <2>2
    <3> QED
      BY <1>0, <1>1, <2>1, <3>1, PushedIsExecuted
  <2>4. Final(more, d) = [shown |-> Drop(left.shown, id), lost |-> left.lost]
    BY <1>4, <2>1, <2>3, ExecutedIs
  <2>5. Drop(left.shown, id) = Drop(was.shown, id) /\ left.lost \ {id} = was.lost \ {id}
    BY <1>6 DEF Aside
  <2>6. Queued(more, d, U)
    <3>1. U \in SUBSET Nat /\ U \subseteq U /\ ~Makes(c)
      BY <2>1 DEF Queued, Makes
    <3> QED
      BY <1>7, <2>1, <3>1, QueuedMore
  <2> QED
    BY <1>3, <1>9, <1>11, <2>4, <2>5, <2>6 DEF c
<1> QED
  BY <1>10, <1>11

\* What is left of a sequence when some at its head have gone.
LEMMA RestIs ==
    ASSUME NEW S, NEW s \in Seq(S), NEW k \in Nat
    PROVE  /\ SubSeq(s, k + 1, Len(s)) \in Seq(S)
           /\ Len(SubSeq(s, k + 1, Len(s))) = IF k <= Len(s) THEN Len(s) - k ELSE 0
           /\ \A i \in 1..Len(SubSeq(s, k + 1, Len(s))) : SubSeq(s, k + 1, Len(s))[i] = s[i + k]
  OBVIOUS

\* The same for commands: what is left is thinned out.
LEMMA RestThins ==
    ASSUME NEW s \in Seq(Cmds), NEW k \in Nat
    PROVE  /\ SubSeq(s, k + 1, Len(s)) \in Seq(Cmds)
           /\ Len(SubSeq(s, k + 1, Len(s))) = IF k <= Len(s) THEN Len(s) - k ELSE 0
           /\ \A i \in DOMAIN SubSeq(s, k + 1, Len(s)) :
                 i + k \in DOMAIN s /\ SubSeq(s, k + 1, Len(s))[i] = s[i + k]
           /\ Thins(SubSeq(s, k + 1, Len(s)), s)
<1> DEFINE t == SubSeq(s, k + 1, Len(s))
<1>1. /\ t \in Seq(Cmds) /\ Len(t) = (IF k <= Len(s) THEN Len(s) - k ELSE 0)
      /\ \A i \in DOMAIN t : i + k \in DOMAIN s /\ t[i] = s[i + k]
  OBVIOUS
<1> DEFINE place == [i \in DOMAIN t |-> i + k]
<1>2. place \in [DOMAIN t -> DOMAIN s] /\ \A i \in DOMAIN t : t[i] = s[place[i]]
  BY <1>1
<1>3. \A i, j \in DOMAIN t : place[i] = place[j] => i = j
  <2>1. DOMAIN t \subseteq Nat
    BY <1>1
  <2> HIDE DEF t
  <2> QED
    BY <2>1
<1> HIDE DEF place, t
<1>4. Thins(t, s)
  BY <1>2, <1>3 DEF Thins
<1> QED
  BY <1>1, <1>4 DEF t

Beyond(n, m) == IF n > m THEN n - m ELSE 0

\* What is left of one sequence after another when n have gone.
LEMMA RestOfTwo ==
    ASSUME NEW S, NEW s \in Seq(S), NEW t \in Seq(S), NEW n \in Nat
    PROVE  SubSeq(s \o t, n + 1, Len(s \o t))
              = SubSeq(s, n + 1, Len(s)) \o SubSeq(t, Beyond(n, Len(s)) + 1, Len(t))
<1> DEFINE A == Len(s)
           B == Len(t)
           j == Beyond(n, A)
           x == SubSeq(s, n + 1, A)
           y == SubSeq(t, j + 1, B)
           u == s \o t
           v == SubSeq(u, n + 1, Len(u))
<1>1. /\ A \in Nat /\ B \in Nat /\ j \in Nat /\ j = IF n > A THEN n - A ELSE 0
      /\ u \in Seq(S) /\ Len(u) = A + B
      /\ \A m \in 1..A + B : u[m] = IF m <= A THEN s[m] ELSE t[m - A]
  BY DEF Beyond
<1> HIDE DEF j
<1>2. /\ x \in Seq(S) /\ Len(x) = (IF n <= A THEN A - n ELSE 0)
      /\ \A m \in 1..Len(x) : x[m] = s[m + n]
  BY <1>1
<1>3. /\ y \in Seq(S) /\ Len(y) = (IF j <= B THEN B - j ELSE 0)
      /\ \A m \in 1..Len(y) : y[m] = t[m + j]
  <2>1. j \in Nat
    BY <1>1
  <2> HIDE DEF x, u, v
  <2> QED
    BY <2>1, RestIs
<1> HIDE DEF u
<1>4. /\ v \in Seq(S) /\ Len(v) = (IF n <= A + B THEN A + B - n ELSE 0)
      /\ \A m \in 1..Len(v) : v[m] = u[m + n]
  BY <1>1
<1> HIDE DEF x, y, v
<1>5. /\ x \o y \in Seq(S) /\ Len(x \o y) = Len(x) + Len(y)
      /\ \A m \in 1..Len(x) + Len(y) : (x \o y)[m] = IF m <= Len(x) THEN x[m] ELSE y[m - Len(x)]
  BY <1>2, <1>3, ConcatProperties
<1> HIDE DEF A, B
<1> DEFINE w == x \o y
<1> HIDE DEF w
<1>6. Len(w) = Len(v) /\ Len(v) \in Nat
  <2>1. Len(w) = Len(x) + Len(y)
    BY <1>5 DEF w
  <2>2. Len(x) = (IF n <= A THEN A - n ELSE 0) /\ Len(y) = (IF j <= B THEN B - j ELSE 0)
    BY <1>2, <1>3
  <2>3. Len(v) = (IF n <= A + B THEN A + B - n ELSE 0)
    BY <1>4
  <2> QED
    BY <1>1, <2>1, <2>2, <2>3
<1>7. ASSUME NEW m \in 1..Len(v)
      PROVE  w[m] = v[m]
  <2>1. m \in Nat /\ m >= 1 /\ m <= Len(v) /\ m <= A + B - n /\ n <= A + B
    BY <1>1, <1>4, <1>6
  <2>2. v[m] = u[m + n] /\ u[m + n] = IF m + n <= A THEN s[m + n] ELSE t[m + n - A]
    <3>1. m + n \in 1..A + B
      BY <1>1, <2>1
    <3> QED
      BY <1>1, <1>4, <3>1, SMTT(30)
  <2>3. m \in 1..Len(x) + Len(y)
    BY <1>5, <1>6, <2>1 DEF w
  <2>4. CASE n <= A
    <3>1. Len(x) = A - n /\ j = 0 /\ Len(y) = B
      BY <1>1, <1>2, <1>3, <2>4
    <3>2. CASE m <= A - n
      <4>1. w[m] = x[m] /\ m \in 1..Len(x)
        BY <1>1, <1>5, <2>1, <2>3, <2>4, <3>1, <3>2 DEF w
      <4> QED
        BY <1>1, <1>2, <2>1, <2>2, <2>4, <3>2, <4>1
    <3>3. CASE m > A - n
      <4>1. w[m] = y[m - (A - n)]
        BY <1>1, <1>5, <2>1, <2>3, <2>4, <3>1, <3>3 DEF w
      <4>2. m - (A - n) \in 1..Len(y)
        BY <1>1, <2>1, <2>4, <3>1, <3>3
      <4>3. y[m - (A - n)] = t[m - (A - n) + 0]
        BY <1>3, <3>1, <4>2
      <4>4. m - (A - n) + 0 = m + n - A /\ ~(m + n <= A)
        BY <1>1, <2>1, <2>4, <3>3
      <4> QED
        BY <2>2, <4>1, <4>3, <4>4
    <3> QED
      BY <1>1, <2>1, <3>2, <3>3
  <2>5. CASE n > A
    <3>1. Len(x) = 0 /\ j = n - A /\ Len(y) = B - (n - A)
      BY <1>1, <1>2, <1>3, <2>1, <2>5
    <3>2. w[m] = y[m - 0] /\ m - 0 = m
      BY <1>5, <2>1, <2>3, <3>1 DEF w
    <3>3. m \in 1..Len(y)
      BY <1>1, <2>1, <2>5, <3>1
    <3>4. y[m] = t[m + j]
      BY <1>3, <3>3
    <3>5. m + j = m + n - A /\ ~(m + n <= A)
      BY <1>1, <2>1, <2>5, <3>1
    <3> QED
      BY <2>2, <3>2, <3>4, <3>5
  <2> QED
    BY <1>1, <2>4, <2>5
<1>8. w \in Seq(S) /\ v \in Seq(S)
  BY <1>4, <1>5 DEF w
<1>9. w = v
  BY <1>6, <1>7, <1>8, SeqEqual
<1> QED
  BY <1>9 DEF w, v, u, x, y, j, A, B

\* The rest of three queues, as process cuts them.
LEMMA RestOfQueues ==
    ASSUME NEW q \in Queues, NEW r \in Queues, NEW n \in Nat,
           r[1] = SubSeq(q[1], n + 1, Len(q[1])),
           r[2] = SubSeq(q[2], Beyond(n, Len(q[1])) + 1, Len(q[2])),
           r[3] = SubSeq(q[3], Beyond(n, Len(q[1]) + Len(q[2])) + 1, Len(q[3]))
    PROVE  Waiting(r) = SubSeq(Waiting(q), n + 1, Len(Waiting(q)))
<1> DEFINE one == q[1]
           two == q[2]
           three == q[3]
<1>1. one \in Seq(Cmds) /\ two \in Seq(Cmds) /\ three \in Seq(Cmds)
  BY DEF Queues
<1>2. Waiting(q) = (one \o two) \o three /\ Waiting(r) = (r[1] \o r[2]) \o r[3]
  BY DEF Waiting
<1> HIDE DEF one, two, three
<1> DEFINE both == one \o two
<1>3. both \in Seq(Cmds) /\ Len(both) = Len(one) + Len(two)
  BY <1>1
<1>4. SubSeq(both, n + 1, Len(both))
         = SubSeq(one, n + 1, Len(one)) \o SubSeq(two, Beyond(n, Len(one)) + 1, Len(two))
  BY <1>1, RestOfTwo
<1> HIDE DEF both
<1>5. SubSeq(both \o three, n + 1, Len(both \o three))
         = SubSeq(both, n + 1, Len(both)) \o SubSeq(three, Beyond(n, Len(both)) + 1, Len(three))
  BY <1>1, <1>3, RestOfTwo
<1>6. /\ r[1] = SubSeq(one, n + 1, Len(one))
      /\ r[2] = SubSeq(two, Beyond(n, Len(one)) + 1, Len(two))
      /\ r[3] = SubSeq(three, Beyond(n, Len(one) + Len(two)) + 1, Len(three))
  BY DEF one, two, three
<1>7. SubSeq(both, n + 1, Len(both)) = r[1] \o r[2]
  BY <1>4, <1>6
<1>8. SubSeq(three, Beyond(n, Len(both)) + 1, Len(three)) = r[3]
  BY <1>3, <1>6
<1> QED
  BY <1>2, <1>5, <1>7, <1>8 DEF both

\* So many wait ahead of a queue.
LEMMA AheadIn ==
    ASSUME NEW q \in Queues
    PROVE  \A p \in 1..3 : Ahead(q, p) \in Nat
<1> DEFINE A == Len(q[1])
           B == Len(q[2])
<1>1. A \in Nat /\ B \in Nat
  BY DEF Queues
<1>2. \A p : Ahead(q, p) = IF p = 1 THEN 0 ELSE IF p = 2 THEN A ELSE A + B
  BY DEF Ahead
<1> HIDE DEF A, B
<1> QED
  BY <1>1, <1>2

\* Sending some of what waits changes nothing of the map as it will be.
LEMMA SendingIsFair ==
    ASSUME NEW U, Queued(msgs, dcs, U), NEW n \in 0..Len(Waiting(msgs)), process(n)
    PROVE  /\ Queued(msgs', dcs', U)
           /\ Final(msgs', dcs') = Final(msgs, dcs)
           /\ dcs'.lost \subseteq Final(msgs, dcs).lost
<1> DEFINE s == Waiting(msgs)
           pre == SubSeq(s, 1, n)
           post == SubSeq(s, n + 1, Len(s))
           gone == [p \in 1..3 |-> Beyond(n, Ahead(msgs, p))]
<1>1. msgs \in Queues /\ dcs \in Maps /\ s \in Seq(Cmds) /\ n \in Nat /\ n <= Len(s)
  <2>1. msgs \in Queues /\ dcs \in Maps
    BY DEF Queued
  <2>2. s \in Seq(Cmds)
    BY <2>1, FinalIs
  <2> HIDE DEF s
  <2>3. Len(s) \in Nat
    BY <2>2
  <2> QED
    BY <2>1, <2>2, <2>3 DEF s
<1>2. msgs[1] \in Seq(Cmds) /\ msgs[2] \in Seq(Cmds) /\ msgs[3] \in Seq(Cmds)
  BY <1>1 DEF Queues
<1>3. \A p \in 1..3 : Ahead(msgs, p) \in Nat /\ gone[p] \in Nat
                      /\ gone[p] = Beyond(n, Ahead(msgs, p))
  <2>1. \A p \in 1..3 : Ahead(msgs, p) \in Nat
    BY <1>1, AheadIn
  <2>2. \A m \in Nat : Beyond(n, m) \in Nat
    BY <1>1 DEF Beyond
  <2> QED
    BY <2>1, <2>2
<1>4. dcs' = Carried(dcs, pre)
      /\ msgs' = [p \in 1..3 |-> SubSeq(msgs[p], gone[p] + 1, Len(msgs[p]))]
  <2>1. \A p \in 1..3 : Left(p, n, Ahead(msgs, p)) = SubSeq(msgs[p], gone[p] + 1, Len(msgs[p]))
    BY DEF Left, Beyond
  <2>2. \A p \in 1..3 : Ahead(msgs, p) = IF p = 1 THEN 0 ELSE IF p = 2 THEN Len(msgs[1])
                                        ELSE Len(msgs[1]) + Len(msgs[2])
    BY DEF Ahead
  <2>3. msgs' = [p \in 1..3 |-> Left(p, n, Ahead(msgs, p))]
    BY <2>2 DEF process
  <2> HIDE DEF gone
  <2>4. msgs' = [p \in 1..3 |-> SubSeq(msgs[p], gone[p] + 1, Len(msgs[p]))]
    BY <2>1, <2>3
  <2> QED
    BY <2>4 DEF process
<1>5. pre \in Seq(Cmds) /\ post \in Seq(Cmds) /\ pre \o post = s
  <2> HIDE DEF s
  <2>1. pre \in Seq(Cmds) /\ post \in Seq(Cmds)
    BY <1>1
  <2>2. pre \o post = s
    <3>1. 1 \in 1..Len(s) + 1 /\ n \in 0..Len(s) /\ Len(s) \in n..Len(s) /\ 1 - 1 = 0
      BY <1>1
    <3>2. pre \o post = SubSeq(s, 1, Len(s))
      BY <1>1, <3>1, ConcatAdjacentSubSeq
    <3> QED
      BY <1>1, <3>2, SubSeqFull
  <2> QED
    BY <2>1, <2>2
<1>6. \A p \in 1..3 : /\ msgs'[p] \in Seq(Cmds) /\ Thins(msgs'[p], msgs[p])
                      /\ \A i \in DOMAIN msgs'[p] :
                            i + gone[p] \in DOMAIN msgs[p] /\ msgs'[p][i] = msgs[p][i + gone[p]]
  <2> TAKE p \in 1..3
  <2> DEFINE k == gone[p]
             t == msgs[p]
  <2>1. t \in Seq(Cmds) /\ k \in Nat
    BY <1>1, <1>3 DEF Queues
  <2>2. msgs'[p] = SubSeq(t, k + 1, Len(t))
    BY <1>4
  <2> HIDE DEF gone, k, t
  <2>3. /\ SubSeq(t, k + 1, Len(t)) \in Seq(Cmds) /\ Thins(SubSeq(t, k + 1, Len(t)), t)
        /\ \A i \in DOMAIN SubSeq(t, k + 1, Len(t)) :
              i + k \in DOMAIN t /\ SubSeq(t, k + 1, Len(t))[i] = t[i + k]
    BY <2>1, RestThins
  <2> QED
    BY <2>2, <2>3 DEF k, t
<1>7. msgs' \in Queues
  <2>1. msgs' = [p \in 1..3 |-> msgs'[p]]
    BY <1>4
  <2> QED
    BY <1>6, <2>1 DEF Queues
<1>8. Waiting(msgs') = post
  <2> DEFINE a == msgs[1]
             b == msgs[2]
             c == msgs[3]
  <2>1. /\ msgs'[1] = SubSeq(a, n + 1, Len(a))
        /\ msgs'[2] = SubSeq(b, Beyond(n, Len(a)) + 1, Len(b))
        /\ msgs'[3] = SubSeq(c, Beyond(n, Len(a) + Len(b)) + 1, Len(c))
    <3>1. 1 \in 1..3 /\ 2 \in 1..3 /\ 3 \in 1..3
      OBVIOUS
    <3>2. gone[1] = n /\ gone[2] = Beyond(n, Len(a)) /\ gone[3] = Beyond(n, Len(a) + Len(b))
      <4>1. Ahead(msgs, 1) = 0 /\ Ahead(msgs, 2) = Len(a) /\ Ahead(msgs, 3) = Len(a) + Len(b)
        BY DEF Ahead
      <4>2. Beyond(n, 0) = n
        BY <1>1 DEF Beyond
      <4>3. 1 \in 1..3 /\ 2 \in 1..3 /\ 3 \in 1..3
        OBVIOUS
      <4>4. \A p \in 1..3 : gone[p] = Beyond(n, Ahead(msgs, p))
        OBVIOUS
      <4> HIDE DEF gone
      <4> QED
        BY <4>1, <4>2, <4>3, <4>4
    <3> HIDE DEF gone
    <3> QED
      BY <1>4, <3>1, <3>2
  <2> HIDE DEF s
  <2>2. post = SubSeq(Waiting(msgs), n + 1, Len(Waiting(msgs)))
    BY DEF s
  <2> HIDE DEF post
  <2>3. n \in Nat
    BY <1>1
  <2> QED
    BY <1>1, <1>7, <2>1, <2>2, <2>3, RestOfQueues DEF a, b, c
<1>9. Final(msgs', dcs') = Final(msgs, dcs)
  <2> HIDE DEF s, pre, post
  <2>1. Carried(dcs, pre \o post) = Carried(Carried(dcs, pre), post)
    BY <1>1, <1>5, CarriedBoth
  <2>2. Final(msgs', dcs') = Carried(dcs', post)
    BY <1>8 DEF Final
  <2> QED
    BY <1>4, <1>5, <2>1, <2>2 DEF Final, s
<1>10. dcs' \in Maps
  BY <1>1, <1>4, <1>5, CarriedIn
<1>11. dcs'.lost \subseteq Final(msgs, dcs).lost
  <2>1. Final(msgs', dcs') = Carried(dcs', post)
    BY <1>8 DEF Final
  <2> HIDE DEF s, pre, post
  <2> QED
    BY <1>5, <1>9, <1>10, <2>1, LostStays
<1> DEFINE M == {id \in Nat : \E j \in 1..n : Makes(s[j]) /\ s[j].id = id}
<1>12. DOMAIN dcs'.shown \subseteq DOMAIN dcs.shown \cup M
  <2>1. pre \in Seq({c \in Cmds : Makes(c) => c.id \in M})
    <3>1. \A j \in 1..n : pre[j] = s[j] /\ s[j] \in Cmds
      BY <1>1
    <3>2. DOMAIN pre = 1..n
      BY <1>1
    <3>3. \A j \in DOMAIN pre : Makes(pre[j]) => pre[j].id \in M
      <4> TAKE j \in DOMAIN pre
      <4>1. j \in 1..n /\ pre[j] = s[j] /\ s[j] \in Cmds
        BY <3>1, <3>2
      <4>2. Makes(s[j]) => s[j].id \in Nat
        BY <4>1, KindOf DEF Makes
      <4> HIDE DEF s, pre
      <4> QED
        BY <4>1, <4>2
    <3> HIDE DEF s, pre, M
    <3> QED
      BY <1>5, <3>3
  <2> HIDE DEF s, pre, M
  <2> QED
    BY <1>1, <1>4, <2>1, SeenIsMade
<1>13. \A id \in M : \E p \in 1..3 : \E i \in DOMAIN msgs[p] :
          Makes(msgs[p][i]) /\ msgs[p][i].id = id /\ Ahead(msgs, p) + i <= n
  <2> TAKE id \in M
  <2>1. PICK j \in 1..n : Makes(s[j]) /\ s[j].id = id
    OBVIOUS
  <2>2. j \in DOMAIN Waiting(msgs)
    BY <1>1
  <2>3. \E p \in 1..3 : \E i \in DOMAIN msgs[p] : s[j] = msgs[p][i] /\ j = Ahead(msgs, p) + i
    BY <1>1, <2>2, PlaceOf
  <2> HIDE DEF s
  <2> QED
    BY <2>1, <2>3
<1>14. DOMAIN dcs'.shown \subseteq U
  <2> HIDE DEF M
  <2>1. M \subseteq U
    BY <1>13 DEF Queued, Makes
  <2> QED
    BY <1>12, <2>1 DEF Queued
<1>15. ASSUME NEW p \in 1..3, NEW i \in DOMAIN msgs'[p], Makes(msgs'[p][i])
       PROVE  msgs'[p][i].id \notin DOMAIN dcs'.shown
  <2> HIDE DEF M, s, pre, post
  <2>0. /\ i + gone[p] \in DOMAIN msgs[p] /\ msgs'[p][i] = msgs[p][i + gone[p]]
        /\ i \in Nat /\ i >= 1 /\ Ahead(msgs, p) \in Nat
    <3>1. DOMAIN msgs'[p] = 1..Len(msgs'[p]) /\ Len(msgs'[p]) \in Nat
      BY <1>6
    <3> HIDE DEF gone
    <3>2. i \in Nat /\ i >= 1
      BY <3>1
    <3> QED
      BY <1>3, <1>6, <3>2
  <2> HIDE DEF gone
  <2>1. Ahead(msgs, p) + (i + gone[p]) > n
    <3> DEFINE k == gone[p]
               m == Ahead(msgs, p)
    <3>1. k \in Nat /\ k = (IF n > m THEN n - m ELSE 0) /\ m \in Nat /\ i \in Nat /\ i >= 1
      BY <1>3, <2>0 DEF Beyond
    <3> HIDE DEF k, m
    <3>2. m + (i + k) > n
      BY <1>1, <3>1
    <3> QED
      BY <3>2 DEF k, m
  <2>2. msgs'[p][i].id \notin DOMAIN dcs.shown
    BY <1>15, <2>0 DEF Queued
  <2>3. ASSUME msgs'[p][i].id \in M PROVE FALSE
    <3>1. PICK r \in 1..3 : \E m \in DOMAIN msgs[r] :
             Makes(msgs[r][m]) /\ msgs[r][m].id = msgs'[p][i].id /\ Ahead(msgs, r) + m <= n
      BY <1>13, <2>3
    <3>2. PICK m \in DOMAIN msgs[r] :
             Makes(msgs[r][m]) /\ msgs[r][m].id = msgs'[p][i].id /\ Ahead(msgs, r) + m <= n
      BY <3>1
    <3>3. r = p /\ m = i + gone[p]
      BY <1>15, <2>0, <3>2 DEF Queued
    <3>4. Ahead(msgs, p) + (i + gone[p]) <= n
      BY <3>2, <3>3
    <3>5. gone[p] \in Nat
      BY <1>3
    <3> QED
      BY <1>1, <2>0, <2>1, <3>4, <3>5
  <2> QED
    BY <1>12, <2>2, <2>3
<1> HIDE DEF s, pre, post, gone, M
<1>16. Queued(msgs', dcs', U)
  BY <1>6, <1>7, <1>10, <1>14, <1>15, QueuedLess
<1> QED
  BY <1>9, <1>11, <1>16

-----------------------------------------------------------------------------
(* Marks, and what each is for: the pin of a group, the pin at a raid's     *)
(* destination, the rings, the label and the arrows of an objective.        *)

Slots == ({"pin"} \X Groups) \cup ({"dst"} \X Raids)
         \cup ({"ring", "capturable", "label"} \X Objectives)
         \cup ({"arrow"} \X (Objectives \X Farps))

\* When all is sent the map shows the marks of the slots `live`, and nothing else: mk[s] is the
\* mark of slot s, or NoMark, and lk[s] is how it is to look.
Agrees(q, d, U, mk, lk, live) ==
    /\ Queued(q, d, U)
    /\ Final(q, d).lost = {}
    /\ live \subseteq Slots
    /\ \A s, t \in Slots : mk[s] = mk[t] /\ mk[s] # NoMark => s = t
    /\ \A s \in live : mk[s] # NoMark
    /\ DOMAIN Final(q, d).shown = {mk[s] : s \in live}
    /\ \A s \in live : Final(q, d).shown[mk[s]] = lk[s]

\* A mark that no command is about yet.
LEMMA NoneIsAbout ==
    ASSUME NEW q, NEW d, NEW U, Queued(q, d, U), NEW c \in Cmds, c.op # "panel", c.id \notin U
    PROVE  \A r \in 1..3 : q[r] \in Seq(Others(c))
<1> TAKE r \in 1..3
<1>1. q[r] \in Seq(Cmds)
  BY DEF Queued, Queues
<1>2. \A i \in DOMAIN q[r] : q[r][i] \in Others(c)
  <2> TAKE i \in DOMAIN q[r]
  <2>1. q[r][i] \in Cmds
    BY <1>1
  <2>2. q[r][i].op # "panel" => q[r][i].id \in U
    BY DEF Queued
  <2> QED
    BY <2>1, <2>2 DEF Others, Concerns
<1> QED
  BY <1>1, <1>2

\* What is to be seen has been named.
LEMMA FinalIsNamed ==
    ASSUME NEW q, NEW d, NEW U, Queued(q, d, U)
    PROVE  Final(q, d) \in Maps /\ DOMAIN Final(q, d).shown \subseteq U
<1> DEFINE s == Waiting(q)
           MyCmds == {c \in Cmds : Makes(c) => c.id \in U}
<1>1. q \in Queues /\ d \in Maps /\ DOMAIN d.shown \subseteq U
  BY DEF Queued
<1>2. s \in Seq(Cmds) /\ Final(q, d) \in Maps /\ Final(q, d) = Carried(d, s)
  BY <1>1, FinalIs DEF Final
<1>3. ASSUME NEW k \in DOMAIN s
      PROVE  s[k] \in MyCmds
  <2>1. PICK p \in 1..3 : \E i \in DOMAIN q[p] : s[k] = q[p][i]
    BY <1>1, PlaceOf
  <2>2. PICK i \in DOMAIN q[p] : s[k] = q[p][i]
    BY <2>1
  <2>3. q[p][i].op # "panel" => q[p][i].id \in U
    BY DEF Queued
  <2>4. s[k] \in Cmds
    BY <1>2
  <2> QED
    BY <2>2, <2>3, <2>4 DEF Makes
<1> HIDE DEF s, MyCmds
<1>4. s \in Seq(MyCmds)
  BY <1>2, <1>3
<1>5. DOMAIN Carried(d, s).shown \subseteq DOMAIN d.shown \cup U
  BY <1>1, <1>4, SeenIsMade DEF MyCmds
<1> QED
  BY <1>1, <1>2, <1>5

\* More marks may have been named than there are.
LEMMA QueuedIn ==
    ASSUME NEW q, NEW d, NEW U, Queued(q, d, U), NEW W \in SUBSET Nat, U \subseteq W,
           \A p \in 1..3 : \A i \in DOMAIN q[p] : q[p][i].op # "panel" => q[p][i].id \in W
    PROVE  Queued(q, d, W)
  BY DEF Queued

\* It agrees all the same.
LEMMA AgreesIn ==
    ASSUME NEW q, NEW d, NEW U, NEW mk, NEW lk, NEW live, Agrees(q, d, U, mk, lk, live),
           NEW W \in SUBSET Nat, U \subseteq W
    PROVE  Agrees(q, d, W, mk, lk, live)
<1>1. \A p \in 1..3 : \A i \in DOMAIN q[p] : q[p][i].op # "panel" => q[p][i].id \in W
  BY DEF Agrees, Queued
<1> QED
  BY <1>1, QueuedIn DEF Agrees

\* The slots that do not live may have any marks that differ.
LEMMA AgreesAs ==
    ASSUME NEW q, NEW d, NEW U, NEW mk, NEW lk, NEW live, Agrees(q, d, U, mk, lk, live),
           NEW nk, NEW kk, \A s, t \in Slots : nk[s] = nk[t] /\ nk[s] # NoMark => s = t,
           \A s \in live : nk[s] = mk[s] /\ kk[s] = lk[s]
    PROVE  Agrees(q, d, U, nk, kk, live)
<1>1. {nk[s] : s \in live} = {mk[s] : s \in live}
  BY DEF Agrees
<1> QED
  BY <1>1 DEF Agrees

\* A mark is drawn: the slot lives.
LEMMA AgreesDrawn ==
    ASSUME NEW q, NEW d, NEW U, NEW mk, NEW lk, NEW live, Agrees(q, d, U, mk, lk, live),
           NEW s \in Slots, mk[s] \in Nat \ U, mk[s] # NoMark, lk[s] \in Looks,
           NEW p \in {2, 3}, NEW c, c = DrawCmd(mk[s], lk[s]) \/ (p = 2 /\ c = PinCmd(mk[s], lk[s]))
    PROVE  Agrees(Push(q, p, c), d, U \cup {mk[s]}, mk, lk, live \cup {s})
<1> DEFINE F == Final(q, d)
           G == Final(Push(q, p, c), d)
           W == U \cup {mk[s]}
<1>1. /\ Queued(q, d, U) /\ F.lost = {} /\ live \subseteq Slots
      /\ q \in Queues /\ d \in Maps /\ U \subseteq Nat /\ p \in 1..3 /\ F \in Maps
  <2>1. Queued(q, d, U) /\ F.lost = {} /\ live \subseteq Slots
    BY DEF Agrees
  <2>2. q \in Queues /\ d \in Maps /\ U \subseteq Nat
    BY <2>1 DEF Queued
  <2> QED
    BY <2>1, <2>2, FinalIsNamed
<1>2. /\ c \in Making /\ c \in Cmds /\ c.op # "panel" /\ c.id = mk[s] /\ c.look = lk[s]
      /\ (p = 3 => c.op \in {"draw", "set"})
  BY DEF DrawCmd, PinCmd, Making, Cmds
<1>3. Queued(Push(q, p, c), d, W)
  <2>1. W \in SUBSET Nat /\ U \subseteq W /\ c.id \in W /\ c.id \notin U
    BY <1>1, <1>2
  <2> HIDE DEF W
  <2> QED
    BY <1>1, <1>2, <2>1, QueuedMore
<1>4. G = [shown |-> Put(F.shown, mk[s], lk[s]), lost |-> F.lost]
  <2>1. \A r \in 1..3 : q[r] \in Seq(Others(c))
    BY <1>1, <1>2, NoneIsAbout
  <2>2. G = Executed(F, c)
    BY <1>1, <1>2, <2>1, PushedIsExecuted
  <2> HIDE DEF F, G
  <2> QED
    BY <1>1, <1>2, <2>2, ExecutedIs
<1> DEFINE seen == F.shown
<1>5. /\ DOMAIN seen = {mk[t] : t \in live} /\ \A t \in live : seen[mk[t]] = lk[t]
      /\ \A t, u \in Slots : mk[t] = mk[u] /\ mk[t] # NoMark => t = u
      /\ \A t \in live : mk[t] # NoMark
  BY DEF Agrees
<1>6. seen \in Seen
  <2> HIDE DEF F
  <2> QED
    BY <1>1 DEF Maps
<1> HIDE DEF F
<1>7. G.lost = {} /\ G.shown = Put(seen, mk[s], lk[s])
  BY <1>1, <1>4
<1> HIDE DEF G, W, seen
<1>8. IsPut(G.shown, seen, mk[s], lk[s])
  BY <1>6, <1>7, PutIs
<1>9. DOMAIN G.shown = {mk[t] : t \in live \cup {s}}
  BY <1>5, <1>8 DEF IsPut
<1>10. \A t \in live \cup {s} : G.shown[mk[t]] = lk[t]
  <2> TAKE t \in live \cup {s}
  <2>1. CASE t = s
    BY <1>8, <2>1 DEF IsPut
  <2>2. CASE t # s
    <3>1. t \in live /\ mk[t] # mk[s] /\ mk[t] \in DOMAIN seen
      BY <1>1, <1>5, <2>2
    <3> QED
      BY <1>5, <1>8, <3>1 DEF IsPut
  <2> QED
    BY <2>1, <2>2
<1> QED
  BY <1>1, <1>3, <1>5, <1>7, <1>9, <1>10 DEF Agrees, G, W

\* A mark is deleted: the slot lives no more, if it did.
LEMMA AgreesDeleted ==
    ASSUME NEW q, NEW d, NEW U, NEW mk, NEW lk, NEW live, Agrees(q, d, U, mk, lk, live),
           NEW s \in Slots, mk[s] \in U, mk[s] # NoMark
    PROVE  Agrees(delete_mark(q, mk[s]), d, U, mk, lk, live \ {s})
<1> DEFINE F == Final(q, d)
           G == Final(delete_mark(q, mk[s]), d)
           seen == F.shown
<1>1. Queued(q, d, U) /\ F.lost = {} /\ live \subseteq Slots /\ F \in Maps
  BY FinalIsNamed DEF Agrees
<1>2. Queued(delete_mark(q, mk[s]), d, U) /\ G.shown = Drop(F.shown, mk[s]) /\ G.lost = {}
  BY <1>1, MarkIsDeleted
<1>3. /\ DOMAIN seen = {mk[t] : t \in live} /\ \A t \in live : seen[mk[t]] = lk[t]
      /\ \A t, u \in Slots : mk[t] = mk[u] /\ mk[t] # NoMark => t = u
      /\ \A t \in live : mk[t] # NoMark
  BY DEF Agrees
<1>4. seen \in Seen
  <2> HIDE DEF F
  <2> QED
    BY <1>1 DEF Maps
<1> HIDE DEF F, G
<1>9. G.shown = Drop(seen, mk[s])
  BY <1>2
<1> HIDE DEF seen
<1>5. /\ DOMAIN G.shown = DOMAIN seen \ {mk[s]}
      /\ \A j \in DOMAIN seen \ {mk[s]} : G.shown[j] = seen[j]
  <2> DEFINE id == mk[s]
             new == Drop(seen, id)
  <2> HIDE DEF id
  <2>1. DOMAIN new = DOMAIN seen \ {id} /\ \A j \in DOMAIN seen \ {id} : new[j] = seen[j]
    BY <1>4, DropFrom
  <2>2. G.shown = new
    BY <1>9 DEF id
  <2> HIDE DEF new
  <2> QED
    BY <2>1, <2>2 DEF id
<1>6. \A t \in live \ {s} : mk[t] \in DOMAIN seen \ {mk[s]}
  BY <1>1, <1>3
<1>7. DOMAIN G.shown = {mk[t] : t \in live \ {s}}
  BY <1>3, <1>5, <1>6
<1>8. \A t \in live \ {s} : G.shown[mk[t]] = lk[t]
  BY <1>3, <1>5, <1>6
<1> QED
  BY <1>1, <1>2, <1>3, <1>7, <1>8 DEF Agrees, G

\* A mark that lives is changed.
LEMMA AgreesChanged ==
    ASSUME NEW q, NEW d, NEW U, NEW mk, NEW lk, NEW live, Agrees(q, d, U, mk, lk, live),
           NEW s \in live, NEW field \in Fields, NEW val \in Vals,
           NEW kk, kk[s] = [lk[s] EXCEPT ![field] = val], \A t \in live \ {s} : kk[t] = lk[t]
    PROVE  Agrees(set_markup(q, mk[s], field, val), d, U, mk, kk, live)
<1> DEFINE c == SetCmd(mk[s], field, val)
           F == Final(q, d)
           G == Final(Push(q, 3, c), d)
           seen == F.shown
<1>1. /\ Queued(q, d, U) /\ F.lost = {} /\ live \subseteq Slots
      /\ q \in Queues /\ d \in Maps /\ U \subseteq Nat
      /\ F \in Maps /\ DOMAIN F.shown \subseteq U
  BY FinalIsNamed DEF Agrees, Queued
<1>2. /\ DOMAIN seen = {mk[t] : t \in live} /\ \A t \in live : seen[mk[t]] = lk[t]
      /\ \A t, u \in Slots : mk[t] = mk[u] /\ mk[t] # NoMark => t = u
      /\ \A t \in live : mk[t] # NoMark
  BY DEF Agrees
<1>3. seen \in Seen
  <2> HIDE DEF F
  <2> QED
    BY <1>1 DEF Maps
<1>4. mk[s] \in DOMAIN seen /\ mk[s] \in U
  <2> HIDE DEF F
  <2> QED
    BY <1>1, <1>2
<1>5. /\ c \in Setting /\ c \in Cmds /\ c.id = mk[s] /\ c.field = field /\ c.val = val
      /\ c.op = "set" /\ ~Makes(c)
  BY <1>1, <1>4 DEF SetCmd, Setting, Cmds, Makes
<1> HIDE DEF F, c
<1>6. Queued(Push(q, 3, c), d, U)
  <2>1. /\ U \in SUBSET Nat /\ U \subseteq U /\ 3 \in 1..3 /\ c.id \in U
        /\ (3 = 3 => c.op \in {"draw", "set"}) /\ (Makes(c) => c.id \notin U)
    BY <1>1, <1>4, <1>5
  <2> QED
    BY <1>1, <1>5, <2>1, QueuedMore
<1>7. G = Executed(F, c)
  <2>1. 3 \in 1..3 /\ \A r \in 1..3 : ~(r > 3)
    OBVIOUS
  <2> QED
    BY <1>1, <1>5, <2>1, PushedIsExecuted DEF F
<1> HIDE DEF G
<1>8. G = [shown |-> Changed(seen, mk[s], field, val), lost |-> F.lost]
  BY <1>1, <1>4, <1>5, <1>7, ExecutedIs
<1>9. G.lost = {} /\ G.shown = Changed(seen, mk[s], field, val)
  BY <1>1, <1>8
<1> HIDE DEF seen
<1>10. IsChanged(G.shown, seen, mk[s], field, val)
  BY <1>3, <1>4, <1>9, ChangedIs
<1>11. DOMAIN G.shown = {mk[t] : t \in live}
  BY <1>2, <1>10 DEF IsChanged
<1>12. \A t \in live : G.shown[mk[t]] = kk[t]
  <2> TAKE t \in live
  <2>1. CASE t = s
    BY <1>2, <1>10, <2>1 DEF IsChanged
  <2>2. CASE t # s
    <3>1. mk[t] # mk[s] /\ mk[t] \in DOMAIN seen
      BY <1>1, <1>2, <2>2
    <3> QED
      BY <1>2, <1>10, <2>2, <3>1 DEF IsChanged
  <2> QED
    BY <2>1, <2>2
<1> QED
  BY <1>1, <1>2, <1>6, <1>9, <1>11, <1>12 DEF Agrees, G, c, set_markup

\* A panel is pushed.
LEMMA AgreesPanel ==
    ASSUME NEW q, NEW d, NEW U, NEW mk, NEW lk, NEW live, Agrees(q, d, U, mk, lk, live)
    PROVE  Agrees(Panel(q), d, U, mk, lk, live)
<1> DEFINE c == [op |-> "panel"]
           F == Final(q, d)
<1>1. /\ Queued(q, d, U) /\ q \in Queues /\ d \in Maps /\ U \subseteq Nat /\ F \in Maps
  BY FinalIsNamed DEF Agrees, Queued
<1>2. c \in Cmds /\ c \in Showing /\ c.op = "panel" /\ ~Makes(c)
  BY APanel DEF Showing, Makes
<1>3. Others(c) = Cmds
  BY <1>2 DEF Others
<1> HIDE DEF c, F
<1>4. 1 \in 1..3 /\ 1 # 3
  OBVIOUS
<1>5. \A r \in 1..3 : q[r] \in Seq(Others(c))
  BY <1>1, <1>3 DEF Queues
<1>6. Final(Push(q, 1, c), d) = Executed(F, c)
  BY <1>1, <1>2, <1>4, <1>5, PushedIsExecuted DEF F
<1>7. Final(Push(q, 1, c), d) = F
  BY <1>1, <1>2, <1>6, ExecutedIs
<1>8. Queued(Push(q, 1, c), d, U)
  BY <1>1, <1>2, <1>4, QueuedMore
<1> QED
  BY <1>7, <1>8 DEF Agrees, Panel, F, c

-----------------------------------------------------------------------------
(* Marks deleted and drawn one after the other. *)

LEMMA DeletedIn == \A q \in Queues, id \in Nat : delete_mark(q, id) \in Queues
<1> SUFFICES ASSUME NEW q \in Queues, NEW id \in Nat PROVE delete_mark(q, id) \in Queues
  OBVIOUS
<1> DEFINE rest == [p \in DOMAIN q |-> Without(q[p], id)]
<1>1. rest \in Queues
  BY WithoutIn DEF Queues
<1>2. DeleteCmd(id) \in Cmds
  BY DEF DeleteCmd, Cmds, Deleting
<1> HIDE DEF rest
<1>3. Push(rest, 2, DeleteCmd(id)) \in Queues
  BY <1>1, <1>2, PushedIs
<1> QED
  BY <1>1, <1>3 DEF delete_mark, rest

\* The loop of remove over the marks.
LEMMA delete_marksFolds ==
    ASSUME NEW base \in Queues, NEW S \in SUBSET Nat, IsFiniteSet(S), NEW R, <<base, {}>> \in R,
           \A T \in SUBSET S, e \in S, v \in Queues :
              e \notin T /\ <<v, T>> \in R => <<delete_mark(v, e), T \cup {e}>> \in R
    PROVE  delete_marks(base, S) \in Queues /\ <<delete_marks(base, S), S>> \in R
<1> DEFINE Step(e, v) == CHOOSE r \in {delete_mark(x, e) : x \in {v}} : TRUE
           IsIt(it) == it = [T \in SUBSET S |->
                               IF T = {} THEN base ELSE Step(Pick(T), it[T \ {Pick(T)}])]
           choose == [T \in SUBSET S |-> Pick(T)]
           op == [p \in S \X Queues |-> delete_mark(p[2], p[1])]
<1>1. delete_marks(base, S) = (CHOOSE it : IsIt(it))[S]
  BY DEF delete_marks, Each, FoldSet, MapThenFoldSet, Pick
<1>2. \A v \in Queues, e \in S : Step(e, v) = delete_mark(v, e) /\ Step(e, v) \in Queues
  <2> TAKE v \in Queues, e \in S
  <2>1. {delete_mark(x, e) : x \in {v}} = {delete_mark(v, e)}
    OBVIOUS
  <2>2. Step(e, v) = delete_mark(v, e)
    BY <2>1
  <2> HIDE DEF Step
  <2> QED
    BY <2>2, DeletedIn
<1>3. op \in [S \X Queues -> Queues] /\ \A x \in S, v \in Queues : op[<<x, v>>] = delete_mark(v, x)
  <2>1. \A x \in S, v \in Queues : delete_mark(v, x) \in Queues
    BY DeletedIn
  <2>2. \A p \in S \X Queues : p[1] \in S /\ p[2] \in Queues
    OBVIOUS
  <2>3. \A p \in S \X Queues : delete_mark(p[2], p[1]) \in Queues
    BY <2>1, <2>2
  <2>4. op \in [S \X Queues -> Queues]
    BY <2>3
  <2> QED
    BY <2>4
<1>4. Chooses(choose, S) /\ \A T \in SUBSET S : choose[T] = Pick(T)
  BY PickIsThere DEF Chooses
<1> HIDE DEF choose, op, Step
<1>5. \A x \in S, v \in Queues : op[<<x, v>>] = Step(x, v) /\ Step(x, v) \in Queues
  BY <1>2, <1>3
<1>6. KeptBy(R, S, Queues, op)
  <2> SUFFICES ASSUME NEW T \in SUBSET S, NEW x \in S, NEW v \in Queues, x \notin T, <<v, T>> \in R
               PROVE  op[<<x, v>>] \in Queues /\ <<op[<<x, v>>], T \cup {x}>> \in R
    BY DEF KeptBy
  <2>1. op[<<x, v>>] = delete_mark(v, x) /\ op[<<x, v>>] \in Queues
    BY <1>3, <1>5
  <2>2. <<delete_mark(v, x), T \cup {x}>> \in R
    OBVIOUS
  <2> QED
    BY <2>1, <2>2
<1>7. \E it : IsIt(it)
  <2>1. PICK it \in [SUBSET S -> Queues] : IsFold(it, S, base, choose, op)
    BY <1>3, <1>4, FoldExists
  <2>2. it = [T \in SUBSET S |-> IF T = {} THEN base ELSE op[<<choose[T], it[T \ {choose[T]}]>>]]
    BY <2>1 DEF IsFold
  <2>3. ASSUME NEW T \in SUBSET S, T # {}
        PROVE  op[<<choose[T], it[T \ {choose[T]}]>>] = Step(Pick(T), it[T \ {Pick(T)}])
    <3>1. T \ {Pick(T)} \in SUBSET S /\ choose[T] = Pick(T) /\ Pick(T) \in S
      BY <1>4, <2>3 DEF Chooses
    <3>2. it[T \ {Pick(T)}] \in Queues
      BY <3>1
    <3> QED
      BY <1>5, <3>1, <3>2
  <2>4. it = [T \in SUBSET S |-> IF T = {} THEN base ELSE Step(Pick(T), it[T \ {Pick(T)}])]
    BY <2>2, <2>3
  <2> QED
    BY <2>4
<1> DEFINE it == CHOOSE it : IsIt(it)
<1>8. it = [T \in SUBSET S |-> IF T = {} THEN base ELSE Step(Pick(T), it[T \ {Pick(T)}])]
  BY <1>7
<1> HIDE DEF it
<1>9. FoldsIn(it, S, Queues, base, choose, op)
  <2>1. it[{}] = base
    BY <1>8
  <2>2. ASSUME NEW T \in SUBSET S, T # {}, it[T \ {choose[T]}] \in Queues
        PROVE  it[T] = op[<<choose[T], it[T \ {choose[T]}]>>]
    <3>1. choose[T] = Pick(T) /\ choose[T] \in S
      BY <1>4, <2>2 DEF Chooses
    <3>2. it[T] = Step(Pick(T), it[T \ {Pick(T)}])
      BY <1>8, <2>2
    <3> QED
      BY <1>5, <2>2, <3>1, <3>2
  <2> QED
    BY <2>1, <2>2 DEF FoldsIn
<1>10. it[S] \in Queues /\ <<it[S], S>> \in R
  BY <1>4, <1>6, <1>9, FoldKeeps
<1> QED
  BY <1>1, <1>10 DEF it

\* A loop that pushes commands.
LEMMA PushAllFolds ==
    ASSUME NEW n \in 1..3, NEW base \in Queues, NEW S \in SUBSET Cmds, IsFiniteSet(S), NEW R, <<base, {}>> \in R,
           \A T \in SUBSET S, e \in S, v \in Queues :
              e \notin T /\ <<v, T>> \in R => <<Push(v, n, e), T \cup {e}>> \in R
    PROVE  PushAll(base, n, S) \in Queues /\ <<PushAll(base, n, S), S>> \in R
<1> DEFINE Step(e, v) == CHOOSE r \in {Push(x, n, e) : x \in {v}} : TRUE
           IsIt(it) == it = [T \in SUBSET S |->
                               IF T = {} THEN base ELSE Step(Pick(T), it[T \ {Pick(T)}])]
           choose == [T \in SUBSET S |-> Pick(T)]
           op == [p \in S \X Queues |-> Push(p[2], n, p[1])]
<1>1. PushAll(base, n, S) = (CHOOSE it : IsIt(it))[S]
  BY DEF PushAll, Each, FoldSet, MapThenFoldSet, Pick
<1>2. \A v \in Queues, e \in S : Step(e, v) = Push(v, n, e) /\ Step(e, v) \in Queues
  <2> TAKE v \in Queues, e \in S
  <2>1. {Push(x, n, e) : x \in {v}} = {Push(v, n, e)}
    OBVIOUS
  <2>2. Step(e, v) = Push(v, n, e)
    BY <2>1
  <2> HIDE DEF Step
  <2> QED
    BY <2>2, PushedIs
<1>3. op \in [S \X Queues -> Queues] /\ \A x \in S, v \in Queues : op[<<x, v>>] = Push(v, n, x)
  <2>1. \A x \in S, v \in Queues : Push(v, n, x) \in Queues
    BY PushedIs
  <2>2. \A p \in S \X Queues : p[1] \in S /\ p[2] \in Queues
    OBVIOUS
  <2>3. \A p \in S \X Queues : Push(p[2], n, p[1]) \in Queues
    BY <2>1, <2>2
  <2>4. op \in [S \X Queues -> Queues]
    BY <2>3
  <2> QED
    BY <2>4
<1>4. Chooses(choose, S) /\ \A T \in SUBSET S : choose[T] = Pick(T)
  BY PickIsThere DEF Chooses
<1> HIDE DEF choose, op, Step
<1>5. \A x \in S, v \in Queues : op[<<x, v>>] = Step(x, v) /\ Step(x, v) \in Queues
  BY <1>2, <1>3
<1>6. KeptBy(R, S, Queues, op)
  <2> SUFFICES ASSUME NEW T \in SUBSET S, NEW x \in S, NEW v \in Queues, x \notin T, <<v, T>> \in R
               PROVE  op[<<x, v>>] \in Queues /\ <<op[<<x, v>>], T \cup {x}>> \in R
    BY DEF KeptBy
  <2>1. op[<<x, v>>] = Push(v, n, x) /\ op[<<x, v>>] \in Queues
    BY <1>3, <1>5
  <2>2. <<Push(v, n, x), T \cup {x}>> \in R
    OBVIOUS
  <2> QED
    BY <2>1, <2>2
<1>7. \E it : IsIt(it)
  <2>1. PICK it \in [SUBSET S -> Queues] : IsFold(it, S, base, choose, op)
    BY <1>3, <1>4, FoldExists
  <2>2. it = [T \in SUBSET S |-> IF T = {} THEN base ELSE op[<<choose[T], it[T \ {choose[T]}]>>]]
    BY <2>1 DEF IsFold
  <2>3. ASSUME NEW T \in SUBSET S, T # {}
        PROVE  op[<<choose[T], it[T \ {choose[T]}]>>] = Step(Pick(T), it[T \ {Pick(T)}])
    <3>1. T \ {Pick(T)} \in SUBSET S /\ choose[T] = Pick(T) /\ Pick(T) \in S
      BY <1>4, <2>3 DEF Chooses
    <3>2. it[T \ {Pick(T)}] \in Queues
      BY <3>1
    <3> QED
      BY <1>5, <3>1, <3>2
  <2>4. it = [T \in SUBSET S |-> IF T = {} THEN base ELSE Step(Pick(T), it[T \ {Pick(T)}])]
    BY <2>2, <2>3
  <2> QED
    BY <2>4
<1> DEFINE it == CHOOSE it : IsIt(it)
<1>8. it = [T \in SUBSET S |-> IF T = {} THEN base ELSE Step(Pick(T), it[T \ {Pick(T)}])]
  BY <1>7
<1> HIDE DEF it
<1>9. FoldsIn(it, S, Queues, base, choose, op)
  <2>1. it[{}] = base
    BY <1>8
  <2>2. ASSUME NEW T \in SUBSET S, T # {}, it[T \ {choose[T]}] \in Queues
        PROVE  it[T] = op[<<choose[T], it[T \ {choose[T]}]>>]
    <3>1. choose[T] = Pick(T) /\ choose[T] \in S
      BY <1>4, <2>2 DEF Chooses
    <3>2. it[T] = Step(Pick(T), it[T \ {Pick(T)}])
      BY <1>8, <2>2
    <3> QED
      BY <1>5, <2>2, <3>1, <3>2
  <2> QED
    BY <2>1, <2>2 DEF FoldsIn
<1>10. it[S] \in Queues /\ <<it[S], S>> \in R
  BY <1>4, <1>6, <1>9, FoldKeeps
<1> QED
  BY <1>1, <1>10 DEF it

\* The marks of some slots are deleted.
LEMMA AgreesAllDeleted ==
    ASSUME NEW q, NEW d, NEW U, NEW mk, NEW lk, NEW live, Agrees(q, d, U, mk, lk, live),
           NEW X \in SUBSET Slots, NEW ids, ids = {mk[s] : s \in X}, ids \subseteq U,
           IsFiniteSet(ids), \A s \in X : mk[s] # NoMark
    PROVE  Agrees(delete_marks(q, ids), d, U, mk, lk, live \ X)
<1> DEFINE Of(T) == {s \in Slots : mk[s] \in T}
           R == {p \in Queues \X SUBSET ids : Agrees(p[1], d, U, mk, lk, live \ Of(p[2]))}
<1>1. /\ q \in Queues /\ U \subseteq Nat /\ live \subseteq Slots
      /\ \A s, t \in Slots : mk[s] = mk[t] /\ mk[s] # NoMark => s = t
  BY DEF Agrees, Queued
<1>2. <<q, {}>> \in R
  <2>1. live \ Of({}) = live
    OBVIOUS
  <2> QED
    BY <1>1, <2>1
<1>3. ASSUME NEW T \in SUBSET ids, NEW e \in ids, NEW v \in Queues, e \notin T, <<v, T>> \in R
      PROVE  <<delete_mark(v, e), T \cup {e}>> \in R
  <2>1. PICK s \in X : e = mk[s]
    OBVIOUS
  <2>2. s \in Slots /\ mk[s] # NoMark /\ mk[s] \in U
    BY <2>1
  <2>3. Agrees(v, d, U, mk, lk, live \ Of(T))
    BY <1>3
  <2>4. Of(T \cup {e}) = Of(T) \cup {s}
    BY <1>1, <2>1, <2>2
  <2> HIDE DEF Of
  <2>5. (live \ Of(T)) \ {s} = live \ Of(T \cup {e})
    BY <2>4
  <2>6. Agrees(delete_mark(v, mk[s]), d, U, mk, lk, (live \ Of(T)) \ {s})
    BY <2>2, <2>3, AgreesDeleted
  <2>7. delete_mark(v, e) \in Queues
    BY <1>1, <2>1, <2>2, DeletedIn
  <2> QED
    BY <2>1, <2>5, <2>6, <2>7
<1>4. Of(ids) = X
  BY <1>1
<1> HIDE DEF R, Of
<1>5. ids \in SUBSET Nat
  BY <1>1
<1>6. <<delete_marks(q, ids), ids>> \in R
  BY <1>1, <1>2, <1>3, <1>5, delete_marksFolds
<1> QED
  BY <1>4, <1>6 DEF R

\* The marks of some slots are drawn.
LEMMA AgreesAllDrawn ==
    ASSUME NEW q, NEW d, NEW U, NEW mk, NEW lk, NEW live, Agrees(q, d, U, mk, lk, live),
           NEW X \in SUBSET Slots, \A s \in X : mk[s] \in Nat \ U /\ mk[s] # NoMark /\ lk[s] \in Looks,
           NEW cmds, cmds = {DrawCmd(mk[s], lk[s]) : s \in X}, IsFiniteSet(cmds)
    PROVE  Agrees(PushAll(q, 3, cmds), d, U \cup {mk[s] : s \in X}, mk, lk, live \cup X)
<1> DEFINE Cmd(s) == DrawCmd(mk[s], lk[s])
           Of(T) == {s \in X : Cmd(s) \in T}
           Ids(T) == {c.id : c \in T}
           R == {p \in Queues \X SUBSET cmds :
                    Agrees(p[1], d, U \cup Ids(p[2]), mk, lk, live \cup Of(p[2]))}
<1>1. /\ q \in Queues /\ U \subseteq Nat /\ live \subseteq Slots
      /\ \A s, t \in Slots : mk[s] = mk[t] /\ mk[s] # NoMark => s = t
  BY DEF Agrees, Queued
<1>2. \A s \in X : Cmd(s) \in Cmds /\ Cmd(s).id = mk[s]
  BY DEF DrawCmd, Cmds, Making
<1>3. <<q, {}>> \in R
  <2>1. live \cup Of({}) = live /\ U \cup Ids({}) = U
    OBVIOUS
  <2> QED
    BY <1>1, <2>1
<1>4. ASSUME NEW T \in SUBSET cmds, NEW e \in cmds, NEW v \in Queues, e \notin T, <<v, T>> \in R
      PROVE  <<Push(v, 3, e), T \cup {e}>> \in R
  <2>1. PICK s \in X : e = Cmd(s)
    OBVIOUS
  <2>2. s \in Slots /\ mk[s] # NoMark /\ mk[s] \in Nat \ U /\ lk[s] \in Looks
    BY <2>1
  <2>3. Agrees(v, d, U \cup Ids(T), mk, lk, live \cup Of(T))
    BY <1>4
  <2>4. \A t \in X : Cmd(t) = e => t = s
    BY <1>1, <1>2, <2>1, <2>2
  <2>5. Of(T \cup {e}) = Of(T) \cup {s}
    BY <2>1, <2>4
  <2>6. Ids(T \cup {e}) = Ids(T) \cup {mk[s]}
    BY <1>2, <2>1
  <2>7. mk[s] \notin Ids(T)
    <3> SUFFICES ASSUME NEW c \in T, c.id = mk[s] PROVE FALSE
      OBVIOUS
    <3>1. PICK t \in X : c = Cmd(t)
      OBVIOUS
    <3>2. t = s
      BY <1>1, <1>2, <2>2, <3>1
    <3> QED
      BY <1>4, <2>1, <3>1, <3>2
  <2> HIDE DEF Of, Ids
  <2>8. Agrees(Push(v, 3, e), d, (U \cup Ids(T)) \cup {mk[s]}, mk, lk, (live \cup Of(T)) \cup {s})
    <3>1. mk[s] \in Nat \ (U \cup Ids(T))
      BY <2>2, <2>7
    <3>2. e = DrawCmd(mk[s], lk[s]) /\ 3 \in {2, 3}
      BY <2>1
    <3> DEFINE W == U \cup Ids(T)
               L == live \cup Of(T)
    <3> HIDE DEF W, L, Cmd
    <3>3. Agrees(v, d, W, mk, lk, L) /\ mk[s] \in Nat \ W
      BY <2>3, <3>1 DEF W, L
    <3>4. Agrees(Push(v, 3, e), d, W \cup {mk[s]}, mk, lk, L \cup {s})
      BY ONLY <2>2, <3>2, <3>3, AgreesDrawn
    <3> QED
      BY <3>4 DEF W, L
  <2>9. /\ (U \cup Ids(T)) \cup {mk[s]} = U \cup Ids(T \cup {e})
        /\ (live \cup Of(T)) \cup {s} = live \cup Of(T \cup {e})
    BY <2>5, <2>6
  <2>10. Push(v, 3, e) \in Queues
    <3>1. e \in Cmds /\ 3 \in 1..3
      BY <1>2, <2>1
    <3> QED
      BY <3>1, PushedIs
  <2> HIDE DEF Cmd
  <2> QED
    BY <2>8, <2>9, <2>10
<1>5. Of(cmds) = X
  OBVIOUS
<1>6. Ids(cmds) = {mk[s] : s \in X}
  BY <1>2
<1>7. cmds \in SUBSET Cmds /\ 3 \in 1..3
  BY <1>2
<1> HIDE DEF R, Of, Ids, Cmd
<1>8. <<PushAll(q, 3, cmds), cmds>> \in R
  BY <1>1, <1>3, <1>4, <1>7, PushAllFolds
<1> QED
  BY <1>5, <1>6, <1>8 DEF R

\* The looks kk are lk but that a field of those of X has the values val, as the commands say.
Resets(cmds, X, live, mk, lk, kk, field, val) ==
    /\ X \in SUBSET live /\ field \in Fields /\ \A s \in X : val[s] \in Vals
    /\ \A s \in X : kk[s] = [lk[s] EXCEPT ![field] = val[s]]
    /\ \A s \in live \ X : kk[s] = lk[s]
    /\ cmds = {SetCmd(mk[s], field, val[s]) : s \in X} /\ IsFiniteSet(cmds)

\* The marks of some slots that live are changed.
LEMMA AgreesAllChanged ==
    ASSUME NEW q, NEW d, NEW U, NEW mk, NEW lk, NEW live, Agrees(q, d, U, mk, lk, live),
           NEW X, NEW field, NEW val, NEW kk, NEW cmds, Resets(cmds, X, live, mk, lk, kk, field, val)
    PROVE  Agrees(PushAll(q, 3, cmds), d, U, mk, kk, live)
<1> SUFFICES ASSUME X \in SUBSET live, field \in Fields, \A s \in X : val[s] \in Vals,
                    \A s \in X : kk[s] = [lk[s] EXCEPT ![field] = val[s]],
                    \A s \in live \ X : kk[s] = lk[s],
                    cmds = {SetCmd(mk[s], field, val[s]) : s \in X}, IsFiniteSet(cmds)
             PROVE  Agrees(PushAll(q, 3, cmds), d, U, mk, kk, live)
  BY DEF Resets
<1> DEFINE Cmd(s) == SetCmd(mk[s], field, val[s])
           Lk(T) == [s \in Slots |-> IF s \in X /\ Cmd(s) \in T THEN kk[s] ELSE lk[s]]
           R == {p \in Queues \X SUBSET cmds : Agrees(p[1], d, U, mk, Lk(p[2]), live)}
<1>1. /\ q \in Queues /\ U \subseteq Nat /\ live \subseteq Slots
      /\ \A s, t \in Slots : mk[s] = mk[t] /\ mk[s] # NoMark => s = t
      /\ \A s \in live : mk[s] # NoMark
      /\ DOMAIN Final(q, d).shown = {mk[s] : s \in live}
  BY DEF Agrees, Queued
<1>2. \A s \in live : mk[s] \in Nat
  <2>1. DOMAIN Final(q, d).shown \subseteq U
    BY FinalIsNamed DEF Agrees
  <2> QED
    BY <1>1, <2>1
<1>3. \A s \in X : Cmd(s) \in Cmds /\ Cmd(s).id = mk[s]
  BY <1>2 DEF SetCmd, Cmds, Setting
<1> HIDE DEF Cmd
<1>4. \A T \in SUBSET cmds : \A s \in live :
         Lk(T)[s] = IF s \in X /\ Cmd(s) \in T THEN kk[s] ELSE lk[s]
  BY <1>1
<1>5. \A s, t \in Slots : mk[s] = mk[t] /\ mk[s] # NoMark => s = t
  BY <1>1
<1>6. <<q, {}>> \in R
  <2>1. \A s \in live : Lk({})[s] = lk[s]
    <3> HIDE DEF Lk
    <3>1. {} \in SUBSET cmds
      OBVIOUS
    <3> QED
      BY <1>4, <3>1
  <2> HIDE DEF Lk
  <2>2. Agrees(q, d, U, mk, Lk({}), live)
    BY <1>5, <2>1, AgreesAs
  <2> QED
    BY <1>1, <2>2
<1>7. ASSUME NEW T \in SUBSET cmds, NEW e \in cmds, NEW v \in Queues, e \notin T, <<v, T>> \in R
      PROVE  <<Push(v, 3, e), T \cup {e}>> \in R
  <2>1. PICK s \in X : e = Cmd(s)
    BY DEF Cmd
  <2>2. s \in live /\ val[s] \in Vals
    OBVIOUS
  <2>3. Agrees(v, d, U, mk, Lk(T), live)
    BY <1>7
  <2>4. \A t \in X : Cmd(t) = e => t = s
    BY <1>1, <1>3, <2>1, <2>2
  <2> HIDE DEF Lk
  <2> DEFINE more == T \cup {e}
  <2>11. more \in SUBSET cmds /\ T \in SUBSET cmds /\ e \in more /\ e \notin T
         /\ \A c : c \in more => c \in T \/ c = e
    BY <1>7
  <2> HIDE DEF more
  <2>5. Lk(T)[s] = lk[s] /\ Lk(more)[s] = kk[s]
    BY <1>4, <2>1, <2>2, <2>11
  <2>6. \A t \in live \ {s} : Lk(more)[t] = Lk(T)[t]
    <3> TAKE t \in live \ {s}
    <3>1. t \in X => (Cmd(t) \in more <=> Cmd(t) \in T)
      BY <2>4, <2>11 DEF more
    <3> QED
      BY <1>4, <2>11, <3>1
  <2>7. Lk(more)[s] = [Lk(T)[s] EXCEPT ![field] = val[s]]
    BY <2>5
  <2> DEFINE old == Lk(T)
             new == Lk(more)
  <2> HIDE DEF old, new
  <2>8. Agrees(set_markup(v, mk[s], field, val[s]), d, U, mk, new, live)
    <3>1. Agrees(v, d, U, mk, old, live) /\ new[s] = [old[s] EXCEPT ![field] = val[s]]
          /\ \A t \in live \ {s} : new[t] = old[t]
      BY <2>3, <2>6, <2>7 DEF old, new
    <3> QED
      BY <2>2, <3>1, AgreesChanged
  <2>9. Push(v, 3, e) = set_markup(v, mk[s], field, val[s])
    BY <2>1 DEF set_markup, Cmd
  <2>10. Push(v, 3, e) \in Queues
    <3>1. e \in Cmds /\ 3 \in 1..3
      BY <1>3, <2>1
    <3> QED
      BY <3>1, PushedIs
  <2> QED
    BY <2>8, <2>9, <2>10, <2>11 DEF new, more
<1>8. \A s \in live : Lk(cmds)[s] = kk[s]
  <2> HIDE DEF Lk
  <2>1. cmds \in SUBSET cmds /\ \A s \in X : Cmd(s) \in cmds
    BY DEF Cmd
  <2> QED
    BY <1>4, <2>1
<1>9. cmds \in SUBSET Cmds /\ 3 \in 1..3
  BY <1>3 DEF Cmd
<1> HIDE DEF R, Lk
<1>10. <<PushAll(q, 3, cmds), cmds>> \in R
  BY <1>1, <1>6, <1>7, <1>9, PushAllFolds
<1>11. Agrees(PushAll(q, 3, cmds), d, U, mk, Lk(cmds), live)
  BY <1>10 DEF R
<1> QED
  BY <1>5, <1>8, <1>11, AgreesAs

-----------------------------------------------------------------------------
(* The program's tables: the marks of the slots, and how they look. *)

Markups == UNION {[ring : Nat \ {0}, capturable : Nat \ {0}, label : Nat \ {0}, side : Colours,
                   logi : Nat, at : Nat, arrows : [D -> Nat \ {0}], ends : [D -> Nat]]
                  : D \in SUBSET Farps}

Works == [q : Queues, table : [Objectives -> {NoMarkup} \cup Markups],
          pin : [Groups -> Nat], dst : [Raids -> Nat], n : Nat \ {0}]

\* A world the objectives are drawn from.
Worlds == [Objectives -> [owner : Sides \cup {Nobody}, logi : 0..2, at : {0, 1}]]

PinSlot(g) == <<"pin", g>>
DstSlot(g) == <<"dst", g>>
RingSlot(o) == <<"ring", o>>
CapturableSlot(o) == <<"capturable", o>>
LabelSlot(o) == <<"label", o>>
ArrowSlot(o, f) == <<"arrow", <<o, f>>>>

MarkupSlots(o) ==
    {RingSlot(o), CapturableSlot(o), LabelSlot(o)} \cup {ArrowSlot(o, f) : f \in Farps}

MarkupMark(m, s) ==
    IF m = NoMarkup THEN NoMark
    ELSE CASE s[1] = "ring" -> m.ring
           [] s[1] = "capturable" -> m.capturable
           [] s[1] = "label" -> m.label
           [] s[1] = "arrow" -> IF s[2][2] \in DOMAIN m.arrows THEN m.arrows[s[2][2]] ELSE NoMark

MarkupLook(m, s) ==
    CASE s[1] = "ring" -> Look(m.side, 0, m.at)
      [] s[1] = "capturable" -> Look(Capturable(m.logi), 0, m.at)
      [] s[1] = "label" -> Look(m.side, m.logi, m.at)
      [] s[1] = "arrow" -> Arrow(m.ends[s[2][2]])

\* The mark of each slot, by the tables.
MK(w) == [s \in Slots |->
             CASE s[1] = "pin" -> w.pin[s[2]]
               [] s[1] = "dst" -> w.dst[s[2]]
               [] s[1] \in {"ring", "capturable", "label"} -> MarkupMark(w.table[s[2]], s)
               [] s[1] = "arrow" -> MarkupMark(w.table[s[2][1]], s)]

\* How the mark of each slot is to look.
LK(w, pos) == [s \in Slots |->
             CASE s[1] = "pin" -> Look("pin", 0, pos[s[2]])
               [] s[1] = "dst" -> Look("pin", 0, Target)
               [] s[1] \in {"ring", "capturable", "label"} -> MarkupLook(w.table[s[2]], s)
               [] s[1] = "arrow" -> MarkupLook(w.table[s[2][1]], s)]

\* The pins at the destinations of the raids in `back`, told to return.
Away(s, back) == \E g \in back : s = DstSlot(g)

\* The slots whose marks the players are to see.
Live(w, back) ==
    {s \in Slots : MK(w)[s] # NoMark /\ ~Away(s, back)}

\* Which slots there are.
LEMMA SlotsThere ==
    /\ \A g \in Groups : PinSlot(g) \in Slots
    /\ \A g \in Raids : DstSlot(g) \in Slots
    /\ \A o \in Objectives : MarkupSlots(o) \subseteq Slots
<1>1. \A g \in Groups : PinSlot(g) \in Slots
  BY DEF Slots, PinSlot
<1>2. \A g \in Raids : DstSlot(g) \in Slots
  BY DEF Slots, DstSlot
<1>3. \A o \in Objectives : RingSlot(o) \in Slots /\ CapturableSlot(o) \in Slots /\ LabelSlot(o) \in Slots
  BY DEF Slots, RingSlot, CapturableSlot, LabelSlot
<1>4. \A o \in Objectives : \A f \in Farps : ArrowSlot(o, f) \in Slots
  <2> TAKE o \in Objectives
  <2> TAKE f \in Farps
  <2>1. <<o, f>> \in Objectives \X Farps
    OBVIOUS
  <2> QED
    BY <2>1 DEF Slots, ArrowSlot
<1> QED
  BY <1>1, <1>2, <1>3, <1>4 DEF MarkupSlots

\* A slot is a pin's, a destination's or a markup's.
LEMMA SlotsAre ==
    ASSUME NEW s \in Slots
    PROVE  \/ \E g \in Groups : s = PinSlot(g)
           \/ \E g \in Raids : s = DstSlot(g)
           \/ \E o \in Objectives : s \in MarkupSlots(o)
<1>1. CASE s \in {"pin"} \X Groups
  BY <1>1 DEF PinSlot
<1>2. CASE s \in {"dst"} \X Raids
  BY <1>2 DEF DstSlot
<1>3. CASE s \in {"ring", "capturable", "label"} \X Objectives
  BY <1>3 DEF MarkupSlots, RingSlot, CapturableSlot, LabelSlot
<1>4. CASE s \in {"arrow"} \X (Objectives \X Farps)
  <2>1. s[1] = "arrow" /\ s[2] \in Objectives \X Farps /\ s = <<s[1], s[2]>>
    BY <1>4
  <2>2. PICK o \in Objectives, f \in Farps : s[2] = <<o, f>>
    BY <2>1
  <2>3. s = ArrowSlot(o, f)
    BY <2>1, <2>2 DEF ArrowSlot
  <2> QED
    BY <2>3 DEF MarkupSlots
<1> QED
  BY <1>1, <1>2, <1>3, <1>4 DEF Slots

\* The slots of different things differ.
LEMMA SlotsDiffer ==
    /\ \A g, h : PinSlot(g) = PinSlot(h) => g = h
    /\ \A g, h : DstSlot(g) = DstSlot(h) => g = h
    /\ \A g, h : PinSlot(g) # DstSlot(h)
    /\ \A g, o : PinSlot(g) \notin MarkupSlots(o) /\ DstSlot(g) \notin MarkupSlots(o)
    /\ \A o, h : o # h => MarkupSlots(o) \cap MarkupSlots(h) = {}
<1>1. /\ \A g, h : PinSlot(g) = PinSlot(h) => g = h
      /\ \A g, h : DstSlot(g) = DstSlot(h) => g = h
      /\ \A g, h : PinSlot(g) # DstSlot(h)
  BY DEF PinSlot, DstSlot
<1>2. \A o, s : s \in MarkupSlots(o) => /\ s[1] \in {"ring", "capturable", "label", "arrow"}
                                        /\ o = IF s[1] = "arrow" THEN s[2][1] ELSE s[2]
  BY DEF MarkupSlots, RingSlot, CapturableSlot, LabelSlot, ArrowSlot
<1>3. \A g : PinSlot(g)[1] = "pin" /\ DstSlot(g)[1] = "dst"
  BY DEF PinSlot, DstSlot
<1>4. \A g, o : PinSlot(g) \notin MarkupSlots(o) /\ DstSlot(g) \notin MarkupSlots(o)
  BY <1>2, <1>3
<1>5. \A o, h : o # h => MarkupSlots(o) \cap MarkupSlots(h) = {}
  BY <1>2
<1> QED
  BY <1>1, <1>4, <1>5

\* What the slots of a markup are.
LEMMA MarkupSlotsDiffer ==
    \A o : /\ RingSlot(o) # CapturableSlot(o) /\ RingSlot(o) # LabelSlot(o)
           /\ CapturableSlot(o) # LabelSlot(o)
           /\ \A f : ArrowSlot(o, f) \notin {RingSlot(o), CapturableSlot(o), LabelSlot(o)}
           /\ \A f, h : ArrowSlot(o, f) = ArrowSlot(o, h) => f = h
  BY DEF RingSlot, CapturableSlot, LabelSlot, ArrowSlot

\* The fields of a markup.
LEMMA MarkupIs ==
    ASSUME NEW m \in Markups
    PROVE  /\ m.ring \in Nat \ {0} /\ m.capturable \in Nat \ {0} /\ m.label \in Nat \ {0}
           /\ m.side \in Colours /\ m.logi \in Nat /\ m.at \in Nat
           /\ DOMAIN m.arrows \in SUBSET Farps /\ DOMAIN m.ends = DOMAIN m.arrows
           /\ m.arrows \in [DOMAIN m.arrows -> Nat \ {0}]
           /\ m.ends \in [DOMAIN m.arrows -> Nat]
           /\ m # NoMarkup
<1>1. PICK D \in SUBSET Farps :
         m \in [ring : Nat \ {0}, capturable : Nat \ {0}, label : Nat \ {0}, side : Colours,
                logi : Nat, at : Nat, arrows : [D -> Nat \ {0}], ends : [D -> Nat]]
  BY DEF Markups
<1>2. m.ring # 0
  BY <1>1
<1>3. NoMarkup.ring = 0
  BY DEF NoMarkup, NoMark
<1>4. m # NoMarkup
  BY <1>2, <1>3
<1>5. m.arrows \in [D -> Nat \ {0}] /\ m.ends \in [D -> Nat]
  BY <1>1
<1>6. DOMAIN m.arrows = D /\ DOMAIN m.ends = D
  BY <1>5
<1> QED
  BY <1>1, <1>4, <1>5, <1>6

\* The marks by the tables.
LEMMA MarksOfGroups ==
    ASSUME NEW w
    PROVE  /\ \A g \in Groups : MK(w)[PinSlot(g)] = w.pin[g]
           /\ \A g \in Raids : MK(w)[DstSlot(g)] = w.dst[g]
           /\ \A o \in Objectives : \A s \in MarkupSlots(o) : MK(w)[s] = MarkupMark(w.table[o], s)
<1>1. \A g \in Groups : MK(w)[PinSlot(g)] = w.pin[g]
  <2> TAKE g \in Groups
  <2>1. PinSlot(g) \in Slots /\ PinSlot(g)[1] = "pin" /\ PinSlot(g)[2] = g
    BY SlotsThere DEF PinSlot
  <2> QED
    BY <2>1 DEF MK
<1>2. \A g \in Raids : MK(w)[DstSlot(g)] = w.dst[g]
  <2> TAKE g \in Raids
  <2>1. DstSlot(g) \in Slots /\ DstSlot(g)[1] = "dst" /\ DstSlot(g)[2] = g
    BY SlotsThere DEF DstSlot
  <2> QED
    BY <2>1 DEF MK
<1>3. \A o \in Objectives : \A s \in MarkupSlots(o) : MK(w)[s] = MarkupMark(w.table[o], s)
  <2> TAKE o \in Objectives
  <2> TAKE s \in MarkupSlots(o)
  <2>1. s \in Slots
    BY SlotsThere
  <2>2. \/ s[1] \in {"ring", "capturable", "label"} /\ s[2] = o
        \/ s[1] = "arrow" /\ s[2][1] = o
    BY DEF MarkupSlots, RingSlot, CapturableSlot, LabelSlot, ArrowSlot
  <2>3. CASE s[1] \in {"ring", "capturable", "label"} /\ s[2] = o
    BY <2>1, <2>3 DEF MK
  <2>4. CASE s[1] = "arrow" /\ s[2][1] = o
    BY <2>1, <2>4 DEF MK
  <2> QED
    BY <2>2, <2>3, <2>4
<1> QED
  BY <1>1, <1>2, <1>3

\* The looks by the tables.
LEMMA LooksOfGroups ==
    ASSUME NEW w, NEW pos
    PROVE  /\ \A g \in Groups : LK(w, pos)[PinSlot(g)] = Look("pin", 0, pos[g])
           /\ \A g \in Raids : LK(w, pos)[DstSlot(g)] = Look("pin", 0, Target)
           /\ \A o \in Objectives : \A s \in MarkupSlots(o) : LK(w, pos)[s] = MarkupLook(w.table[o], s)
<1>1. \A g \in Groups : LK(w, pos)[PinSlot(g)] = Look("pin", 0, pos[g])
  <2> TAKE g \in Groups
  <2>1. PinSlot(g) \in Slots /\ PinSlot(g)[1] = "pin" /\ PinSlot(g)[2] = g
    BY SlotsThere DEF PinSlot
  <2> QED
    BY <2>1 DEF LK
<1>2. \A g \in Raids : LK(w, pos)[DstSlot(g)] = Look("pin", 0, Target)
  <2> TAKE g \in Raids
  <2>1. DstSlot(g) \in Slots /\ DstSlot(g)[1] = "dst" /\ DstSlot(g)[2] = g
    BY SlotsThere DEF DstSlot
  <2> QED
    BY <2>1 DEF LK
<1>3. \A o \in Objectives : \A s \in MarkupSlots(o) : LK(w, pos)[s] = MarkupLook(w.table[o], s)
  <2> TAKE o \in Objectives
  <2> TAKE s \in MarkupSlots(o)
  <2>1. s \in Slots
    BY SlotsThere
  <2>2. \/ s[1] \in {"ring", "capturable", "label"} /\ s[2] = o
        \/ s[1] = "arrow" /\ s[2][1] = o
    BY DEF MarkupSlots, RingSlot, CapturableSlot, LabelSlot, ArrowSlot
  <2>3. CASE s[1] \in {"ring", "capturable", "label"} /\ s[2] = o
    BY <2>1, <2>3 DEF LK
  <2>4. CASE s[1] = "arrow" /\ s[2][1] = o
    BY <2>1, <2>4 DEF LK
  <2> QED
    BY <2>2, <2>3, <2>4
<1> QED
  BY <1>1, <1>2, <1>3

\* The marks and the looks of a markup.
LEMMA MarksOfMarkup ==
    ASSUME NEW m, NEW o
    PROVE  /\ m = NoMarkup => \A s : MarkupMark(m, s) = NoMark
           /\ m # NoMarkup =>
                 /\ MarkupMark(m, RingSlot(o)) = m.ring
                 /\ MarkupMark(m, CapturableSlot(o)) = m.capturable
                 /\ MarkupMark(m, LabelSlot(o)) = m.label
                 /\ \A f \in DOMAIN m.arrows : MarkupMark(m, ArrowSlot(o, f)) = m.arrows[f]
                 /\ \A f : f \notin DOMAIN m.arrows => MarkupMark(m, ArrowSlot(o, f)) = NoMark
           /\ MarkupLook(m, RingSlot(o)) = Look(m.side, 0, m.at)
           /\ MarkupLook(m, CapturableSlot(o)) = Look(Capturable(m.logi), 0, m.at)
           /\ MarkupLook(m, LabelSlot(o)) = Look(m.side, m.logi, m.at)
           /\ \A f : MarkupLook(m, ArrowSlot(o, f)) = Arrow(m.ends[f])
<1>1. /\ RingSlot(o)[1] = "ring" /\ CapturableSlot(o)[1] = "capturable" /\ LabelSlot(o)[1] = "label"
      /\ \A f : ArrowSlot(o, f)[1] = "arrow" /\ ArrowSlot(o, f)[2][2] = f
  BY DEF RingSlot, CapturableSlot, LabelSlot, ArrowSlot
<1> QED
  BY <1>1 DEF MarkupMark, MarkupLook

-----------------------------------------------------------------------------
(* Tables that agree with the map. *)

\* The marks named so far.
Named(w) == 1..(w.n - 1)

\* The tables w, where groups are where pos has them and the raids in back were told to return,
\* are what the map will show when all is sent.
Good(w, d, pos, back) ==
    /\ w \in Works
    /\ \A s \in Slots : MK(w)[s] # NoMark => MK(w)[s] \in Named(w)
    /\ Agrees(w.q, d, Named(w), MK(w), LK(w, pos), Live(w, back))

\* The tables hold marks.
LEMMA MarksIn ==
    ASSUME NEW w \in Works, NEW s \in Slots
    PROVE  MK(w)[s] \in Nat
<1>1. CASE \E g \in Groups : s = PinSlot(g)
  <2>1. PICK g \in Groups : s = PinSlot(g)
    BY <1>1
  <2>2. w.pin[g] \in Nat
    BY DEF Works
  <2> QED
    BY <2>1, <2>2, MarksOfGroups
<1>2. CASE \E g \in Raids : s = DstSlot(g)
  <2>1. PICK g \in Raids : s = DstSlot(g)
    BY <1>2
  <2>2. w.dst[g] \in Nat
    BY DEF Works
  <2> QED
    BY <2>1, <2>2, MarksOfGroups
<1>3. CASE \E o \in Objectives : s \in MarkupSlots(o)
  <2>1. PICK o \in Objectives : s \in MarkupSlots(o)
    BY <1>3
  <2> DEFINE m == w.table[o]
  <2>2. m \in {NoMarkup} \cup Markups /\ MK(w)[s] = MarkupMark(m, s)
    BY <2>1, MarksOfGroups DEF Works
  <2> HIDE DEF m
  <2>3. CASE m = NoMarkup
    BY <2>2, <2>3, MarksOfMarkup DEF NoMark
  <2>4. CASE m \in Markups
    <3>1. m # NoMarkup /\ m.ring \in Nat /\ m.capturable \in Nat /\ m.label \in Nat
      BY <2>4, MarkupIs
    <3>2. \A f \in DOMAIN m.arrows : m.arrows[f] \in Nat
      BY <2>4, MarkupIs
    <3>3. MarkupMark(m, s) \in Nat
      <4>1. CASE s \in {RingSlot(o), CapturableSlot(o), LabelSlot(o)}
        BY <3>1, <4>1, MarksOfMarkup
      <4>2. CASE \E f \in Farps : s = ArrowSlot(o, f)
        <5>1. PICK f \in Farps : s = ArrowSlot(o, f)
          BY <4>2
        <5>2. CASE f \in DOMAIN m.arrows
          BY <3>1, <3>2, <5>1, <5>2, MarksOfMarkup
        <5>3. CASE f \notin DOMAIN m.arrows
          BY <3>1, <5>1, <5>3, MarksOfMarkup DEF NoMark
        <5> QED
          BY <5>2, <5>3
      <4> QED
        BY <2>1, <4>1, <4>2 DEF MarkupSlots
    <3> QED
      BY <2>2, <3>3
  <2> QED
    BY <2>2, <2>3, <2>4
<1> QED
  BY <1>1, <1>2, <1>3, SlotsAre

\* A markup has the marks of its slots.
LEMMA MarksOfSlots ==
    ASSUME NEW m \in {NoMarkup} \cup Markups, NEW o
    PROVE  MarksOf(m) = {MarkupMark(m, s) : s \in MarkupSlots(o)} \ {NoMark}
<1>2. CASE m = NoMarkup
  <2>1. \A s \in MarkupSlots(o) : MarkupMark(m, s) = NoMark
    BY <1>2, MarksOfMarkup
  <2> QED
    BY <1>2, <2>1 DEF MarksOf
<1>3. CASE m \in Markups
  <2>1. /\ m # NoMarkup /\ m.ring # NoMark /\ m.capturable # NoMark /\ m.label # NoMark
        /\ DOMAIN m.arrows \subseteq Farps
    BY <1>3, MarkupIs DEF NoMark
  <2>2. \A f \in DOMAIN m.arrows : m.arrows[f] # NoMark
    BY <1>3, MarkupIs DEF NoMark
  <2>3. /\ MarkupMark(m, RingSlot(o)) = m.ring /\ MarkupMark(m, CapturableSlot(o)) = m.capturable
        /\ MarkupMark(m, LabelSlot(o)) = m.label
        /\ \A f \in DOMAIN m.arrows : MarkupMark(m, ArrowSlot(o, f)) = m.arrows[f]
        /\ \A f : f \notin DOMAIN m.arrows => MarkupMark(m, ArrowSlot(o, f)) = NoMark
    BY <2>1, MarksOfMarkup
  <2>4. {MarkupMark(m, s) : s \in MarkupSlots(o)} \ {NoMark} \subseteq RingsOf(m) \cup ArrowsOf(m)
    <3> SUFFICES ASSUME NEW s \in MarkupSlots(o), MarkupMark(m, s) # NoMark
                 PROVE  MarkupMark(m, s) \in RingsOf(m) \cup ArrowsOf(m)
      OBVIOUS
    <3>1. CASE s \in {RingSlot(o), CapturableSlot(o), LabelSlot(o)}
      BY <2>3, <3>1 DEF RingsOf
    <3>2. CASE \E f \in Farps : s = ArrowSlot(o, f)
      <4>1. PICK f \in Farps : s = ArrowSlot(o, f)
        BY <3>2
      <4>2. f \in DOMAIN m.arrows
        BY <2>3, <4>1
      <4> QED
        BY <2>3, <4>1, <4>2 DEF ArrowsOf
    <3> QED
      BY <3>1, <3>2 DEF MarkupSlots
  <2>5. RingsOf(m) \cup ArrowsOf(m) \subseteq {MarkupMark(m, s) : s \in MarkupSlots(o)} \ {NoMark}
    <3>1. RingSlot(o) \in MarkupSlots(o) /\ CapturableSlot(o) \in MarkupSlots(o)
          /\ LabelSlot(o) \in MarkupSlots(o) /\ \A f \in DOMAIN m.arrows : ArrowSlot(o, f) \in MarkupSlots(o)
      BY <2>1 DEF MarkupSlots
    <3> QED
      BY <2>1, <2>2, <2>3, <3>1 DEF RingsOf, ArrowsOf
  <2>6. MarksOf(m) = RingsOf(m) \cup ArrowsOf(m)
    BY <2>1 DEF MarksOf
  <2> QED
    BY <2>4, <2>5, <2>6
<1> QED
  BY <1>2, <1>3

\* What tables that agree with the map say of it: the invariant the model checker is given.
LEMMA GoodShows ==
    ASSUME NEW w, NEW d, NEW pos, NEW back \in SUBSET Raids, Good(w, d, pos, back)
    PROVE  /\ Shows(Final(w.q, d).shown, w, pos, back)
           /\ Final(w.q, d).lost = {} /\ Final(w.q, d) \in Maps
<1> DEFINE seen == Final(w.q, d).shown
           mk == MK(w)
           lk == LK(w, pos)
           live == Live(w, back)
<1>1. /\ w \in Works /\ DOMAIN seen = {mk[s] : s \in live} /\ \A s \in live : seen[mk[s]] = lk[s]
      /\ Final(w.q, d).lost = {} /\ Queued(w.q, d, Named(w))
  BY DEF Good, Agrees
<1>2. Final(w.q, d) \in Maps
  BY <1>1, FinalIsNamed
<1>3. \A s \in Slots : s \in live <=> mk[s] # NoMark /\ ~Away(s, back)
  BY DEF Live
<1>4. /\ \A g \in Groups : mk[PinSlot(g)] = w.pin[g] /\ lk[PinSlot(g)] = Look("pin", 0, pos[g])
      /\ \A g \in Raids : mk[DstSlot(g)] = w.dst[g] /\ lk[DstSlot(g)] = Look("pin", 0, Target)
      /\ \A o \in Objectives : \A s \in MarkupSlots(o) :
            mk[s] = MarkupMark(w.table[o], s) /\ lk[s] = MarkupLook(w.table[o], s)
  BY MarksOfGroups, LooksOfGroups
<1>5. live \subseteq Slots
  BY DEF Live
<1> HIDE DEF seen, mk, lk, live
<1>6. \A g \in Groups : PinSlot(g) \in live <=> w.pin[g] # NoMark
  BY <1>3, <1>4, SlotsThere, SlotsDiffer DEF Away
<1>7. \A g \in Raids : DstSlot(g) \in live <=> w.dst[g] # NoMark /\ g \notin back
  BY <1>3, <1>4, SlotsThere, SlotsDiffer DEF Away
<1>8. ASSUME NEW o \in Objectives
      PROVE  \A s \in MarkupSlots(o) : s \in live <=> MarkupMark(w.table[o], s) # NoMark
  <2> TAKE s \in MarkupSlots(o)
  <2>1. s \in Slots /\ mk[s] = MarkupMark(w.table[o], s)
    BY <1>4, SlotsThere
  <2>2. ~Away(s, back)
    BY SlotsDiffer DEF Away
  <2> QED
    BY <1>3, <2>1, <2>2
<1>9. \A o \in Objectives :
         MarksOf(w.table[o]) = {MarkupMark(w.table[o], s) : s \in MarkupSlots(o)} \ {NoMark}
  <2> TAKE o \in Objectives
  <2>1. w.table[o] \in {NoMarkup} \cup Markups
    BY <1>1 DEF Works
  <2> QED
    BY <2>1, MarksOfSlots
<1>10. {mk[s] : s \in live} = Marked(w, back)
  <2> DEFINE P == {w.pin[g] : g \in Groups}
             D == {w.dst[g] : g \in Raids \ back}
             M == UNION {MarksOf(w.table[o]) : o \in Objectives}
  <2>1. ASSUME NEW s \in live
        PROVE  mk[s] \in ((P \cup D) \ {NoMark}) \cup M
    <3>1. s \in Slots
      BY <1>5
    <3>2. CASE \E g \in Groups : s = PinSlot(g)
      BY <1>4, <1>6, <3>2
    <3>3. CASE \E g \in Raids : s = DstSlot(g)
      BY <1>4, <1>7, <3>3
    <3>4. CASE \E o \in Objectives : s \in MarkupSlots(o)
      <4>1. PICK o \in Objectives : s \in MarkupSlots(o)
        BY <3>4
      <4>2. mk[s] = MarkupMark(w.table[o], s) /\ MarkupMark(w.table[o], s) # NoMark
        BY <1>4, <1>8, <4>1
      <4>3. mk[s] \in MarksOf(w.table[o])
        BY <1>9, <4>1, <4>2
      <4> QED
        BY <4>3
    <3> HIDE DEF P, D, M
    <3> QED
      BY <3>1, <3>2, <3>3, <3>4, SlotsAre
  <2>2. ASSUME NEW id \in P \ {NoMark}
        PROVE  \E s \in live : id = mk[s]
    BY <1>4, <1>6
  <2>3. ASSUME NEW id \in D \ {NoMark}
        PROVE  \E s \in live : id = mk[s]
    BY <1>4, <1>7
  <2>4. ASSUME NEW id \in M
        PROVE  \E s \in live : id = mk[s]
    <3>1. PICK o \in Objectives : id \in MarksOf(w.table[o])
      OBVIOUS
    <3>2. PICK s \in MarkupSlots(o) : id = MarkupMark(w.table[o], s) /\ id # NoMark
      BY <1>9, <3>1
    <3> QED
      BY <1>4, <1>8, <3>2
  <2>5. Marked(w, back) = ((P \cup D) \ {NoMark}) \cup M
    BY DEF Marked
  <2> HIDE DEF P, D, M
  <2> QED
    BY <2>1, <2>2, <2>3, <2>4, <2>5
<1>11. \A g \in Groups : w.pin[g] # NoMark => seen[w.pin[g]] = Look("pin", 0, pos[g])
  BY <1>1, <1>4, <1>6
<1>12. \A g \in Raids \ back : w.dst[g] # NoMark => seen[w.dst[g]] = Look("pin", 0, Target)
  BY <1>1, <1>4, <1>7
<1>13. ASSUME NEW o \in Objectives, w.table[o] # NoMarkup
       PROVE  ShowsMarkup(seen, w.table[o])
  <2> DEFINE m == w.table[o]
  <2>1. m \in Markups
    BY <1>1, <1>13 DEF Works
  <2>2. \A s \in MarkupSlots(o) : /\ mk[s] = MarkupMark(m, s) /\ lk[s] = MarkupLook(m, s)
                                  /\ s \in live <=> MarkupMark(m, s) # NoMark
    BY <1>4, <1>8
  <2> HIDE DEF m
  <2>3. \A s \in MarkupSlots(o) : MarkupMark(m, s) # NoMark => seen[MarkupMark(m, s)] = MarkupLook(m, s)
    BY <1>1, <2>2
  <2>4. /\ m # NoMarkup /\ m.ring # NoMark /\ m.capturable # NoMark /\ m.label # NoMark
        /\ DOMAIN m.arrows \subseteq Farps
    BY <2>1, MarkupIs DEF NoMark
  <2>5. \A f \in DOMAIN m.arrows : m.arrows[f] # NoMark
    BY <2>1, MarkupIs DEF NoMark
  <2>6. RingSlot(o) \in MarkupSlots(o) /\ CapturableSlot(o) \in MarkupSlots(o)
        /\ LabelSlot(o) \in MarkupSlots(o) /\ \A f \in DOMAIN m.arrows : ArrowSlot(o, f) \in MarkupSlots(o)
    BY <2>4 DEF MarkupSlots
  <2>7. /\ seen[m.ring] = Look(m.side, 0, m.at)
        /\ seen[m.capturable] = Look(Capturable(m.logi), 0, m.at)
        /\ seen[m.label] = Look(m.side, m.logi, m.at)
    BY <2>3, <2>4, <2>6, MarksOfMarkup
  <2>8. \A f \in DOMAIN m.arrows : seen[m.arrows[f]] = Arrow(m.ends[f])
    BY <2>3, <2>4, <2>5, <2>6, MarksOfMarkup
  <2> QED
    BY <2>7, <2>8 DEF ShowsMarkup, m
<1> QED
  BY <1>1, <1>2, <1>10, <1>11, <1>12, <1>13 DEF Shows, seen

-----------------------------------------------------------------------------
(* Tables that change. *)

\* From w to v only the marks of the slots in X change, for new ones or for none.
Changes(w, v, X, pos, new, back, gone) ==
    /\ w \in Works /\ v \in Works /\ X \subseteq Slots /\ v.n >= w.n
    /\ \A g \in Groups : PinSlot(g) \in X \/ (v.pin[g] = w.pin[g] /\ (w.pin[g] # NoMark => new[g] = pos[g]))
    /\ \A g \in Raids : DstSlot(g) \in X \/ (v.dst[g] = w.dst[g] /\ (g \in gone <=> g \in back))
    /\ \A o \in Objectives : MarkupSlots(o) \subseteq X \/ v.table[o] = w.table[o]
    /\ \A s \in X : MK(v)[s] # NoMark => MK(v)[s] \in w.n..(v.n - 1)
    /\ \A s, t \in X : MK(v)[s] = MK(v)[t] /\ MK(v)[s] # NoMark => s = t

\* The other slots keep their marks and looks.
LEMMA OthersStay ==
    ASSUME NEW w, NEW v, NEW X, NEW pos, NEW new, NEW back \in SUBSET Raids, NEW gone \in SUBSET Raids,
           Changes(w, v, X, pos, new, back, gone)
    PROVE  \A s \in Slots \ X :
              /\ MK(v)[s] = MK(w)[s]
              /\ MK(w)[s] # NoMark => LK(v, new)[s] = LK(w, pos)[s]
              /\ Away(s, gone) <=> Away(s, back)
<1> TAKE s \in Slots \ X
<1>1. CASE \E g \in Groups : s = PinSlot(g)
  <2>1. PICK g \in Groups : s = PinSlot(g)
    BY <1>1
  <2>2. v.pin[g] = w.pin[g] /\ (w.pin[g] # NoMark => new[g] = pos[g])
    BY <2>1 DEF Changes
  <2>3. MK(v)[s] = v.pin[g] /\ MK(w)[s] = w.pin[g]
    BY <2>1, MarksOfGroups
  <2>4. LK(v, new)[s] = Look("pin", 0, new[g]) /\ LK(w, pos)[s] = Look("pin", 0, pos[g])
    BY <2>1, LooksOfGroups
  <2>5. \A h : s # DstSlot(h)
    BY <2>1, SlotsDiffer
  <2> QED
    BY <2>2, <2>3, <2>4, <2>5 DEF Away
<1>2. CASE \E g \in Raids : s = DstSlot(g)
  <2>1. PICK g \in Raids : s = DstSlot(g)
    BY <1>2
  <2>2. v.dst[g] = w.dst[g] /\ (g \in gone <=> g \in back)
    BY <2>1 DEF Changes
  <2>3. MK(v)[s] = v.dst[g] /\ MK(w)[s] = w.dst[g] /\ LK(v, new)[s] = LK(w, pos)[s]
    BY <2>1, MarksOfGroups, LooksOfGroups
  <2>4. \A h : s = DstSlot(h) => h = g
    BY <2>1, SlotsDiffer
  <2> QED
    BY <2>1, <2>2, <2>3, <2>4 DEF Away
<1>3. CASE \E o \in Objectives : s \in MarkupSlots(o)
  <2>1. PICK o \in Objectives : s \in MarkupSlots(o)
    BY <1>3
  <2>2. v.table[o] = w.table[o]
    BY <2>1 DEF Changes
  <2>3. MK(v)[s] = MK(w)[s] /\ LK(v, new)[s] = LK(w, pos)[s]
    BY <2>1, <2>2, MarksOfGroups, LooksOfGroups
  <2>4. \A h : s # DstSlot(h)
    BY <2>1, SlotsDiffer
  <2> QED
    BY <2>3, <2>4 DEF Away
<1> QED
  BY <1>1, <1>2, <1>3, SlotsAre

\* The map agrees with the new tables, but for the marks to draw.
Switch(w, v, q, X, d, new, back, gone) ==
    /\ \A s \in Slots : MK(v)[s] # NoMark => MK(v)[s] \in Named(v)
    /\ Agrees(q, d, Named(w), MK(v), LK(v, new), Live(w, back) \ X)
    /\ Live(v, gone) = (Live(w, back) \ X) \cup {s \in X : MK(v)[s] # NoMark /\ ~Away(s, gone)}

\* So it does once the old marks are deleted.
LEMMA Switched ==
    ASSUME NEW w, NEW v, NEW X, NEW d, NEW pos, NEW new,
           NEW back \in SUBSET Raids, NEW gone \in SUBSET Raids,
           Good(w, d, pos, back), Changes(w, v, X, pos, new, back, gone),
           NEW q, Agrees(q, d, Named(w), MK(w), LK(w, pos), Live(w, back) \ X)
    PROVE  Switch(w, v, q, X, d, new, back, gone)
<1> DEFINE m == MK(w)
           n == MK(v)
           a == w.n
           b == v.n
<1>1. /\ w \in Works /\ v \in Works /\ X \subseteq Slots
      /\ \A s \in Slots : m[s] # NoMark => m[s] \in 1..(a - 1)
      /\ \A s \in X : n[s] # NoMark => n[s] \in a..(b - 1)
      /\ \A s, t \in X : n[s] = n[t] /\ n[s] # NoMark => s = t
      /\ \A s, t \in Slots : m[s] = m[t] /\ m[s] # NoMark => s = t
  BY DEF Good, Changes, Named, Agrees
<1>2. a \in Nat \ {0} /\ b \in Nat \ {0} /\ b >= a
  BY DEF Changes, Works
<1>3. \A s \in Slots \ X : /\ n[s] = m[s]
                           /\ m[s] # NoMark => LK(v, new)[s] = LK(w, pos)[s]
                           /\ Away(s, gone) <=> Away(s, back)
  BY OthersStay
<1>4. \A s \in Slots \ X : m[s] # NoMark => LK(v, new)[s] = LK(w, pos)[s]
  BY <1>3
<1>5. \A s \in Slots \ X : Away(s, gone) <=> Away(s, back)
  BY <1>3
<1>6. \A s \in Slots : s \in Live(w, back) <=> m[s] # NoMark /\ ~Away(s, back)
  BY DEF Live
<1>7. \A s \in Slots : s \in Live(v, gone) <=> n[s] # NoMark /\ ~Away(s, gone)
  BY DEF Live
<1> HIDE DEF m, n, a, b
<1>8. \A s \in Slots : n[s] # NoMark => n[s] \in 1..(b - 1)
  <2> TAKE s \in Slots
  <2>1. CASE s \in X
    <3>1. \A i \in a..(b - 1) : i \in 1..(b - 1)
      BY <1>2
    <3> QED
      BY <1>1, <2>1, <3>1
  <2>2. CASE s \notin X
    <3>1. \A i \in 1..(a - 1) : i \in 1..(b - 1)
      BY <1>2
    <3> QED
      BY <1>1, <1>3, <2>2, <3>1
  <2> QED
    BY <2>1, <2>2
<1>9. \A s, t \in Slots : n[s] = n[t] /\ n[s] # NoMark => s = t
  <2>1. \A i \in 1..(a - 1), j \in a..(b - 1) : i # j
    BY <1>2
  <2>2. \A s \in Slots \ X, t \in X : n[s] # NoMark => n[s] # n[t]
    <3> TAKE s \in Slots \ X, t \in X
    <3> HAVE n[s] # NoMark
    <3>1. n[s] \in 1..(a - 1)
      BY <1>1, <1>3
    <3>2. n[t] # NoMark => n[t] \in a..(b - 1)
      BY <1>1
    <3> QED
      BY <2>1, <3>1, <3>2
  <2>3. \A s, t \in Slots \ X : n[s] = n[t] /\ n[s] # NoMark => s = t
    BY <1>1, <1>3
  <2> QED
    BY <1>1, <2>2, <2>3
<1>10. \A s \in Live(w, back) \ X : n[s] = m[s] /\ LK(v, new)[s] = LK(w, pos)[s]
  BY <1>3, <1>4, <1>6 DEF Live
<1>11. Agrees(q, d, Named(w), n, LK(v, new), Live(w, back) \ X)
  <2>1. Agrees(q, d, Named(w), m, LK(w, pos), Live(w, back) \ X)
    BY DEF m
  <2> DEFINE lk == LK(w, pos)
             kk == LK(v, new)
             live == Live(w, back) \ X
  <2> HIDE DEF lk, kk, live
  <2>2. \A s \in live : n[s] = m[s] /\ kk[s] = lk[s]
    BY <1>10 DEF lk, kk, live
  <2>3. Agrees(q, d, Named(w), m, lk, live)
    BY <2>1 DEF lk, live
  <2>4. Agrees(q, d, Named(w), n, kk, live)
    BY <1>9, <2>2, <2>3, AgreesAs
  <2> QED
    BY <2>4 DEF kk, live
<1>12. Live(v, gone) = (Live(w, back) \ X)
                 \cup {s \in X : n[s] # NoMark /\ ~Away(s, gone)}
  <2>1. Live(v, gone) \subseteq Slots /\ Live(w, back) \subseteq Slots
    BY DEF Live
  <2>2. \A s \in X : s \in Slots /\ (s \in Live(v, gone) <=> n[s] # NoMark /\ ~Away(s, gone))
    BY <1>1, <1>7
  <2>3. \A s \in Slots \ X : s \in Live(v, gone) <=> s \in Live(w, back)
    BY <1>3, <1>5, <1>6, <1>7
  <2> QED
    BY <1>1, <2>1, <2>2, <2>3
<1> QED
  BY <1>8, <1>11, <1>12 DEF n, b, Named, Switch

NoneToDraw(v, X, gone) == \A s \in X : MK(v)[s] = NoMark \/ Away(s, gone)

\* The map agrees with the new tables when nothing is to be drawn.
LEMMA SwitchedOff ==
    ASSUME NEW w, NEW v, NEW X, NEW d, NEW pos, NEW new,
           NEW back \in SUBSET Raids, NEW gone \in SUBSET Raids,
           Good(w, d, pos, back), Changes(w, v, X, pos, new, back, gone),
           Agrees(v.q, d, Named(w), MK(w), LK(w, pos), Live(w, back) \ X),
           NoneToDraw(v, X, gone)
    PROVE  Good(v, d, new, gone)
<1>1. /\ \A s \in Slots : MK(v)[s] # NoMark => MK(v)[s] \in Named(v)
      /\ Agrees(v.q, d, Named(w), MK(v), LK(v, new), Live(w, back) \ X)
      /\ Live(v, gone) = (Live(w, back) \ X)
                 \cup {s \in X : MK(v)[s] # NoMark /\ ~Away(s, gone)}
  <2> DEFINE q == v.q
  <2>1. Agrees(q, d, Named(w), MK(w), LK(w, pos), Live(w, back) \ X)
    OBVIOUS
  <2> HIDE DEF q
  <2>2. Switch(w, v, q, X, d, new, back, gone)
    BY <2>1, Switched
  <2> QED
    BY <2>2 DEF Switch, q
<1>2. {s \in X : MK(v)[s] # NoMark /\ ~Away(s, gone)} = {}
  BY DEF NoneToDraw
<1>3. Live(v, gone) = Live(w, back) \ X
  BY <1>1, <1>2
<1>4. v \in Works /\ Named(v) \in SUBSET Nat /\ Named(w) \subseteq Named(v)
  <2>1. v \in Works /\ v.n \in Nat /\ w.n \in Nat /\ v.n >= w.n
    BY DEF Changes, Works
  <2> QED
    BY <2>1 DEF Named
<1>5. Agrees(v.q, d, Named(v), MK(v), LK(v, new), Live(v, gone))
  BY <1>1, <1>3, <1>4, AgreesIn
<1> QED
  BY <1>1, <1>4, <1>5 DEF Good

-----------------------------------------------------------------------------
(* The pins of the groups. *)

\* What `Unpin` leaves of the tables.
IsUnpinned(v, w, g) ==
    /\ v \in Works /\ v.table = w.table /\ v.dst = w.dst /\ v.n = w.n
    /\ v.pin[g] = NoMark /\ \A h \in Groups \ {g} : v.pin[h] = w.pin[h]

\* It does so, and deletes the pin's mark.
LEMMA UnpinIs ==
    ASSUME NEW w \in Works, NEW g \in Groups
    PROVE  /\ IsUnpinned(Unpin(w, g), w, g)
           /\ Unpin(w, g).q = IF w.pin[g] = NoMark THEN w.q ELSE delete_mark(w.q, w.pin[g])
<1>1. w.q \in Queues /\ w.pin \in [Groups -> Nat]
  BY DEF Works
<1>2. CASE w.pin[g] = NoMark
  BY <1>1, <1>2 DEF Unpin, IsUnpinned
<1>3. CASE w.pin[g] # NoMark
  <2> DEFINE q == delete_mark(w.q, w.pin[g])
             pin == [w.pin EXCEPT ![g] = NoMark]
  <2>1. Unpin(w, g) = [w EXCEPT !.q = q, !.pin = pin]
    BY <1>3 DEF Unpin
  <2>2. q \in Queues
    BY <1>1, DeletedIn
  <2>3. pin \in [Groups -> Nat] /\ pin[g] = NoMark /\ \A h \in Groups \ {g} : pin[h] = w.pin[h]
    BY <1>1 DEF NoMark
  <2> HIDE DEF q, pin
  <2>4. [w EXCEPT !.q = q, !.pin = pin] \in Works
    BY <2>2, <2>3 DEF Works
  <2>5. /\ [w EXCEPT !.q = q, !.pin = pin].q = q /\ [w EXCEPT !.q = q, !.pin = pin].pin = pin
        /\ [w EXCEPT !.q = q, !.pin = pin].table = w.table
        /\ [w EXCEPT !.q = q, !.pin = pin].dst = w.dst
        /\ [w EXCEPT !.q = q, !.pin = pin].n = w.n
    BY DEF Works
  <2> QED
    BY <1>3, <2>1, <2>3, <2>4, <2>5 DEF IsUnpinned, q
<1> QED
  BY <1>2, <1>3

\* The map agrees with the tables when a pin was deleted.
LEMMA UnpinGood ==
    ASSUME NEW w, NEW d, NEW pos, NEW back \in SUBSET Raids, Good(w, d, pos, back), NEW g \in Groups
    PROVE  Good(Unpin(w, g), d, pos, back)
<1> DEFINE v == Unpin(w, g)
           s == PinSlot(g)
<1>1. w \in Works /\ s \in Slots /\ MK(w)[s] = w.pin[g]
  BY SlotsThere, MarksOfGroups DEF Good
<1>2. IsUnpinned(v, w, g) /\ v.q = IF w.pin[g] = NoMark THEN w.q ELSE delete_mark(w.q, w.pin[g])
  BY <1>1, UnpinIs
<1>3. MK(v)[s] = NoMark
  BY <1>2, MarksOfGroups DEF IsUnpinned
<1> HIDE DEF v, s
<1>4. Agrees(v.q, d, Named(w), MK(w), LK(w, pos), Live(w, back) \ {s})
  <2>1. Agrees(w.q, d, Named(w), MK(w), LK(w, pos), Live(w, back))
    BY DEF Good
  <2>2. CASE w.pin[g] = NoMark
    <3>1. s \notin Live(w, back)
      BY <1>1, <2>2 DEF Live
    <3>2. Live(w, back) \ {s} = Live(w, back)
      BY <3>1
    <3> QED
      BY <1>2, <2>1, <2>2, <3>2
  <2>3. CASE w.pin[g] # NoMark
    <3>1. MK(w)[s] \in Named(w) /\ MK(w)[s] # NoMark
      BY <1>1, <2>3 DEF Good
    <3>2. v.q = delete_mark(w.q, MK(w)[s])
      BY <1>1, <1>2, <2>3
    <3> DEFINE mk == MK(w)
               lk == LK(w, pos)
               live == Live(w, back)
               U == Named(w)
    <3>3. mk[s] \in U /\ mk[s] # NoMark /\ Agrees(w.q, d, U, mk, lk, live)
      BY <2>1, <3>1
    <3> HIDE DEF mk, lk, live, U
    <3>4. Agrees(delete_mark(w.q, mk[s]), d, U, mk, lk, live \ {s})
      BY <1>1, <3>3, AgreesDeleted
    <3> QED
      BY <3>2, <3>4 DEF mk, lk, live, U
  <2> QED
    BY <2>2, <2>3
<1>5. Changes(w, v, {s}, pos, pos, back, back)
  <2>1. v \in Works /\ v.n = w.n /\ w.n \in Nat
    BY <1>1, <1>2 DEF IsUnpinned, Works
  <2>2. \A h \in Groups : PinSlot(h) \in {s} \/ v.pin[h] = w.pin[h]
    BY <1>2 DEF IsUnpinned, s
  <2>3. \A t \in {s} : MK(v)[t] = NoMark
    BY <1>3
  <2> QED
    BY <1>1, <1>2, <2>1, <2>2, <2>3 DEF Changes, IsUnpinned
<1> DEFINE X == {s}
<1>6. NoneToDraw(v, X, back)
  BY <1>3 DEF NoneToDraw
<1> HIDE DEF X
<1>7. Good(v, d, pos, back)
  BY <1>4, <1>5, <1>6, SwitchedOff DEF X
<1> QED
  BY <1>7 DEF v

\* The map agrees with the tables whatever becomes of groups without a pin.
LEMMA GoodElsewhere ==
    ASSUME NEW w, NEW d, NEW pos, NEW back \in SUBSET Raids, Good(w, d, pos, back),
           NEW new, \A g \in Groups : w.pin[g] # NoMark => new[g] = pos[g]
    PROVE  Good(w, d, new, back)
<1>1. w \in Works /\ w.n \in Nat
  BY DEF Good, Works
<1>2. Changes(w, w, {}, pos, new, back, back)
  BY <1>1 DEF Changes
<1>3. Agrees(w.q, d, Named(w), MK(w), LK(w, pos), Live(w, back) \ {})
  <2>1. Live(w, back) \ {} = Live(w, back)
    OBVIOUS
  <2> QED
    BY <2>1 DEF Good
<1>4. NoneToDraw(w, {}, back)
  BY DEF NoneToDraw
<1> QED
  BY <1>2, <1>3, <1>4, SwitchedOff

\* What drawing one pin leaves of the tables: the slot s has a new mark.
LEMMA OneMore ==
    ASSUME NEW w, NEW v, NEW s \in Slots, NEW d, NEW pos, NEW new, NEW back \in SUBSET Raids,
           Good(w, d, pos, back), s \notin Live(w, back), Changes(w, v, {s}, pos, new, back, back),
           v.n = w.n + 1, MK(v)[s] = w.n, LK(v, new)[s] \in Looks, ~Away(s, back),
           v.q = mark_to(w.q, w.n, LK(v, new)[s])
    PROVE  Good(v, d, new, back)
<1> DEFINE q == w.q
           L == Live(w, back) \ {s}
<1>1. v \in Works /\ w.n \in Nat \ {0}
  BY DEF Changes, Works
<1>2. L = Live(w, back)
  OBVIOUS
<1>3. Agrees(q, d, Named(w), MK(w), LK(w, pos), L)
  BY <1>2 DEF Good
<1> HIDE DEF q
<1>4. Switch(w, v, q, {s}, d, new, back, back)
  BY <1>3, Switched
<1> DEFINE mk == MK(v)
           lk == LK(v, new)
           U == Named(w)
           c == PinCmd(mk[s], lk[s])
<1>5. mk[s] \in Nat \ U /\ mk[s] # NoMark
  BY <1>1 DEF Named, NoMark
<1>6. Agrees(q, d, U, mk, lk, L)
  BY <1>4 DEF Switch
<1>7. lk[s] \in Looks
  OBVIOUS
<1>8. v.q = Push(q, 2, c)
  BY DEF mark_to, q
<1>9. Live(v, back) = L \cup {s}
  <2>1. {t \in {s} : MK(v)[t] # NoMark /\ ~Away(t, back)} = {s}
    BY <1>5
  <2> QED
    BY <1>4, <2>1 DEF Switch
<1>10. U \cup {mk[s]} = Named(v)
  BY <1>1 DEF Named
<1> HIDE DEF L, mk, lk, U, c
<1>11. 2 \in {2, 3} /\ (c = DrawCmd(mk[s], lk[s]) \/ (2 = 2 /\ c = PinCmd(mk[s], lk[s])))
  BY DEF c
<1>12. Agrees(Push(q, 2, c), d, U \cup {mk[s]}, mk, lk, L \cup {s})
  BY <1>5, <1>6, <1>7, <1>11, AgreesDrawn
<1>13. Agrees(v.q, d, Named(v), MK(v), LK(v, new), Live(v, back))
  BY <1>8, <1>9, <1>10, <1>12 DEF mk, lk
<1>14. \A t \in Slots : MK(v)[t] # NoMark => MK(v)[t] \in Named(v)
  BY <1>4 DEF Switch
<1> QED
  BY <1>1, <1>13, <1>14 DEF Good

\* A pin drawn.
LEMMA PinIs ==
    ASSUME NEW w \in Works, NEW g \in Groups, NEW p \in Nat
    PROVE  LET v == Pin(w, g, p)
           IN  /\ v \in Works /\ v.table = w.table /\ v.dst = w.dst /\ v.n = w.n + 1
               /\ v.pin[g] = w.n /\ \A h \in Groups \ {g} : v.pin[h] = w.pin[h]
               /\ v.q = mark_to(w.q, w.n, Look("pin", 0, p))
<1> DEFINE q == mark_to(w.q, w.n, Look("pin", 0, p))
           pin == [w.pin EXCEPT ![g] = w.n]
           m == w.n + 1
           v == Pin(w, g, p)
<1>1. v = [w EXCEPT !.q = q, !.pin = pin, !.n = m]
  BY DEF Pin
<1>2. w.q \in Queues /\ w.pin \in [Groups -> Nat] /\ w.n \in Nat \ {0} /\ m \in Nat \ {0}
  BY DEF Works
<1>3. q \in Queues
  <2>1. PinCmd(w.n, Look("pin", 0, p)) \in Cmds
    BY <1>2 DEF PinCmd, Look, Cmds, Making, Looks, Vals, Colours
  <2>2. 2 \in 1..3
    OBVIOUS
  <2> QED
    BY <1>2, <2>1, <2>2, PushedIs DEF mark_to
<1>4. pin \in [Groups -> Nat] /\ pin[g] = w.n /\ \A h \in Groups \ {g} : pin[h] = w.pin[h]
  BY <1>2
<1> HIDE DEF q, pin, m, v
<1>5. v \in Works
  BY <1>1, <1>2, <1>3, <1>4 DEF Works
<1>6. v.q = q /\ v.pin = pin /\ v.n = m /\ v.table = w.table /\ v.dst = w.dst
  BY <1>1 DEF Works
<1>7. /\ v \in Works /\ v.table = w.table /\ v.dst = w.dst /\ v.n = w.n + 1
      /\ v.pin[g] = w.n /\ \A h \in Groups \ {g} : v.pin[h] = w.pin[h]
      /\ v.q = mark_to(w.q, w.n, Look("pin", 0, p))
  BY <1>4, <1>5, <1>6 DEF q, m
<1> QED
  BY <1>7 DEF v

\* A pin drawn at a raid's destination.
LEMMA PinTargetIs ==
    ASSUME NEW w \in Works, NEW g \in Raids
    PROVE  LET v == PinTarget(w, g)
           IN  /\ v \in Works /\ v.table = w.table /\ v.pin = w.pin /\ v.n = w.n + 1
               /\ v.dst[g] = w.n /\ \A h \in Raids \ {g} : v.dst[h] = w.dst[h]
               /\ v.q = mark_to(w.q, w.n, Look("pin", 0, Target))
<1> DEFINE q == mark_to(w.q, w.n, Look("pin", 0, Target))
           dst == [w.dst EXCEPT ![g] = w.n]
           m == w.n + 1
           v == PinTarget(w, g)
<1>1. v = [w EXCEPT !.q = q, !.dst = dst, !.n = m]
  BY DEF PinTarget
<1>2. w.q \in Queues /\ w.dst \in [Raids -> Nat] /\ w.n \in Nat \ {0} /\ m \in Nat \ {0}
  BY DEF Works
<1>3. q \in Queues
  <2>1. PinCmd(w.n, Look("pin", 0, Target)) \in Cmds
    BY <1>2 DEF PinCmd, Look, Cmds, Making, Looks, Vals, Colours, Target
  <2>2. 2 \in 1..3
    OBVIOUS
  <2> QED
    BY <1>2, <2>1, <2>2, PushedIs DEF mark_to
<1>4. dst \in [Raids -> Nat] /\ dst[g] = w.n /\ \A h \in Raids \ {g} : dst[h] = w.dst[h]
  BY <1>2
<1> HIDE DEF q, dst, m, v
<1>5. v \in Works
  BY <1>1, <1>2, <1>3, <1>4 DEF Works
<1>6. v.q = q /\ v.dst = dst /\ v.n = m /\ v.table = w.table /\ v.pin = w.pin
  BY <1>1 DEF Works
<1>7. /\ v \in Works /\ v.table = w.table /\ v.pin = w.pin /\ v.n = w.n + 1
      /\ v.dst[g] = w.n /\ \A h \in Raids \ {g} : v.dst[h] = w.dst[h]
      /\ v.q = mark_to(w.q, w.n, Look("pin", 0, Target))
  BY <1>4, <1>5, <1>6 DEF q, m
<1> QED
  BY <1>7 DEF v

\* Groups are elsewhere, but only g if it has a pin.
Elsewhere(w, pos, new, g) == \A h \in Groups \ {g} : w.pin[h] # NoMark => new[h] = pos[h]

\* The map agrees with the tables when a group without a pin got one.
LEMMA PinGood ==
    ASSUME NEW w, NEW d, NEW pos, NEW back \in SUBSET Raids, Good(w, d, pos, back), NEW g \in Groups,
           w.pin[g] = NoMark, NEW new, new[g] \in Nat, Elsewhere(w, pos, new, g)
    PROVE  Good(Pin(w, g, new[g]), d, new, back)
<1> DEFINE v == Pin(w, g, new[g])
           s == PinSlot(g)
<1>1. w \in Works /\ w.n \in Nat \ {0} /\ s \in Slots /\ MK(w)[s] = NoMark
  BY SlotsThere, MarksOfGroups DEF Good, Works
<1>2. /\ v \in Works /\ v.table = w.table /\ v.dst = w.dst /\ v.n = w.n + 1
      /\ v.pin[g] = w.n /\ \A h \in Groups \ {g} : v.pin[h] = w.pin[h]
      /\ v.q = mark_to(w.q, w.n, Look("pin", 0, new[g]))
  BY <1>1, PinIs
<1> HIDE DEF v
<1>3. MK(v)[s] = w.n /\ LK(v, new)[s] = Look("pin", 0, new[g])
  BY <1>2, MarksOfGroups, LooksOfGroups
<1>4. LK(v, new)[s] \in Looks
  BY <1>3 DEF Look, Looks, Vals, Colours
<1>5. s \notin Live(w, back)
  BY <1>1 DEF Live
<1>6. ~Away(s, back)
  BY SlotsDiffer DEF Away
<1> HIDE DEF s
<1>7. Changes(w, v, {s}, pos, new, back, back)
  <2>1. \A h \in Groups : PinSlot(h) \in {s} \/ (v.pin[h] = w.pin[h] /\ (w.pin[h] # NoMark => new[h] = pos[h]))
    BY <1>2 DEF Elsewhere, s
  <2>2. \A t \in {s} : MK(v)[t] # NoMark => MK(v)[t] \in w.n..(v.n - 1)
    BY <1>1, <1>2, <1>3
  <2>3. v.n >= w.n
    BY <1>1, <1>2
  <2> QED
    BY <1>1, <1>2, <2>1, <2>2, <2>3 DEF Changes
<1>8. v.q = mark_to(w.q, w.n, LK(v, new)[s])
  BY <1>2, <1>3
<1>9. Good(v, d, new, back)
  BY <1>1, <1>2, <1>3, <1>4, <1>5, <1>6, <1>7, <1>8, OneMore
<1> QED
  BY <1>9 DEF v

\* The same for the pin at the destination.
LEMMA PinTargetGood ==
    ASSUME NEW w, NEW d, NEW pos, NEW back \in SUBSET Raids, Good(w, d, pos, back), NEW g \in Raids,
           w.dst[g] = NoMark, g \notin back
    PROVE  Good(PinTarget(w, g), d, pos, back)
<1> DEFINE v == PinTarget(w, g)
           s == DstSlot(g)
<1>1. w \in Works /\ w.n \in Nat \ {0} /\ s \in Slots /\ MK(w)[s] = NoMark
  BY SlotsThere, MarksOfGroups DEF Good, Works
<1>2. /\ v \in Works /\ v.table = w.table /\ v.pin = w.pin /\ v.n = w.n + 1
      /\ v.dst[g] = w.n /\ \A h \in Raids \ {g} : v.dst[h] = w.dst[h]
      /\ v.q = mark_to(w.q, w.n, Look("pin", 0, Target))
  BY <1>1, PinTargetIs
<1> HIDE DEF v
<1>3. MK(v)[s] = w.n /\ LK(v, pos)[s] = Look("pin", 0, Target)
  BY <1>2, MarksOfGroups, LooksOfGroups
<1>4. LK(v, pos)[s] \in Looks
  BY <1>3 DEF Look, Looks, Vals, Colours, Target
<1>5. s \notin Live(w, back)
  BY <1>1 DEF Live
<1>6. ~Away(s, back)
  BY SlotsDiffer DEF Away
<1> HIDE DEF s
<1>7. Changes(w, v, {s}, pos, pos, back, back)
  <2>1. \A h \in Raids : DstSlot(h) \in {s} \/ v.dst[h] = w.dst[h]
    BY <1>2 DEF s
  <2>2. \A t \in {s} : MK(v)[t] # NoMark => MK(v)[t] \in w.n..(v.n - 1)
    BY <1>1, <1>2, <1>3
  <2>3. v.n >= w.n
    BY <1>1, <1>2
  <2> QED
    BY <1>1, <1>2, <2>1, <2>2, <2>3 DEF Changes
<1>8. v.q = mark_to(w.q, w.n, LK(v, pos)[s])
  BY <1>2, <1>3
<1>9. Good(v, d, pos, back)
  BY <1>1, <1>2, <1>3, <1>4, <1>5, <1>6, <1>7, <1>8, OneMore
<1> QED
  BY <1>9 DEF v

\* What `mark_group` leaves of the tables: a raid has a pin at its destination.
IsMarked(v, w, g) ==
    /\ v \in Works /\ v.table = w.table
    /\ \A h \in Groups \ {g} : v.pin[h] = w.pin[h]
    /\ \A h \in Raids : h # g => v.dst[h] = w.dst[h]
    /\ g \in Raids => v.dst[g] # NoMark

\* It does so, and the map agrees with the tables at the group's new position.
LEMMA MarkGroupGood ==
    ASSUME NEW w \in Works, NEW g \in Groups, NEW world, NEW new, new[g] \in Nat
    PROVE  /\ IsMarked(mark_group(w, g, world, new[g]), w, g)
           /\ \A d, pos : \A back \in SUBSET Raids :
                 /\ Good(w, d, pos, back) /\ Elsewhere(w, pos, new, g)
                 /\ g \in Raids /\ w.dst[g] = NoMark => g \notin back
                 => Good(mark_group(w, g, world, new[g]), d, new, back)
<1> DEFINE u == Unpin(w, g)
           p == new[g]
           t == Pin(u, g, p)
           v == mark_group(w, g, world, p)
<1>1. IsUnpinned(u, w, g)
  BY UnpinIs
<1>2. Hidden(g, world) => g \notin Raids
  BY MapAssumption DEF Hidden
<1>3. u \in Works /\ u.pin[g] = NoMark
  BY <1>1 DEF IsUnpinned
<1>4. /\ t \in Works /\ t.table = u.table /\ t.dst = u.dst
      /\ \A h \in Groups \ {g} : t.pin[h] = u.pin[h]
  <2> HIDE DEF u
  <2> QED
    BY <1>3, PinIs
<1>5. v = IF Hidden(g, world) THEN u
          ELSE IF g \in Raids /\ w.dst[g] = NoMark THEN PinTarget(t, g) ELSE t
  BY DEF mark_group
<1> HIDE DEF u, t, v
<1>6. IsMarked(v, w, g)
  <2>1. CASE Hidden(g, world)
    BY <1>1, <1>2, <1>5, <2>1 DEF IsUnpinned, IsMarked
  <2>2. CASE ~Hidden(g, world) /\ g \in Raids /\ w.dst[g] = NoMark
    <3> DEFINE r == PinTarget(t, g)
    <3>1. /\ r \in Works /\ r.table = t.table /\ r.pin = t.pin /\ r.dst[g] = t.n
          /\ \A h \in Raids \ {g} : r.dst[h] = t.dst[h]
      BY <1>4, <2>2, PinTargetIs
    <3>2. t.n # NoMark
      BY <1>4 DEF Works, NoMark
    <3> HIDE DEF r
    <3>3. v = r
      BY <1>5, <2>2 DEF r
    <3> QED
      BY <1>1, <1>4, <3>1, <3>2, <3>3 DEF IsUnpinned, IsMarked
  <2>3. CASE ~Hidden(g, world) /\ ~(g \in Raids /\ w.dst[g] = NoMark)
    BY <1>1, <1>4, <1>5, <2>3 DEF IsUnpinned, IsMarked
  <2> QED
    BY <2>1, <2>2, <2>3
<1>7. ASSUME NEW d, NEW pos, NEW back \in SUBSET Raids, Good(w, d, pos, back), Elsewhere(w, pos, new, g),
             g \in Raids /\ w.dst[g] = NoMark => g \notin back
      PROVE  Good(v, d, new, back)
  <2>1. Good(u, d, pos, back)
    BY <1>7, UnpinGood DEF u
  <2>2. Elsewhere(u, pos, new, g)
    BY <1>1, <1>7 DEF IsUnpinned, Elsewhere
  <2>3. Good(t, d, new, back)
    BY <1>3, <2>1, <2>2, PinGood DEF t
  <2>4. CASE Hidden(g, world)
    <3>1. \A h \in Groups : u.pin[h] # NoMark => new[h] = pos[h]
      BY <1>3, <2>2 DEF Elsewhere
    <3>2. Good(u, d, new, back)
      BY <2>1, <3>1, GoodElsewhere
    <3> QED
      BY <1>5, <2>4, <3>2
  <2>5. CASE ~Hidden(g, world) /\ g \in Raids /\ w.dst[g] = NoMark
    <3>1. t.dst[g] = NoMark /\ g \notin back
      BY <1>1, <1>4, <1>7, <2>5 DEF IsUnpinned
    <3>2. Good(PinTarget(t, g), d, new, back)
      BY <2>3, <2>5, <3>1, PinTargetGood
    <3> QED
      BY <1>5, <2>5, <3>2
  <2>6. CASE ~Hidden(g, world) /\ ~(g \in Raids /\ w.dst[g] = NoMark)
    BY <1>5, <2>3, <2>6
  <2> QED
    BY <2>4, <2>5, <2>6
<1> QED
  BY <1>6, <1>7 DEF v

\* The pin at a raid's destination is deleted: the raid is told to return ...
LEMMA RtbGood ==
    ASSUME NEW w, NEW d, NEW pos, NEW back \in SUBSET Raids, Good(w, d, pos, back), NEW g \in Raids,
           w.dst[g] # NoMark, NEW v \in Works, v = [w EXCEPT !.q = delete_mark(@, w.dst[g])]
    PROVE  Good(v, d, pos, back \cup {g})
<1> DEFINE s == DstSlot(g)
           mk == MK(w)
           lk == LK(w, pos)
           live == Live(w, back)
           U == Named(w)
           gone == back \cup {g}
           X == {s}
<1>1. w \in Works /\ s \in Slots /\ mk[s] = w.dst[g] /\ mk[s] \in U /\ mk[s] # NoMark
  BY SlotsThere, MarksOfGroups DEF Good
<1>2. Agrees(w.q, d, U, mk, lk, live)
  BY DEF Good
<1>3. /\ v.q = delete_mark(w.q, w.dst[g]) /\ v.table = w.table /\ v.pin = w.pin
      /\ v.dst = w.dst /\ v.n = w.n /\ w.n \in Nat
  BY <1>1 DEF Works
<1> HIDE DEF mk, lk, live, U, s
<1>4. Agrees(v.q, d, U, mk, lk, live \ {s})
  BY <1>1, <1>2, <1>3, AgreesDeleted
<1>5. MK(v) = mk
  <2>1. v.table = w.table /\ v.pin = w.pin /\ v.dst = w.dst
    BY <1>3
  <2>2. MK(v) = MK(w)
    BY ONLY <2>1 DEF MK
  <2> QED
    BY <2>2 DEF mk
<1>6. LK(v, pos) = lk
  BY <1>3 DEF LK, lk
<1>7. Named(v) = U
  BY <1>3 DEF Named, U
<1>8. Live(v, gone) = live \ {s}
  <2>1. \A t : Away(t, gone) <=> Away(t, back) \/ t = s
    BY DEF Away, s
  <2> QED
    BY <1>5, <2>1 DEF Live, live, mk
<1>9. \A t \in Slots : mk[t] # NoMark => mk[t] \in U
  BY DEF Good, mk, U
<1> QED
  BY <1>4, <1>5, <1>6, <1>7, <1>8, <1>9 DEF Good

\* ... or is no more.
LEMMA RaidGoneGood ==
    ASSUME NEW w, NEW d, NEW pos, NEW back \in SUBSET Raids, Good(w, d, pos, back), NEW g \in Raids,
           w.dst[g] # NoMark, NEW v \in Works,
           v = [w EXCEPT !.q = delete_mark(@, w.dst[g]), !.dst[g] = NoMark]
    PROVE  Good(v, d, pos, back \ {g})
<1> DEFINE s == DstSlot(g)
           mk == MK(w)
           lk == LK(w, pos)
           live == Live(w, back)
           U == Named(w)
           gone == back \ {g}
           X == {s}
<1>1. w \in Works /\ s \in Slots /\ mk[s] = w.dst[g] /\ mk[s] \in U /\ mk[s] # NoMark
  BY SlotsThere, MarksOfGroups DEF Good
<1>2. Agrees(w.q, d, U, mk, lk, live)
  BY DEF Good
<1>3. /\ v.q = delete_mark(w.q, w.dst[g]) /\ v.table = w.table /\ v.pin = w.pin
      /\ v.dst = [w.dst EXCEPT ![g] = NoMark] /\ v.n = w.n /\ w.n \in Nat
  BY <1>1 DEF Works
<1>4. v.dst[g] = NoMark /\ \A h \in Raids \ {g} : v.dst[h] = w.dst[h]
  BY <1>1, <1>3 DEF Works
<1>5. MK(v)[s] = NoMark
  BY <1>4, MarksOfGroups
<1> HIDE DEF mk, lk, live, U, s
<1>6. Agrees(v.q, d, U, mk, lk, live \ {s})
  BY <1>1, <1>2, <1>3, AgreesDeleted
<1>7. Changes(w, v, X, pos, pos, back, gone)
  <2>1. \A h \in Raids : DstSlot(h) \in X \/ (v.dst[h] = w.dst[h] /\ (h \in gone <=> h \in back))
    BY <1>4 DEF s
  <2>2. \A t \in X : MK(v)[t] = NoMark
    BY <1>5
  <2> QED
    BY <1>1, <1>3, <2>1, <2>2 DEF Changes
<1>8. NoneToDraw(v, X, gone)
  BY <1>5 DEF NoneToDraw
<1>9. gone \in SUBSET Raids
  OBVIOUS
<1> HIDE DEF gone, X
<1>10. Agrees(v.q, d, Named(w), MK(w), LK(w, pos), Live(w, back) \ X)
  BY <1>6 DEF mk, lk, live, U, X
<1>11. Good(v, d, pos, gone)
  BY <1>7, <1>8, <1>9, <1>10, SwitchedOff
<1> QED
  BY <1>11 DEF gone

-----------------------------------------------------------------------------
(* The markup of the objectives. *)

\* What a function gives to the members of a finite set.
LEMMA ImageFinite ==
    ASSUME NEW S, IsFiniteSet(S), NEW f, f = [s \in S |-> f[s]]
    PROVE  IsFiniteSet({f[s] : s \in S})
<1> DEFINE T == {f[s] : s \in S}
<1>1. f \in [S -> T]
  OBVIOUS
<1>2. f \in Surjection(S, T)
  BY <1>1 DEF Surjection
<1> QED
  BY <1>2, FS_Surjection

\* FARPs are finitely many.
LEMMA FarpsAreFinite ==
    ASSUME NEW S \in SUBSET Farps
    PROVE  IsFiniteSet(S) /\ Cardinality(S) \in Nat
<1>1. IsFiniteSet(S)
  BY MapAssumption, FS_Subset
<1> QED
  BY <1>1, FS_CardinalityType

\* There are marks enough for the arrows.
LEMMA ArrowsExist ==
    ASSUME NEW to \in SUBSET Farps, NEW n \in Nat
    PROVE  \E a \in [to -> n + 3 .. n + 2 + Cardinality(to)] : IsInjective(a)
<1> DEFINE c == Cardinality(to)
           T == n + 3 .. n + 2 + c
<1>1. IsFiniteSet(to) /\ c \in Nat
  BY FarpsAreFinite
<1>2. IsFiniteSet(T) /\ Cardinality(T) = c
  <2> HIDE DEF c
  <2>1. n + 3 \in Int /\ n + 2 + c \in Int
    BY <1>1
  <2>2. IsFiniteSet(T) /\ Cardinality(T) = IF n + 3 > n + 2 + c THEN 0 ELSE (n + 2 + c) - (n + 3) + 1
    BY <2>1, FS_Interval
  <2> QED
    BY <1>1, <2>2
<1>3. ExistsBijection(to, T)
  BY <1>1, <1>2, FS_SameCardinalityBij
<1> QED
  BY <1>3 DEF ExistsBijection, Bijection, Injection

\* The marks of a new markup.
IsNew(m, n, to) ==
    /\ m \in Markups /\ m.ring = n /\ m.capturable = n + 1 /\ m.label = n + 2
    /\ DOMAIN m.arrows = to
    /\ \A f \in to : m.arrows[f] \in n + 3 .. n + 2 + Cardinality(to)
    /\ \A f, g \in to : m.arrows[f] = m.arrows[g] => f = g

\* A new markup has them.
LEMMA NewMarkupIs ==
    ASSUME NEW n \in Nat \ {0}, NEW world \in Worlds, NEW o \in Objectives, NEW to \in SUBSET Farps
    PROVE  IsNew(NewMarkup(n, world, o, to), n, to)
<1> DEFINE c == Cardinality(to)
           T == n + 3 .. n + 2 + c
           a == CHOOSE a \in [to -> T] : IsInjective(a)
           ends == [f \in to |-> world[f].at]
           m == NewMarkup(n, world, o, to)
<1>1. a \in [to -> T] /\ IsInjective(a)
  <2>1. \E b \in [to -> T] : IsInjective(b)
    BY ArrowsExist
  <2> QED
    BY <2>1
<1>2. m = [ring |-> n, capturable |-> n + 1, label |-> n + 2,
           side |-> world[o].owner, logi |-> world[o].logi, at |-> world[o].at,
           arrows |-> a, ends |-> ends]
  BY DEF NewMarkup
<1>3. world[o].owner \in Colours /\ world[o].logi \in Nat /\ world[o].at \in Nat
  BY DEF Worlds, Colours
<1>4. ends \in [to -> Nat]
  <2>1. \A f \in to : world[f].at \in Nat
    BY DEF Worlds, Objectives
  <2> QED
    BY <2>1
<1>5. c \in Nat
  BY FarpsAreFinite
<1> HIDE DEF a, ends, m, c
<1>6. T \subseteq Nat \ {0}
  BY <1>5
<1>7. a \in [to -> Nat \ {0}]
  BY <1>1, <1>6
<1>8. n + 1 \in Nat \ {0} /\ n + 2 \in Nat \ {0}
  OBVIOUS
<1>9. m \in [ring : Nat \ {0}, capturable : Nat \ {0}, label : Nat \ {0}, side : Colours,
             logi : Nat, at : Nat, arrows : [to -> Nat \ {0}], ends : [to -> Nat]]
  BY <1>2, <1>3, <1>4, <1>7, <1>8
<1>10. m \in Markups
  BY <1>9 DEF Markups
<1>11. m.ring = n /\ m.capturable = n + 1 /\ m.label = n + 2 /\ m.arrows = a
  BY <1>2
<1>12. /\ DOMAIN a = to
       /\ \A f \in to : a[f] \in T
       /\ \A f, g \in to : a[f] = a[g] => f = g
  BY <1>1 DEF IsInjective
<1>13. IsNew(m, n, to)
  BY <1>10, <1>11, <1>12 DEF IsNew, c
<1> QED
  BY <1>13 DEF m

\* The new marks differ from those there are and from each other.
LEMMA NewMarksAre ==
    ASSUME NEW n \in Nat \ {0}, NEW to \in SUBSET Farps, NEW m, IsNew(m, n, to), NEW o
    PROVE  /\ \A s \in MarkupSlots(o) : MarkupMark(m, s) # NoMark =>
                 MarkupMark(m, s) \in n..(n + 2 + Cardinality(to))
           /\ \A s, t \in MarkupSlots(o) :
                 MarkupMark(m, s) = MarkupMark(m, t) /\ MarkupMark(m, s) # NoMark => s = t
<1> DEFINE c == Cardinality(to)
           R == RingSlot(o)
           C == CapturableSlot(o)
           L == LabelSlot(o)
           A == {ArrowSlot(o, f) : f \in to}
<1>1. c \in Nat
  BY FarpsAreFinite
<1>2. /\ MarkupMark(m, R) = n /\ MarkupMark(m, C) = n + 1 /\ MarkupMark(m, L) = n + 2
      /\ \A f \in to : MarkupMark(m, ArrowSlot(o, f)) = m.arrows[f]
      /\ \A f : f \notin to => MarkupMark(m, ArrowSlot(o, f)) = NoMark
  <2>1. m # NoMarkup
    BY MarkupIs DEF IsNew
  <2> QED
    BY <2>1, MarksOfMarkup DEF IsNew
<1>3. \A s \in MarkupSlots(o) : MarkupMark(m, s) # NoMark =>
         s = R \/ s = C \/ s = L \/ \E f \in to : s = ArrowSlot(o, f)
  BY <1>2 DEF MarkupSlots
<1>4. /\ \A f \in to : m.arrows[f] \in n + 3 .. n + 2 + c
      /\ \A f, g \in to : m.arrows[f] = m.arrows[g] => f = g
  BY DEF IsNew
<1> HIDE DEF c, R, C, L
<1>5. ASSUME NEW s \in MarkupSlots(o), MarkupMark(m, s) # NoMark
      PROVE  MarkupMark(m, s) \in n..(n + 2 + c)
  <2>1. CASE s = R \/ s = C \/ s = L
    BY <1>1, <1>2, <2>1
  <2>2. ASSUME NEW f \in to, s = ArrowSlot(o, f)
        PROVE  MarkupMark(m, s) \in n..(n + 2 + c)
    <3>1. MarkupMark(m, s) = m.arrows[f] /\ m.arrows[f] \in n + 3 .. n + 2 + c
      BY <1>2, <1>4, <2>2
    <3> QED
      BY <1>1, <3>1
  <2> QED
    BY <1>3, <1>5, <2>1, <2>2
<1>6. ASSUME NEW s \in MarkupSlots(o), NEW t \in MarkupSlots(o),
             MarkupMark(m, s) = MarkupMark(m, t), MarkupMark(m, s) # NoMark
      PROVE  s = t
  <2>1. CASE s \in {R, C, L} /\ t \in {R, C, L}
    BY <1>2, <1>6, <2>1
  <2>2. ASSUME NEW f \in to, NEW r \in {R, C, L}
        PROVE  MarkupMark(m, ArrowSlot(o, f)) # MarkupMark(m, r)
    <3>1. MarkupMark(m, ArrowSlot(o, f)) \in n + 3 .. n + 2 + c
      BY <1>2, <1>4
    <3>2. MarkupMark(m, r) \in n .. n + 2
      BY <1>2
    <3> QED
      BY <1>1, <3>1, <3>2
  <2>3. ASSUME NEW f \in to, NEW g \in to, s = ArrowSlot(o, f), t = ArrowSlot(o, g)
        PROVE  s = t
    BY <1>2, <1>4, <1>6, <2>3
  <2> QED
    BY <1>3, <1>6, <2>1, <2>2, <2>3
<1> QED
  BY <1>5, <1>6 DEF c

\* The marks of a markup are finitely many.
LEMMA MarksAreFinite ==
    ASSUME NEW m \in {NoMarkup} \cup Markups
    PROVE  IsFiniteSet(MarksOf(m)) /\ MarksOf(m) \subseteq Nat \ {0}
<1>1. CASE m = NoMarkup
  BY <1>1, FS_EmptySet DEF MarksOf
<1>2. CASE m \in Markups
  <2>1. /\ m # NoMarkup /\ RingsOf(m) \subseteq Nat \ {0} /\ DOMAIN m.arrows \in SUBSET Farps
        /\ m.arrows \in [DOMAIN m.arrows -> Nat \ {0}]
    BY <1>2, MarkupIs DEF RingsOf
  <2>2. ArrowsOf(m) \subseteq Nat \ {0}
    BY <2>1 DEF ArrowsOf
  <2>3. IsFiniteSet(DOMAIN m.arrows)
    BY <2>1, FarpsAreFinite
  <2>4. IsFiniteSet(ArrowsOf(m))
    <3>1. m.arrows = [f \in DOMAIN m.arrows |-> m.arrows[f]]
      BY <2>1
    <3> QED
      BY <2>3, <3>1, ImageFinite DEF ArrowsOf
  <2>5. IsFiniteSet(RingsOf(m))
    <3>1. IsFiniteSet({m.ring})
      BY FS_Singleton
    <3>2. IsFiniteSet({m.ring} \cup {m.capturable})
      BY <3>1, FS_AddElement
    <3>3. IsFiniteSet(({m.ring} \cup {m.capturable}) \cup {m.label})
      BY <3>2, FS_AddElement
    <3>4. RingsOf(m) = ({m.ring} \cup {m.capturable}) \cup {m.label}
      BY DEF RingsOf
    <3> QED
      BY <3>3, <3>4
  <2>6. IsFiniteSet(RingsOf(m) \cup ArrowsOf(m))
    BY <2>4, <2>5, FS_Union
  <2> QED
    BY <2>1, <2>2, <2>6 DEF MarksOf
<1> QED
  BY <1>1, <1>2

\* How the marks of a markup look is a look.
LEMMA MarkupLooks ==
    ASSUME NEW m \in Markups, NEW o, NEW s \in MarkupSlots(o), MarkupMark(m, s) # NoMark
    PROVE  MarkupLook(m, s) \in Looks
<1>1. /\ m # NoMarkup /\ m.side \in Colours /\ m.logi \in Nat /\ m.at \in Nat
      /\ m.ends \in [DOMAIN m.arrows -> Nat]
  BY MarkupIs
<1>2. \A x \in Colours, y, z \in Nat : Look(x, y, z) \in Looks
  BY DEF Look, Looks, Vals
<1>3. Capturable(m.logi) \in Colours /\ "gray" \in Colours
  BY DEF Capturable, Colours
<1>4. CASE s \in {RingSlot(o), CapturableSlot(o), LabelSlot(o)}
  <2>1. MarkupLook(m, s) \in {Look(m.side, 0, m.at), Look(Capturable(m.logi), 0, m.at),
                              Look(m.side, m.logi, m.at)}
    BY <1>4, MarksOfMarkup
  <2>2. /\ Look(m.side, 0, m.at) \in Looks /\ Look(m.side, m.logi, m.at) \in Looks
        /\ Look(Capturable(m.logi), 0, m.at) \in Looks
    BY <1>1, <1>2, <1>3
  <2> QED
    BY <2>1, <2>2
<1>5. ASSUME NEW f \in Farps, s = ArrowSlot(o, f)
      PROVE  MarkupLook(m, s) \in Looks
  <2>1. f \in DOMAIN m.arrows
    <3>1. f \notin DOMAIN m.arrows => MarkupMark(m, ArrowSlot(o, f)) = NoMark
      BY <1>1, MarksOfMarkup
    <3> QED
      BY <1>5, <3>1
  <2>2. m.ends[f] \in Nat
    BY <1>1, <2>1
  <2>3. MarkupLook(m, s) = Arrow(m.ends[f])
    <3>1. s[1] = "arrow" /\ s[2][2] = f
      BY <1>5 DEF ArrowSlot
    <3>2. MarkupLook(m, s) = Arrow(m.ends[s[2][2]])
      BY <3>1 DEF MarkupLook
    <3> QED
      BY <3>1, <3>2
  <2>4. Arrow(m.ends[f]) = Look("gray", 0, m.ends[f])
    BY DEF Arrow
  <2> QED
    BY <1>2, <1>3, <2>2, <2>3, <2>4
<1> QED
  BY <1>4, <1>5 DEF MarkupSlots

\* The marks of a markup deleted.
LEMMA UndrawnIn ==
    ASSUME NEW q \in Queues, NEW m \in {NoMarkup} \cup Markups
    PROVE  Undrawn(q, m) \in Queues
<1> DEFINE ids == MarksOf(m)
           R == Queues \X SUBSET Nat
<1>1. IsFiniteSet(ids) /\ ids \in SUBSET Nat
  BY MarksAreFinite
<1>2. <<q, {}>> \in R
  OBVIOUS
<1> HIDE DEF ids
<1>3. ASSUME NEW T \in SUBSET ids, NEW e \in ids, NEW v \in Queues, e \notin T, <<v, T>> \in R
      PROVE  <<delete_mark(v, e), T \cup {e}>> \in R
  BY <1>1, <1>3, DeletedIn
<1> HIDE DEF R
<1>4. delete_marks(q, ids) \in Queues
  BY <1>1, <1>2, <1>3, delete_marksFolds
<1> QED
  BY <1>4 DEF Undrawn, ids

\* The map agrees with the tables but for the slots of the objective.
LEMMA UndrawnGood ==
    ASSUME NEW w, NEW d, NEW pos, NEW back \in SUBSET Raids, Good(w, d, pos, back), NEW o \in Objectives
    PROVE  Agrees(Undrawn(w.q, w.table[o]), d, Named(w), MK(w), LK(w, pos), Live(w, back) \ MarkupSlots(o))
<1> DEFINE m == w.table[o]
           mk == MK(w)
           lk == LK(w, pos)
           live == Live(w, back)
           U == Named(w)
           X == {s \in MarkupSlots(o) : mk[s] # NoMark}
           ids == MarksOf(m)
           q == w.q
<1>1. w \in Works /\ m \in {NoMarkup} \cup Markups /\ MarkupSlots(o) \subseteq Slots
  BY SlotsThere DEF Good, Works
<1>2. \A s \in MarkupSlots(o) : mk[s] = MarkupMark(m, s)
  BY MarksOfGroups
<1>3. ids = {mk[s] : s \in X}
  <2>1. ids = {MarkupMark(m, s) : s \in MarkupSlots(o)} \ {NoMark}
    BY <1>1, MarksOfSlots
  <2> HIDE DEF mk, ids, m
  <2> QED
    BY <1>2, <2>1
<1>4. IsFiniteSet(ids)
  BY <1>1, MarksAreFinite
<1>5. Agrees(q, d, U, mk, lk, live) /\ \A s \in Slots : mk[s] # NoMark => mk[s] \in U
  BY DEF Good
<1>6. live \ X = live \ MarkupSlots(o)
  BY DEF Live
<1> HIDE DEF mk, lk, live, U, ids, q
<1>7. X \in SUBSET Slots /\ ids \subseteq U /\ \A s \in X : mk[s] # NoMark
  BY <1>1, <1>3, <1>5
<1> HIDE DEF X
<1>8. Agrees(delete_marks(q, ids), d, U, mk, lk, live \ X)
  BY <1>3, <1>4, <1>5, <1>7, AgreesAllDeleted
<1> QED
  BY <1>6, <1>8 DEF Undrawn, ids, mk, lk, live, U, q

\* The marks of a markup drawn.
LEMMA DrawnIn ==
    ASSUME NEW q \in Queues, NEW m \in Markups
    PROVE  Drawn(q, m) \in Queues
<1> DEFINE ring == circle_to_all(q, m.ring, Look(m.side, 0, m.at))
           capturable == circle_to_all(ring, m.capturable, Look(Capturable(m.logi), 0, m.at))
           label == text_to_all(capturable, m.label, Look(m.side, m.logi, m.at))
           cmds == {DrawCmd(m.arrows[f], Arrow(m.ends[f])) : f \in DOMAIN m.arrows}
           R == Queues \X SUBSET Cmds
<1>1. /\ m.ring \in Nat /\ m.capturable \in Nat /\ m.label \in Nat
      /\ m.side \in Colours /\ m.logi \in Nat /\ m.at \in Nat
      /\ DOMAIN m.arrows \in SUBSET Farps
      /\ \A f \in DOMAIN m.arrows : m.arrows[f] \in Nat /\ m.ends[f] \in Nat
  BY MarkupIs
<1>2. \A i \in Nat, x \in Colours, y, z \in Nat : DrawCmd(i, Look(x, y, z)) \in Cmds
  BY DEF DrawCmd, Look, Looks, Vals, Cmds, Making
<1>3. Capturable(m.logi) \in Colours /\ "gray" \in Colours /\ 0 \in Nat /\ 2 \in 1..3 /\ 3 \in 1..3
  BY DEF Capturable, Colours
<1>4. ring \in Queues
  BY <1>1, <1>2, <1>3, PushedIs DEF circle_to_all
<1> HIDE DEF ring
<1>5. capturable \in Queues
  BY <1>1, <1>2, <1>3, <1>4, PushedIs DEF circle_to_all
<1> HIDE DEF capturable
<1>6. label \in Queues
  BY <1>1, <1>2, <1>3, <1>5, PushedIs DEF text_to_all
<1> HIDE DEF label
<1>7. cmds \in SUBSET Cmds
  BY <1>1, <1>2, <1>3 DEF Arrow
<1>8. IsFiniteSet(cmds)
  <2> DEFINE f == [x \in DOMAIN m.arrows |-> DrawCmd(m.arrows[x], Arrow(m.ends[x]))]
  <2>1. IsFiniteSet(DOMAIN m.arrows)
    BY <1>1, FarpsAreFinite
  <2>2. f = [x \in DOMAIN m.arrows |-> f[x]] /\ cmds = {f[x] : x \in DOMAIN m.arrows}
    OBVIOUS
  <2> HIDE DEF f, cmds
  <2> QED
    BY <2>1, <2>2, ImageFinite
<1>9. Drawn(q, m) = PushAll(label, 3, cmds)
  BY DEF Drawn, label, capturable, ring
<1> HIDE DEF cmds
<1>10. <<label, {}>> \in R
  BY <1>6
<1>11. ASSUME NEW T \in SUBSET cmds, NEW e \in cmds, NEW v \in Queues, e \notin T, <<v, T>> \in R
       PROVE  <<Push(v, 3, e), T \cup {e}>> \in R
  <2>1. Push(v, 3, e) \in Queues
    BY <1>3, <1>7, PushedIs
  <2> QED
    BY <1>7, <1>11, <2>1
<1> HIDE DEF R
<1>12. PushAll(label, 3, cmds) \in Queues
  BY <1>3, <1>6, <1>7, <1>8, <1>10, <1>11, PushAllFolds
<1> QED
  BY <1>9, <1>12

\* The marks mk and the looks lk of the slots of o are those of the markup m, and no command is
\* about them yet.
IsOf(m, o, mk, lk, U) ==
    \A s \in MarkupSlots(o) :
       /\ mk[s] = MarkupMark(m, s) /\ lk[s] = MarkupLook(m, s)
       /\ mk[s] # NoMark => mk[s] \in Nat \ U

\* Then the map agrees once they are drawn.
LEMMA DrawnAgrees ==
    ASSUME NEW q, NEW d, NEW U, NEW mk, NEW lk, NEW live, Agrees(q, d, U, mk, lk, live),
           NEW o \in Objectives, NEW m \in Markups, IsOf(m, o, mk, lk, U)
    PROVE  LET X == {s \in MarkupSlots(o) : mk[s] # NoMark}
           IN  Agrees(Drawn(q, m), d, U \cup {mk[s] : s \in X}, mk, lk, live \cup X)
<1> DEFINE R == RingSlot(o)
           C == CapturableSlot(o)
           L == LabelSlot(o)
           A == {ArrowSlot(o, f) : f \in DOMAIN m.arrows}
           X == {s \in MarkupSlots(o) : mk[s] # NoMark}
           ring == circle_to_all(q, m.ring, Look(m.side, 0, m.at))
           capturable == circle_to_all(ring, m.capturable, Look(Capturable(m.logi), 0, m.at))
           label == text_to_all(capturable, m.label, Look(m.side, m.logi, m.at))
           cmds == {DrawCmd(m.arrows[f], Arrow(m.ends[f])) : f \in DOMAIN m.arrows}
           U1 == U \cup {mk[R]}
           U2 == U1 \cup {mk[C]}
           U3 == U2 \cup {mk[L]}
<1>1. /\ m # NoMarkup /\ m.ring # NoMark /\ m.capturable # NoMark /\ m.label # NoMark
      /\ DOMAIN m.arrows \in SUBSET Farps
      /\ \A f \in DOMAIN m.arrows : m.arrows[f] # NoMark
  BY MarkupIs DEF NoMark
<1>2. /\ MarkupMark(m, R) = m.ring /\ MarkupMark(m, C) = m.capturable /\ MarkupMark(m, L) = m.label
      /\ \A f \in DOMAIN m.arrows : MarkupMark(m, ArrowSlot(o, f)) = m.arrows[f]
      /\ \A f : f \notin DOMAIN m.arrows => MarkupMark(m, ArrowSlot(o, f)) = NoMark
      /\ MarkupLook(m, R) = Look(m.side, 0, m.at)
      /\ MarkupLook(m, C) = Look(Capturable(m.logi), 0, m.at)
      /\ MarkupLook(m, L) = Look(m.side, m.logi, m.at)
      /\ \A f : MarkupLook(m, ArrowSlot(o, f)) = Arrow(m.ends[f])
  BY <1>1, MarksOfMarkup
<1>3. /\ R \in MarkupSlots(o) /\ C \in MarkupSlots(o) /\ L \in MarkupSlots(o)
      /\ \A f \in DOMAIN m.arrows : ArrowSlot(o, f) \in MarkupSlots(o)
      /\ MarkupSlots(o) \subseteq Slots
  BY <1>1, SlotsThere DEF MarkupSlots
<1>4. /\ R # C /\ R # L /\ C # L
      /\ \A f : ArrowSlot(o, f) \notin {R, C, L}
  BY MarkupSlotsDiffer
<1>5. X = {R, C, L} \cup A
  <2>1. X \subseteq {R, C, L} \cup A
    BY <1>2 DEF IsOf, MarkupSlots
  <2>2. {R, C, L} \cup A \subseteq X
    BY <1>1, <1>2, <1>3 DEF IsOf
  <2> QED
    BY <2>1, <2>2
<1>6. /\ \A s \in X : mk[s] \in Nat \ U /\ mk[s] # NoMark /\ s \in Slots
      /\ \A s \in X : lk[s] \in Looks
  BY <1>3, MarkupLooks DEF IsOf
<1>7. \A s, t \in Slots : mk[s] = mk[t] /\ mk[s] # NoMark => s = t
  BY DEF Agrees
<1>8. /\ mk[R] = m.ring /\ mk[C] = m.capturable /\ mk[L] = m.label
      /\ lk[R] = Look(m.side, 0, m.at) /\ lk[C] = Look(Capturable(m.logi), 0, m.at)
      /\ lk[L] = Look(m.side, m.logi, m.at)
      /\ \A f \in DOMAIN m.arrows : mk[ArrowSlot(o, f)] = m.arrows[f] /\ lk[ArrowSlot(o, f)] = Arrow(m.ends[f])
  BY <1>2, <1>3 DEF IsOf
<1>9. ring = Push(q, 3, DrawCmd(mk[R], lk[R])) /\ capturable = Push(ring, 3, DrawCmd(mk[C], lk[C]))
      /\ label = Push(capturable, 2, DrawCmd(mk[L], lk[L]))
  BY <1>8 DEF circle_to_all, text_to_all
<1>10. cmds = {DrawCmd(mk[s], lk[s]) : s \in A}
  BY <1>8
<1>11. Drawn(q, m) = PushAll(label, 3, cmds)
  BY DEF Drawn
<1>12. IsFiniteSet(cmds)
  <2> DEFINE f == [x \in DOMAIN m.arrows |-> DrawCmd(m.arrows[x], Arrow(m.ends[x]))]
  <2>1. IsFiniteSet(DOMAIN m.arrows)
    BY <1>1, FarpsAreFinite
  <2>2. f = [x \in DOMAIN m.arrows |-> f[x]] /\ cmds = {f[x] : x \in DOMAIN m.arrows}
    OBVIOUS
  <2> HIDE DEF f, cmds
  <2> QED
    BY <2>1, <2>2, ImageFinite
<1>13. R \in X /\ C \in X /\ L \in X /\ A \subseteq X /\ \A s \in A : s \notin {R, C, L}
  BY <1>4, <1>5
<1> HIDE DEF R, C, L, A, X, ring, capturable, label, cmds
<1>14. 2 \in {2, 3} /\ 3 \in {2, 3}
  OBVIOUS
<1>15. Agrees(ring, d, U1, mk, lk, live \cup {R})
  BY <1>6, <1>9, <1>13, <1>14, AgreesDrawn
<1>16. mk[C] \in Nat \ U1
  BY <1>4, <1>6, <1>7, <1>13
<1> HIDE DEF U1
<1>17. Agrees(capturable, d, U2, mk, lk, (live \cup {R}) \cup {C})
  BY <1>6, <1>9, <1>13, <1>14, <1>15, <1>16, AgreesDrawn
<1>18. mk[L] \in Nat \ U2
  BY <1>4, <1>6, <1>7, <1>13 DEF U1
<1> HIDE DEF U2
<1>19. Agrees(label, d, U3, mk, lk, ((live \cup {R}) \cup {C}) \cup {L})
  BY <1>6, <1>9, <1>13, <1>14, <1>17, <1>18, AgreesDrawn
<1>20. \A s \in A : mk[s] \in Nat \ U3
  BY <1>6, <1>7, <1>13 DEF U1, U2
<1> HIDE DEF U3
<1>21. A \in SUBSET Slots /\ \A s \in A : mk[s] \in Nat \ U3 /\ mk[s] # NoMark /\ lk[s] \in Looks
  BY <1>6, <1>13, <1>20
<1> DEFINE some == ((live \cup {R}) \cup {C}) \cup {L}
<1> HIDE DEF some
<1>22. Agrees(label, d, U3, mk, lk, some)
  BY <1>19 DEF some
<1>23. Agrees(PushAll(label, 3, cmds), d, U3 \cup {mk[s] : s \in A}, mk, lk, some \cup A)
  BY <1>10, <1>12, <1>21, <1>22, AgreesAllDrawn
<1>24. U3 \cup {mk[s] : s \in A} = U \cup {mk[s] : s \in X} /\ some \cup A = live \cup X
  BY <1>5 DEF U1, U2, U3, some
<1>25. Agrees(Drawn(q, m), d, U \cup {mk[s] : s \in X}, mk, lk, live \cup X)
  BY <1>11, <1>23, <1>24
<1> QED
  BY <1>25 DEF X

\* What creating a markup leaves of the tables.
IsCreated(v, w, o, to) ==
    /\ v \in Works /\ v.pin = w.pin /\ v.dst = w.dst
    /\ v.table[o] \in Markups /\ DOMAIN v.table[o].arrows = to
    /\ \A h \in Objectives \ {o} : v.table[h] = w.table[h]

\* It does so: the old marks are deleted and the new ones drawn.
LEMMA CreateIs ==
    ASSUME NEW w \in Works, NEW world \in Worlds, NEW o \in Objectives, NEW to \in SUBSET Farps
    PROVE  LET v == create_objective_markup(w, world, o, to)
               all == Supplied(o, to)
               m == NewMarkup(w.n, world, o, all)
           IN  /\ IsCreated(v, w, o, all)
               /\ all \in SUBSET Farps /\ IsNew(m, w.n, all)
               /\ v.q = Drawn(Undrawn(w.q, w.table[o]), m) /\ v.table[o] = m
               /\ v.n = w.n + 3 + Cardinality(all)
<1> DEFINE v == create_objective_markup(w, world, o, to)
           all == Supplied(o, to)
           m == NewMarkup(w.n, world, o, all)
           q == Drawn(Undrawn(w.q, w.table[o]), m)
           table == [w.table EXCEPT ![o] = m]
           n == w.n + 3 + Cardinality(all)
<1>1. v = [w EXCEPT !.q = q, !.table = table, !.n = n]
  BY DEF create_objective_markup
<1>2. /\ w.q \in Queues /\ w.table \in [Objectives -> {NoMarkup} \cup Markups]
      /\ w.pin \in [Groups -> Nat] /\ w.dst \in [Raids -> Nat] /\ w.n \in Nat \ {0}
  BY DEF Works
<1>3. all \in SUBSET Farps
  BY DEF Supplied
<1>4. IsNew(m, w.n, all)
  <2> HIDE DEF all
  <2> QED
    BY <1>2, <1>3, NewMarkupIs
<1>5. Cardinality(all) \in Nat
  BY <1>3, FarpsAreFinite
<1> HIDE DEF all, m
<1>6. n \in Nat \ {0}
  BY <1>2, <1>5
<1>7. m \in Markups /\ DOMAIN m.arrows = all
  BY <1>4 DEF IsNew
<1>8. q \in Queues
  <2>1. w.table[o] \in {NoMarkup} \cup Markups
    BY <1>2
  <2>2. Undrawn(w.q, w.table[o]) \in Queues
    BY <1>2, <2>1, UndrawnIn
  <2> QED
    BY <1>7, <2>2, DrawnIn
<1>9. /\ table \in [Objectives -> {NoMarkup} \cup Markups] /\ table[o] = m
      /\ \A h \in Objectives \ {o} : table[h] = w.table[h]
  BY <1>2, <1>7
<1> HIDE DEF v, q, table, n
<1>10. v \in Works
  BY <1>1, <1>2, <1>6, <1>8, <1>9 DEF Works
<1>11. v.q = q /\ v.table = table /\ v.n = n /\ v.pin = w.pin /\ v.dst = w.dst
  BY <1>1 DEF Works
<1>12. IsCreated(v, w, o, all)
  BY <1>7, <1>9, <1>10, <1>11 DEF IsCreated
<1>13. /\ v.q = Drawn(Undrawn(w.q, w.table[o]), m) /\ v.table[o] = m
       /\ v.n = w.n + 3 + Cardinality(all)
  BY <1>9, <1>11 DEF q, n
<1> QED
  BY <1>3, <1>4, <1>12, <1>13 DEF v, all, m

\* The map agrees with the tables when a markup was drawn.
LEMMA CreateGood ==
    ASSUME NEW w, NEW d, NEW pos, NEW back \in SUBSET Raids, Good(w, d, pos, back),
           NEW world \in Worlds, NEW o \in Objectives, NEW to \in SUBSET Farps
    PROVE  Good(create_objective_markup(w, world, o, to), d, pos, back)
<1> DEFINE v == create_objective_markup(w, world, o, to)
           all == Supplied(o, to)
           c == Cardinality(all)
           m == NewMarkup(w.n, world, o, all)
           q == Undrawn(w.q, w.table[o])
           X == MarkupSlots(o)
           Y == {s \in X : MK(v)[s] # NoMark}
<1>1. w \in Works /\ w.n \in Nat \ {0} /\ X \in SUBSET Slots
  BY SlotsThere DEF Good, Works
<1>2. /\ IsCreated(v, w, o, all) /\ all \in SUBSET Farps /\ IsNew(m, w.n, all)
      /\ v.q = Drawn(q, m) /\ v.table[o] = m /\ v.n = w.n + 3 + c
  BY <1>1, CreateIs
<1>3. Agrees(q, d, Named(w), MK(w), LK(w, pos), Live(w, back) \ X)
  BY UndrawnGood
<1>4. c \in Nat
  <2> HIDE DEF all
  <2> QED
    BY <1>2, FarpsAreFinite
<1> HIDE DEF v, all, c, m, q
<1>5. m \in Markups
  BY <1>2 DEF IsNew
<1>6. /\ \A s \in X : MarkupMark(m, s) # NoMark => MarkupMark(m, s) \in w.n..(w.n + 2 + c)
      /\ \A s, t \in X : MarkupMark(m, s) = MarkupMark(m, t) /\ MarkupMark(m, s) # NoMark => s = t
  BY <1>1, <1>2, NewMarksAre DEF c
<1>7. /\ \A s \in X : MK(v)[s] = MarkupMark(m, s) /\ LK(v, pos)[s] = MarkupLook(m, s)
  BY <1>2, MarksOfGroups, LooksOfGroups
<1>8. w.n..(w.n + 2 + c) = w.n..(v.n - 1) /\ v.n >= w.n /\ v.n \in Nat
  BY <1>1, <1>2, <1>4
<1>9. \A s \in X : ~Away(s, back)
  BY SlotsDiffer DEF Away
<1> HIDE DEF X
<1>10. Changes(w, v, X, pos, pos, back, back)
  <2>1. \A h \in Objectives : MarkupSlots(h) \subseteq X \/ v.table[h] = w.table[h]
    BY <1>2 DEF IsCreated, X
  <2>2. /\ \A s \in X : MK(v)[s] # NoMark => MK(v)[s] \in w.n..(v.n - 1)
        /\ \A s, t \in X : MK(v)[s] = MK(v)[t] /\ MK(v)[s] # NoMark => s = t
    BY <1>6, <1>7, <1>8
  <2> QED
    BY <1>1, <1>2, <1>8, <2>1, <2>2 DEF Changes, IsCreated
<1>11. Switch(w, v, q, X, d, pos, back, back)
  BY <1>3, <1>10, Switched
<1>12. Agrees(q, d, Named(w), MK(v), LK(v, pos), Live(w, back) \ X)
  BY <1>11 DEF Switch
<1>13. IsOf(m, o, MK(v), LK(v, pos), Named(w))
  <2>1. \A s \in X : MK(v)[s] # NoMark => MK(v)[s] \in Nat \ Named(w)
    <3>1. \A i \in w.n..(w.n + 2 + c) : i \in Nat \ Named(w)
      BY <1>1, <1>4 DEF Named
    <3> QED
      BY <1>6, <1>7, <3>1
  <2> QED
    BY <1>7, <2>1 DEF IsOf, X
<1>14. Agrees(v.q, d, Named(w) \cup {MK(v)[s] : s \in Y}, MK(v), LK(v, pos), (Live(w, back) \ X) \cup Y)
  <2> DEFINE mk == MK(v)
             lk == LK(v, pos)
             live == Live(w, back) \ X
             U == Named(w)
  <2>1. Agrees(q, d, U, mk, lk, live) /\ IsOf(m, o, mk, lk, U)
    BY <1>12, <1>13
  <2>2. Y = {s \in MarkupSlots(o) : mk[s] # NoMark}
    BY DEF X
  <2> HIDE DEF mk, lk, live, U, Y
  <2>3. Agrees(Drawn(q, m), d, U \cup {mk[s] : s \in Y}, mk, lk, live \cup Y)
    BY <1>5, <2>1, <2>2, DrawnAgrees
  <2> QED
    BY <1>2, <2>3 DEF mk, lk, live, U
<1>15. Live(v, back) = (Live(w, back) \ X) \cup Y
  BY <1>9, <1>11 DEF Switch
<1>16. Named(v) \in SUBSET Nat /\ Named(w) \cup {MK(v)[s] : s \in Y} \subseteq Named(v)
  <2>1. Named(w) \subseteq Named(v) /\ Named(v) \subseteq Nat
    BY <1>1, <1>2, <1>4 DEF Named
  <2>2. \A i \in w.n..(w.n + 2 + c) : i \in Named(v)
    BY <1>1, <1>2, <1>4 DEF Named
  <2>3. \A s \in Y : MK(v)[s] \in Named(v)
    BY <1>6, <1>7, <2>2
  <2> QED
    BY <2>1, <2>3
<1> DEFINE live == (Live(w, back) \ X) \cup Y
           U == Named(w) \cup {MK(v)[s] : s \in Y}
<1> HIDE DEF live, U, Y
<1>17. Agrees(v.q, d, U, MK(v), LK(v, pos), live)
  BY <1>14 DEF live, U
<1>18. Named(v) \in SUBSET Nat /\ U \subseteq Named(v)
  BY <1>16 DEF U
<1>19. Agrees(v.q, d, Named(v), MK(v), LK(v, pos), live)
  BY <1>17, <1>18, AgreesIn
<1>20. Good(v, d, pos, back)
  BY <1>2, <1>11, <1>15, <1>19 DEF Good, Switch, IsCreated, live
<1> QED
  BY <1>20 DEF v

\* What removing a markup leaves of the tables.
IsRemoved(v, w, o) ==
    /\ v \in Works /\ v.pin = w.pin /\ v.dst = w.dst /\ v.n = w.n /\ v.table[o] = NoMarkup
    /\ \A h \in Objectives \ {o} : v.table[h] = w.table[h]

\* It does so, and deletes the marks.
LEMMA RemoveIs ==
    ASSUME NEW w \in Works, NEW o \in Objectives
    PROVE  LET v == remove_objective_markup(w, o)
           IN  IsRemoved(v, w, o) /\ v.q = Undrawn(w.q, w.table[o])
<1> DEFINE v == remove_objective_markup(w, o)
           q == Undrawn(w.q, w.table[o])
           table == [w.table EXCEPT ![o] = NoMarkup]
<1>1. v = [w EXCEPT !.q = q, !.table = table]
  BY DEF remove_objective_markup
<1>2. w.q \in Queues /\ w.table \in [Objectives -> {NoMarkup} \cup Markups]
  BY DEF Works
<1>3. q \in Queues
  <2>1. w.table[o] \in {NoMarkup} \cup Markups
    BY <1>2
  <2> QED
    BY <1>2, <2>1, UndrawnIn
<1>4. /\ table \in [Objectives -> {NoMarkup} \cup Markups] /\ table[o] = NoMarkup
      /\ \A h \in Objectives \ {o} : table[h] = w.table[h]
  BY <1>2
<1> HIDE DEF v, q, table
<1>5. v \in Works
  BY <1>1, <1>3, <1>4 DEF Works
<1>6. v.q = q /\ v.table = table /\ v.n = w.n /\ v.pin = w.pin /\ v.dst = w.dst
  BY <1>1 DEF Works
<1>7. IsRemoved(v, w, o) /\ v.q = Undrawn(w.q, w.table[o])
  BY <1>4, <1>5, <1>6 DEF IsRemoved, q
<1> QED
  BY <1>7 DEF v

\* The map agrees with the tables when a markup was removed.
LEMMA RemoveGood ==
    ASSUME NEW w, NEW d, NEW pos, NEW back \in SUBSET Raids, Good(w, d, pos, back), NEW o \in Objectives
    PROVE  Good(remove_objective_markup(w, o), d, pos, back)
<1> DEFINE v == remove_objective_markup(w, o)
           X == MarkupSlots(o)
<1>1. w \in Works /\ X \subseteq Slots /\ w.n \in Nat
  BY SlotsThere DEF Good, Works
<1>2. IsRemoved(v, w, o) /\ v.q = Undrawn(w.q, w.table[o])
  BY <1>1, RemoveIs
<1> HIDE DEF v
<1>3. Agrees(v.q, d, Named(w), MK(w), LK(w, pos), Live(w, back) \ X)
  BY <1>2, UndrawnGood
<1>4. \A s \in X : MK(v)[s] = NoMark
  <2>1. \A s \in X : MK(v)[s] = MarkupMark(NoMarkup, s)
    BY <1>2, MarksOfGroups DEF IsRemoved
  <2> QED
    BY <2>1 DEF MarkupMark
<1>5. Changes(w, v, X, pos, pos, back, back)
  BY <1>1, <1>2, <1>4 DEF Changes, IsRemoved
<1>6. NoneToDraw(v, X, back)
  BY <1>4 DEF NoneToDraw
<1> HIDE DEF X
<1>7. Good(v, d, pos, back)
  BY <1>3, <1>5, <1>6, SwitchedOff
<1> QED
  BY <1>7 DEF v

\* A markup with other logistics, at another place, supplying FARPs elsewhere.
Recast(m, logi, pos, ends) == [m EXCEPT !.logi = logi, !.at = pos, !.ends = ends]

\* The same marks, and the same side.
SameMarks(n, m) ==
    /\ n \in Markups /\ n.ring = m.ring /\ n.capturable = m.capturable /\ n.label = m.label
    /\ n.arrows = m.arrows /\ n.side = m.side

\* It has the same marks, and what was changed.
LEMMA RecastIs ==
    ASSUME NEW m \in Markups, NEW logi \in Nat, NEW pos \in Nat, NEW ends \in [DOMAIN m.arrows -> Nat]
    PROVE  LET n == Recast(m, logi, pos, ends)
           IN  SameMarks(n, m) /\ n.logi = logi /\ n.at = pos /\ n.ends = ends
<1> DEFINE M(D) == [ring : Nat \ {0}, capturable : Nat \ {0}, label : Nat \ {0}, side : Colours,
                    logi : Nat, at : Nat, arrows : [D -> Nat \ {0}], ends : [D -> Nat]]
<1>1. PICK D \in SUBSET Farps : m \in M(D)
  BY DEF Markups
<1>2. DOMAIN m.arrows = D
  BY <1>1
<1> DEFINE n == Recast(m, logi, pos, ends)
<1>3. n \in M(D) /\ n.logi = logi /\ n.at = pos /\ n.ends = ends
      /\ n.ring = m.ring /\ n.capturable = m.capturable /\ n.label = m.label
      /\ n.arrows = m.arrows /\ n.side = m.side
  BY <1>1, <1>2 DEF Recast
<1> HIDE DEF n
<1>4. n \in Markups
  BY <1>3 DEF Markups
<1>5. SameMarks(n, m) /\ n.logi = logi /\ n.at = pos /\ n.ends = ends
  BY <1>3, <1>4 DEF SameMarks
<1> QED
  BY <1>5 DEF n

\* n is m with what was changed.
IsRecast(n, m, logi, pos, ends) ==
    SameMarks(n, m) /\ n.logi = logi /\ n.at = pos /\ n.ends = ends

\* The same, as one fact of all markups.
LEMMA RecastsAre ==
    \A m \in Markups, logi \in Nat, pos \in Nat : \A ends \in [DOMAIN m.arrows -> Nat] :
       IsRecast(Recast(m, logi, pos, ends), m, logi, pos, ends)
<1> TAKE m \in Markups, logi \in Nat, pos \in Nat
<1> TAKE ends \in [DOMAIN m.arrows -> Nat]
<1> QED
  BY RecastIs DEF IsRecast

\* The slots of o have the marks and the looks of m.
Has(mk, lk, live, o, m) ==
    \A s \in MarkupSlots(o) :
       /\ mk[s] = MarkupMark(m, s) /\ lk[s] = MarkupLook(m, s)
       /\ mk[s] # NoMark => s \in live

\* The looks lk, those of o as in m.
Relook(lk, o, m) == [s \in Slots |-> IF s \in MarkupSlots(o) THEN MarkupLook(m, s) ELSE lk[s]]

\* When a markup is recast the slots have the new looks; the last of them count.
LEMMA RelookHas ==
    ASSUME NEW mk, NEW lk, NEW live, NEW o \in Objectives, NEW m \in Markups, NEW n,
           Has(mk, lk, live, o, m), SameMarks(n, m)
    PROVE  /\ Has(mk, Relook(lk, o, n), live, o, n)
           /\ \A k : \A s \in Slots : Relook(Relook(lk, o, n), o, k)[s] = Relook(lk, o, k)[s]
<1>1. MarkupSlots(o) \subseteq Slots
  BY SlotsThere
<1>2. m # NoMarkup /\ n # NoMarkup
  BY MarkupIs DEF SameMarks
<1>3. ASSUME NEW s \in MarkupSlots(o)
      PROVE  MarkupMark(n, s) = MarkupMark(m, s)
  <2>1. CASE s \in {RingSlot(o), CapturableSlot(o), LabelSlot(o)}
    <3>1. /\ MarkupMark(m, RingSlot(o)) = m.ring /\ MarkupMark(n, RingSlot(o)) = n.ring
          /\ MarkupMark(m, CapturableSlot(o)) = m.capturable
          /\ MarkupMark(n, CapturableSlot(o)) = n.capturable
          /\ MarkupMark(m, LabelSlot(o)) = m.label /\ MarkupMark(n, LabelSlot(o)) = n.label
      BY <1>2, MarksOfMarkup
    <3> QED
      BY <2>1, <3>1 DEF SameMarks
  <2>2. ASSUME NEW f \in Farps, s = ArrowSlot(o, f)
        PROVE  MarkupMark(n, s) = MarkupMark(m, s)
    <3>1. n.arrows = m.arrows
      BY DEF SameMarks
    <3>2. CASE f \in DOMAIN m.arrows
      <4>1. \A k : k # NoMarkup /\ f \in DOMAIN k.arrows => MarkupMark(k, ArrowSlot(o, f)) = k.arrows[f]
        BY MarksOfMarkup
      <4>2. MarkupMark(m, ArrowSlot(o, f)) = m.arrows[f]
        BY <1>2, <3>2, <4>1
      <4>3. MarkupMark(n, ArrowSlot(o, f)) = n.arrows[f]
        BY <1>2, <3>1, <3>2, <4>1
      <4> QED
        BY <2>2, <3>1, <4>2, <4>3
    <3>3. CASE f \notin DOMAIN m.arrows
      <4>1. \A k : k # NoMarkup /\ f \notin DOMAIN k.arrows => MarkupMark(k, ArrowSlot(o, f)) = NoMark
        BY MarksOfMarkup
      <4>2. MarkupMark(m, ArrowSlot(o, f)) = NoMark
        BY <1>2, <3>3, <4>1
      <4>3. MarkupMark(n, ArrowSlot(o, f)) = NoMark
        BY <1>2, <3>1, <3>3, <4>1
      <4> QED
        BY <2>2, <4>2, <4>3
    <3> QED
      BY <3>2, <3>3
  <2> QED
    BY <2>1, <2>2 DEF MarkupSlots
<1> QED
  BY <1>1, <1>3 DEF Has, Relook

\* One slot looks otherwise.
One(lk, s, look) == [t \in Slots |-> IF t = s THEN look ELSE lk[t]]

\* The map agrees when that slot's change was sent.
LEMMA AgreesOne ==
    ASSUME NEW q, NEW d, NEW U, NEW mk, NEW lk, NEW live, Agrees(q, d, U, mk, lk, live),
           NEW s \in live, NEW id, id = mk[s], NEW field \in Fields, NEW val \in Vals,
           NEW look, look = [lk[s] EXCEPT ![field] = val]
    PROVE  Agrees(set_markup(q, id, field, val), d, U, mk, One(lk, s, look), live)
<1> DEFINE kk == One(lk, s, look)
<1>1. live \subseteq Slots
  BY DEF Agrees
<1>2. kk[s] = [lk[s] EXCEPT ![field] = val] /\ \A t \in live \ {s} : kk[t] = lk[t]
  BY <1>1 DEF One
<1> HIDE DEF kk
<1>3. Agrees(set_markup(q, mk[s], field, val), d, U, mk, kk, live)
  BY <1>2, AgreesChanged
<1> QED
  BY <1>3 DEF kk

\* The looks that are the same for what is seen.
LEMMA AgreesSame ==
    ASSUME NEW q, NEW d, NEW U, NEW mk, NEW lk, NEW live, Agrees(q, d, U, mk, lk, live),
           NEW kk, \A s \in live : kk[s] = lk[s]
    PROVE  Agrees(q, d, U, mk, kk, live)
BY DEF Agrees

\* A look with a field changed.
LEMMA LookWith ==
    ASSUME NEW c \in Vals, NEW t \in Vals, NEW p \in Vals, NEW x \in Vals
    PROVE  /\ [Look(c, t, p) EXCEPT !["colour"] = x] = Look(x, t, p)
           /\ [Look(c, t, p) EXCEPT !["text"] = x] = Look(c, x, p)
           /\ [Look(c, t, p) EXCEPT !["pos"] = x] = Look(c, t, x)
<1> DEFINE look == Look(c, t, p)
           a == [look EXCEPT !["colour"] = x]
           b == [look EXCEPT !["text"] = x]
           e == [look EXCEPT !["pos"] = x]
<1>1. look \in Looks /\ look.colour = c /\ look.text = t /\ look.pos = p
  BY DEF Look, Looks
<1> HIDE DEF look
<1>2. a \in Looks /\ a.colour = x /\ a.text = t /\ a.pos = p
  BY <1>1 DEF Looks
<1>3. b \in Looks /\ b.colour = c /\ b.text = x /\ b.pos = p
  BY <1>1 DEF Looks
<1>4. e \in Looks /\ e.colour = c /\ e.text = t /\ e.pos = x
  BY <1>1 DEF Looks
<1> HIDE DEF a, b, e
<1>5. a = Look(x, t, p)
  BY <1>2 DEF Look, Looks
<1>6. b = Look(c, x, p)
  BY <1>3 DEF Look, Looks
<1>7. e = Look(c, t, x)
  BY <1>4 DEF Look, Looks
<1> QED
  BY <1>5, <1>6, <1>7 DEF a, b, e, look

\* What is sent when the logistics of an objective have changed.
LEMMA SetLogiAgrees ==
    ASSUME NEW q, NEW d, NEW U, NEW mk, NEW lk, NEW live, Agrees(q, d, U, mk, lk, live),
           NEW o \in Objectives, NEW m \in Markups, Has(mk, lk, live, o, m), NEW logi \in Nat
    PROVE  Agrees(SetLogi(q, m, logi, TRUE), d, U, mk,
                  Relook(lk, o, Recast(m, logi, m.at, m.ends)), live)
<1> DEFINE n == Recast(m, logi, m.at, m.ends)
           C == CapturableSlot(o)
           L == LabelSlot(o)
           colour == Look(Capturable(logi), 0, m.at)
           text == Look(m.side, logi, m.at)
           c == One(lk, C, colour)
           l == One(c, L, text)
           q1 == set_markup(q, m.capturable, "colour", Capturable(logi))
           q2 == set_markup(q1, m.label, "text", logi)
<1>1. /\ m.ends \in [DOMAIN m.arrows -> Nat] /\ m.at \in Nat /\ m.capturable # NoMark
      /\ m.label # NoMark /\ m # NoMarkup
  BY MarkupIs DEF NoMark
<1>2. /\ SameMarks(n, m) /\ n.logi = logi /\ n.at = m.at /\ n.ends = m.ends
  BY <1>1, RecastIs
<1>3. live \subseteq Slots /\ MarkupSlots(o) \subseteq Slots
  BY SlotsThere DEF Agrees
<1>4. /\ C \in live /\ L \in live /\ C # L /\ mk[C] = m.capturable /\ mk[L] = m.label
      /\ lk[C] = Look(Capturable(m.logi), 0, m.at) /\ lk[L] = Look(m.side, m.logi, m.at)
  <2>1. C \in MarkupSlots(o) /\ L \in MarkupSlots(o)
    BY DEF MarkupSlots
  <2>2. /\ MarkupMark(m, C) = m.capturable /\ MarkupMark(m, L) = m.label
        /\ MarkupLook(m, C) = Look(Capturable(m.logi), 0, m.at)
        /\ MarkupLook(m, L) = Look(m.side, m.logi, m.at)
    BY <1>1, MarksOfMarkup
  <2> QED
    BY <1>1, <2>1, <2>2, MarkupSlotsDiffer DEF Has
<1>5. CASE m.logi = logi
  <2>1. SetLogi(q, m, logi, TRUE) = q
    BY <1>5 DEF SetLogi
  <2>2. \A s : MarkupLook(n, s) = MarkupLook(m, s)
    BY <1>2, <1>5 DEF MarkupLook, SameMarks
  <2>3. \A s \in live : Relook(lk, o, n)[s] = lk[s]
    BY <1>3, <2>2 DEF Relook, Has
  <2> QED
    BY <2>1, <2>3, AgreesSame
<1>6. CASE m.logi # logi
  <2>1. SetLogi(q, m, logi, TRUE) = q2
    BY <1>6 DEF SetLogi
  <2>2. "colour" \in Fields /\ "text" \in Fields /\ Capturable(logi) \in Vals /\ logi \in Vals
    BY DEF Fields, Capturable, Vals, Colours
  <2> DEFINE side == m.side
             pos == m.at
             old == Capturable(m.logi)
             was == m.logi
             new == Capturable(logi)
  <2>20. /\ side \in Vals /\ pos \in Vals /\ old \in Vals /\ was \in Vals /\ new \in Vals
         /\ logi \in Vals /\ 0 \in Vals
    BY MarkupIs DEF Vals, Capturable, Colours
  <2>3. colour = [lk[C] EXCEPT !["colour"] = Capturable(logi)]
    <3>1. colour = Look(new, 0, pos) /\ lk[C] = Look(old, 0, pos)
      BY <1>4
    <3> HIDE DEF side, pos, old, was, colour, new
    <3>2. [Look(old, 0, pos) EXCEPT !["colour"] = new] = Look(new, 0, pos)
      BY <2>20, LookWith, SMTT(30)
    <3> QED
      BY <3>1, <3>2 DEF new
  <2>4. text = [lk[L] EXCEPT !["text"] = logi]
    <3>1. text = Look(side, logi, pos) /\ lk[L] = Look(side, was, pos)
      BY <1>4
    <3> HIDE DEF side, pos, old, was, text
    <3> QED
      BY <2>20, <3>1, LookWith
  <2>5. c[L] = lk[L]
    BY <1>3, <1>4 DEF One
  <2>6. MarkupLook(n, C) = colour /\ MarkupLook(n, L) = text
    BY <1>2, MarksOfMarkup DEF SameMarks
  <2>7. \A s \in MarkupSlots(o) \ {C, L} : MarkupLook(n, s) = MarkupLook(m, s)
    <3>1. MarkupLook(m, RingSlot(o)) = Look(m.side, 0, m.at) /\ MarkupLook(n, RingSlot(o)) = Look(n.side, 0, n.at)
      BY MarksOfMarkup
    <3>2. n.side = m.side /\ n.at = m.at
      BY <1>2 DEF SameMarks
    <3>3. \A f : MarkupLook(n, ArrowSlot(o, f)) = MarkupLook(m, ArrowSlot(o, f))
      BY <1>2 DEF MarkupLook, ArrowSlot
    <3> QED
      BY <3>1, <3>2, <3>3 DEF MarkupSlots
  <2> HIDE DEF n, C, L, colour, text, q1, q2
  <2>8. Agrees(q1, d, U, mk, c, live)
    <3> HIDE DEF c
    <3> QED
      BY <1>4, <2>2, <2>3, AgreesOne DEF q1, c
  <2> HIDE DEF c
  <2>9. Agrees(q2, d, U, mk, l, live)
    <3>1. text = [c[L] EXCEPT !["text"] = logi]
      BY <2>4, <2>5
    <3> QED
      BY <1>4, <2>2, <2>8, <3>1, AgreesOne DEF q2
  <2>10. \A s \in live : Relook(lk, o, n)[s] = l[s]
    <3>1. \A s \in live : l[s] = IF s = L THEN text ELSE IF s = C THEN colour ELSE lk[s]
      BY <1>3 DEF One, c
    <3>2. \A s \in live : Relook(lk, o, n)[s] = IF s \in MarkupSlots(o) THEN MarkupLook(n, s) ELSE lk[s]
      BY <1>3 DEF Relook
    <3>3. \A s \in MarkupSlots(o) : lk[s] = MarkupLook(m, s)
      BY DEF Has
    <3>4. C \in MarkupSlots(o) /\ L \in MarkupSlots(o)
      BY DEF MarkupSlots, C, L
    <3> HIDE DEF l
    <3> QED
      BY <1>4, <2>6, <2>7, <3>1, <3>2, <3>3, <3>4
  <2> HIDE DEF l
  <2>11. Agrees(q2, d, U, mk, Relook(lk, o, n), live)
    BY <2>9, <2>10, AgreesSame
  <2> QED
    BY <2>1, <2>11 DEF n
<1> QED
  BY <1>5, <1>6

\* A look at another place.
IsMoved(new, look, x) == new = [look EXCEPT !["pos"] = x]

\* So a look is moved.
LEMMA LookMoved ==
    \A c, t, p, x \in Vals : IsMoved(Look(c, t, x), Look(c, t, p), x)
<1>1. ASSUME NEW c \in Vals, NEW t \in Vals, NEW p \in Vals, NEW x \in Vals
      PROVE  [Look(c, t, p) EXCEPT !["pos"] = x] = Look(c, t, x)
  BY <1>1, LookWith
<1> QED
  BY <1>1 DEF IsMoved

\* What is sent when an objective has moved.
LEMMA SetPlaceAgrees ==
    ASSUME NEW q, NEW d, NEW U, NEW mk, NEW lk, NEW live, Agrees(q, d, U, mk, lk, live),
           NEW o \in Objectives, NEW m \in Markups, Has(mk, lk, live, o, m), NEW pos \in Nat
    PROVE  Agrees(SetPlace(q, m, pos), d, U, mk, Relook(lk, o, Recast(m, m.logi, pos, m.ends)), live)
<1> DEFINE n == Recast(m, m.logi, pos, m.ends)
           R == RingSlot(o)
           C == CapturableSlot(o)
           L == LabelSlot(o)
           side == m.side
           logi == m.logi
           was == m.at
           colour == Capturable(logi)
           x == Look(side, 0, pos)
           y == Look(colour, 0, pos)
           z == Look(side, logi, pos)
           r == One(lk, R, x)
           c == One(r, C, y)
           l == One(c, L, z)
           q1 == set_markup(q, m.ring, "pos", pos)
           q2 == set_markup(q1, m.capturable, "pos", pos)
           q3 == set_markup(q2, m.label, "pos", pos)
<1>1. /\ m.ends \in [DOMAIN m.arrows -> Nat] /\ m.logi \in Nat /\ m.capturable # NoMark
      /\ m.ring # NoMark /\ m.label # NoMark /\ m # NoMarkup
  BY MarkupIs DEF NoMark
<1>2. /\ SameMarks(n, m) /\ n.logi = m.logi /\ n.at = pos /\ n.ends = m.ends
  BY <1>1, RecastIs
<1>3. live \subseteq Slots /\ MarkupSlots(o) \subseteq Slots
  BY SlotsThere DEF Agrees
<1>4. /\ R \in live /\ C \in live /\ L \in live /\ R # C /\ R # L /\ C # L
      /\ mk[R] = m.ring /\ mk[C] = m.capturable /\ mk[L] = m.label
      /\ lk[R] = Look(side, 0, was) /\ lk[C] = Look(colour, 0, was) /\ lk[L] = Look(side, logi, was)
  <2>1. R \in MarkupSlots(o) /\ C \in MarkupSlots(o) /\ L \in MarkupSlots(o)
    BY DEF MarkupSlots
  <2>2. /\ MarkupMark(m, R) = m.ring /\ MarkupMark(m, C) = m.capturable /\ MarkupMark(m, L) = m.label
        /\ MarkupLook(m, R) = Look(m.side, 0, m.at)
        /\ MarkupLook(m, C) = Look(Capturable(m.logi), 0, m.at)
        /\ MarkupLook(m, L) = Look(m.side, m.logi, m.at)
    BY <1>1, MarksOfMarkup
  <2> QED
    BY <1>1, <2>1, <2>2, MarkupSlotsDiffer DEF Has
<1>5. CASE m.at = pos
  <2>1. SetPlace(q, m, pos) = q
    BY <1>5 DEF SetPlace
  <2>2. \A s : MarkupLook(n, s) = MarkupLook(m, s)
    BY <1>2, <1>5 DEF MarkupLook, SameMarks
  <2>3. \A s \in live : Relook(lk, o, n)[s] = lk[s]
    BY <1>3, <2>2 DEF Relook, Has
  <2> QED
    BY <2>1, <2>3, AgreesSame
<1>6. CASE m.at # pos
  <2>1. SetPlace(q, m, pos) = q3
    BY <1>6 DEF SetPlace
  <2>2. "pos" \in Fields /\ pos \in Vals
    BY DEF Fields, Vals
  <2>3. side \in Vals /\ was \in Vals /\ logi \in Vals /\ colour \in Vals /\ 0 \in Vals
    BY MarkupIs DEF Vals, Capturable, Colours
  <2>4. x = [lk[R] EXCEPT !["pos"] = pos]
    <3>1. x = Look(side, 0, pos) /\ lk[R] = Look(side, 0, was)
      BY <1>4
    <3> HIDE DEF side, was, x
    <3>2. IsMoved(x, lk[R], pos)
      BY <2>2, <2>3, <3>1, LookMoved
    <3> QED
      BY <3>2 DEF IsMoved
  <2>5. y = [lk[C] EXCEPT !["pos"] = pos]
    <3>1. y = Look(colour, 0, pos) /\ lk[C] = Look(colour, 0, was)
      BY <1>4
    <3> HIDE DEF colour, was, y
    <3>2. IsMoved(y, lk[C], pos)
      BY <2>2, <2>3, <3>1, LookMoved
    <3> QED
      BY <3>2 DEF IsMoved
  <2>6. z = [lk[L] EXCEPT !["pos"] = pos]
    <3>1. z = Look(side, logi, pos) /\ lk[L] = Look(side, logi, was)
      BY <1>4
    <3> HIDE DEF side, logi, was, z
    <3>2. IsMoved(z, lk[L], pos)
      BY <2>2, <2>3, <3>1, LookMoved
    <3> QED
      BY <3>2 DEF IsMoved
  <2>7. r[C] = lk[C] /\ c[L] = lk[L]
    BY <1>3, <1>4 DEF One
  <2>8. MarkupLook(n, R) = x /\ MarkupLook(n, C) = y /\ MarkupLook(n, L) = z
    <3>1. /\ MarkupLook(n, R) = Look(n.side, 0, n.at)
          /\ MarkupLook(n, C) = Look(Capturable(n.logi), 0, n.at)
          /\ MarkupLook(n, L) = Look(n.side, n.logi, n.at)
      BY MarksOfMarkup
    <3>2. n.side = m.side
      BY <1>2 DEF SameMarks
    <3> HIDE DEF n
    <3> QED
      BY <1>2, <3>1, <3>2
  <2>9. \A s \in MarkupSlots(o) \ {R, C, L} : MarkupLook(n, s) = MarkupLook(m, s)
    <3>1. \A f : MarkupLook(n, ArrowSlot(o, f)) = MarkupLook(m, ArrowSlot(o, f))
      BY <1>2 DEF MarkupLook, ArrowSlot
    <3> QED
      BY <3>1 DEF MarkupSlots
  <2> DEFINE i == m.ring
             j == m.capturable
             k == m.label
  <2>10. R \in MarkupSlots(o) /\ C \in MarkupSlots(o) /\ L \in MarkupSlots(o)
    BY DEF MarkupSlots
  <2> HIDE DEF n, R, C, L, x, y, z, r, c, l, q1, q2, q3, i, j, k
  <2>11. Agrees(q1, d, U, mk, r, live)
    <3>1. i = mk[R] /\ R \in live /\ q1 = set_markup(q, i, "pos", pos) /\ r = One(lk, R, x)
      BY <1>4 DEF i, q1, r
    <3> QED
      BY <2>2, <2>4, <3>1, AgreesOne
  <2>12. Agrees(q2, d, U, mk, c, live)
    <3>1. j = mk[C] /\ C \in live /\ q2 = set_markup(q1, j, "pos", pos) /\ c = One(r, C, y)
          /\ y = [r[C] EXCEPT !["pos"] = pos]
      BY <1>4, <2>5, <2>7 DEF j, q2, c
    <3> QED
      BY <2>2, <2>11, <3>1, AgreesOne
  <2>13. Agrees(q3, d, U, mk, l, live)
    <3>1. k = mk[L] /\ L \in live /\ q3 = set_markup(q2, k, "pos", pos) /\ l = One(c, L, z)
          /\ z = [c[L] EXCEPT !["pos"] = pos]
      BY <1>4, <2>6, <2>7 DEF k, q3, l
    <3> QED
      BY <2>2, <2>12, <3>1, AgreesOne
  <2>14. \A s \in live : Relook(lk, o, n)[s] = l[s]
    <3>1. \A s \in live : l[s] = IF s = L THEN z ELSE IF s = C THEN y ELSE IF s = R THEN x ELSE lk[s]
      BY <1>3 DEF One, r, c, l
    <3>2. \A s \in live : Relook(lk, o, n)[s] = IF s \in MarkupSlots(o) THEN MarkupLook(n, s) ELSE lk[s]
      BY <1>3 DEF Relook
    <3>3. \A s \in MarkupSlots(o) : lk[s] = MarkupLook(m, s)
      BY DEF Has
    <3> QED
      BY <1>4, <2>8, <2>9, <2>10, <3>1, <3>2, <3>3
  <2>15. Agrees(q3, d, U, mk, Relook(lk, o, n), live)
    BY <2>13, <2>14, AgreesSame
  <2> QED
    BY <2>1, <2>15 DEF n
<1> QED
  BY <1>5, <1>6

\* What is sent of the FARPs that have moved, and where they are then.
EndCmds(m, world, ends) == {SetCmd(m.arrows[f], "pos", world[f].at) : f \in ends}
NewEnds(m, world, ends) == [f \in DOMAIN m.ends |-> IF f \in ends THEN world[f].at ELSE m.ends[f]]

\* The map agrees when it was sent.
LEMMA EndsAgree ==
    ASSUME NEW q, NEW d, NEW U, NEW mk, NEW lk, NEW live, Agrees(q, d, U, mk, lk, live),
           NEW o \in Objectives, NEW m \in Markups, Has(mk, lk, live, o, m), NEW world \in Worlds,
           NEW ends \in SUBSET DOMAIN m.arrows, NEW new, new = NewEnds(m, world, ends)
    PROVE  /\ new \in [DOMAIN m.arrows -> Nat]
           /\ Agrees(PushAll(q, 3, EndCmds(m, world, ends)), d, U, mk,
                     Relook(lk, o, Recast(m, m.logi, m.at, new)), live)
<1> USE DEF EndCmds, NewEnds
<1> DEFINE n == Recast(m, m.logi, m.at, new)
           cmds == {SetCmd(m.arrows[f], "pos", world[f].at) : f \in ends}
           X == {ArrowSlot(o, f) : f \in ends}
           val == [s \in Slots |-> world[s[2][2]].at]
           kk == Relook(lk, o, n)
<1>1. /\ m.ends \in [DOMAIN m.arrows -> Nat] /\ m.logi \in Nat /\ m.at \in Nat /\ m # NoMarkup
      /\ DOMAIN m.arrows \in SUBSET Farps /\ \A f \in DOMAIN m.arrows : m.arrows[f] # NoMark
  BY MarkupIs DEF NoMark
<1>2. \A f \in Farps : world[f].at \in Nat
  BY DEF Worlds, Objectives
<1>3. /\ new \in [DOMAIN m.arrows -> Nat]
      /\ \A f \in DOMAIN m.arrows : new[f] = IF f \in ends THEN world[f].at ELSE m.ends[f]
  BY <1>1, <1>2
<1>4. SameMarks(n, m) /\ n.logi = m.logi /\ n.at = m.at /\ n.ends = new
  BY <1>1, <1>3, RecastIs
<1> HIDE DEF n
<1>5. live \subseteq Slots /\ MarkupSlots(o) \subseteq Slots
  BY SlotsThere DEF Agrees
<1>6. \A f \in DOMAIN m.arrows :
         /\ ArrowSlot(o, f) \in MarkupSlots(o) /\ ArrowSlot(o, f)[2][2] = f
         /\ MarkupMark(m, ArrowSlot(o, f)) = m.arrows[f]
         /\ MarkupLook(m, ArrowSlot(o, f)) = Arrow(m.ends[f])
         /\ MarkupLook(n, ArrowSlot(o, f)) = Arrow(n.ends[f])
  <2>1. ASSUME NEW f \in DOMAIN m.arrows
        PROVE  /\ ArrowSlot(o, f) \in MarkupSlots(o) /\ ArrowSlot(o, f)[2][2] = f
               /\ MarkupLook(m, ArrowSlot(o, f)) = Arrow(m.ends[f])
               /\ MarkupLook(n, ArrowSlot(o, f)) = Arrow(n.ends[f])
    BY <1>1 DEF MarkupSlots, MarkupLook, ArrowSlot
  <2>2. \A f \in DOMAIN m.arrows : MarkupMark(m, ArrowSlot(o, f)) = m.arrows[f]
    BY <1>1, MarksOfMarkup
  <2> QED
    BY <2>1, <2>2
<1>7. \A f \in ends : /\ ArrowSlot(o, f) \in live /\ mk[ArrowSlot(o, f)] = m.arrows[f]
                      /\ lk[ArrowSlot(o, f)] = Arrow(m.ends[f])
                      /\ val[ArrowSlot(o, f)] = world[f].at
                      /\ kk[ArrowSlot(o, f)] = Arrow(world[f].at)
  <2>1. ASSUME NEW f \in ends
        PROVE  /\ ArrowSlot(o, f) \in live /\ mk[ArrowSlot(o, f)] = m.arrows[f]
               /\ lk[ArrowSlot(o, f)] = Arrow(m.ends[f])
               /\ val[ArrowSlot(o, f)] = world[f].at
               /\ kk[ArrowSlot(o, f)] = Arrow(world[f].at)
    <3> DEFINE s == ArrowSlot(o, f)
    <3>1. /\ f \in DOMAIN m.arrows /\ s \in MarkupSlots(o) /\ s[2][2] = f
          /\ MarkupMark(m, s) = m.arrows[f] /\ MarkupLook(m, s) = Arrow(m.ends[f])
          /\ MarkupLook(n, s) = Arrow(n.ends[f]) /\ n.ends[f] = world[f].at /\ s \in Slots
      BY <1>3, <1>4, <1>5, <1>6
    <3> HIDE DEF s
    <3>2. mk[s] = m.arrows[f] /\ lk[s] = Arrow(m.ends[f]) /\ s \in live
      BY <1>1, <3>1 DEF Has
    <3>3. val[s] = world[f].at
      BY <3>1
    <3>4. kk[s] = Arrow(world[f].at)
      BY <3>1 DEF Relook
    <3> QED
      BY <3>2, <3>3, <3>4 DEF s
  <2> QED
    BY <2>1
<1>8. cmds = {SetCmd(mk[s], "pos", val[s]) : s \in X}
  <2> HIDE DEF val, kk
  <2> QED
    BY <1>7
<1>9. IsFiniteSet(cmds)
  <2> DEFINE f == [x \in ends |-> SetCmd(m.arrows[x], "pos", world[x].at)]
  <2>1. IsFiniteSet(ends)
    BY <1>1, FarpsAreFinite
  <2>2. f = [x \in ends |-> f[x]] /\ cmds = {f[x] : x \in ends}
    OBVIOUS
  <2> HIDE DEF f, cmds
  <2> QED
    BY <2>1, <2>2, ImageFinite
<1>10. \A f \in ends : Arrow(world[f].at) = [Arrow(m.ends[f]) EXCEPT !["pos"] = world[f].at]
  <2>1. ASSUME NEW x \in Nat, NEW y \in Nat
        PROVE  Arrow(x) = [Arrow(y) EXCEPT !["pos"] = x]
    <3>1. x \in Vals /\ y \in Vals /\ 0 \in Vals /\ "gray" \in Vals
      BY DEF Vals, Colours
    <3> DEFINE a == Arrow(x)
               b == Arrow(y)
    <3>2. a = Look("gray", 0, x) /\ b = Look("gray", 0, y)
      BY DEF Arrow
    <3> HIDE DEF a, b
    <3>3. IsMoved(a, b, x)
      BY <3>1, <3>2, LookMoved
    <3> QED
      BY <3>3 DEF a, b, IsMoved
  <2> QED
    BY <1>1, <1>2, <2>1
<1>11. X \in SUBSET live /\ \A s \in X : val[s] \in Vals /\ kk[s] = [lk[s] EXCEPT !["pos"] = val[s]]
  <2> HIDE DEF val, kk
  <2>1. \A f \in ends : world[f].at \in Vals
    BY <1>1, <1>2 DEF Vals
  <2> QED
    BY <1>7, <1>10, <2>1
<1>12. \A s \in live \ X : kk[s] = lk[s]
  <2>1. \A s \in {RingSlot(o), CapturableSlot(o), LabelSlot(o)} : MarkupLook(n, s) = MarkupLook(m, s)
    <3>1. /\ \A h : MarkupLook(h, RingSlot(o)) = Look(h.side, 0, h.at)
          /\ \A h : MarkupLook(h, CapturableSlot(o)) = Look(Capturable(h.logi), 0, h.at)
          /\ \A h : MarkupLook(h, LabelSlot(o)) = Look(h.side, h.logi, h.at)
      BY MarksOfMarkup
    <3>2. n.side = m.side
      BY <1>4 DEF SameMarks
    <3> QED
      BY <1>4, <3>1, <3>2
  <2>2. \A f \in DOMAIN m.arrows \ ends : MarkupLook(n, ArrowSlot(o, f)) = MarkupLook(m, ArrowSlot(o, f))
    BY <1>3, <1>4, <1>6
  <2>3. \A s \in live \cap MarkupSlots(o) : mk[s] # NoMark
    BY DEF Agrees
  <2>4. \A f \in Farps \ DOMAIN m.arrows : mk[ArrowSlot(o, f)] = NoMark
    BY <1>1, MarksOfMarkup DEF Has, MarkupSlots
  <2>5. \A s \in (live \cap MarkupSlots(o)) \ X :
           s \in {RingSlot(o), CapturableSlot(o), LabelSlot(o)} \/ \E f \in DOMAIN m.arrows \ ends : s = ArrowSlot(o, f)
    BY <2>3, <2>4 DEF MarkupSlots
  <2>6. \A s \in (live \cap MarkupSlots(o)) \ X : MarkupLook(n, s) = MarkupLook(m, s)
    BY <2>1, <2>2, <2>5
  <2> HIDE DEF X
  <2> QED
    BY <1>5, <2>6 DEF Relook, Has
<1>13. "pos" \in Fields
  BY DEF Fields
<1> HIDE DEF cmds, X, val, kk
<1>14. Agrees(PushAll(q, 3, cmds), d, U, mk, kk, live)
  <2> DEFINE field == "pos"
  <2>1. field \in Fields /\ cmds = {SetCmd(mk[s], field, val[s]) : s \in X}
    BY <1>8, <1>13
  <2>2. \A s \in X : kk[s] = [lk[s] EXCEPT ![field] = val[s]]
    BY <1>11
  <2>3. X \in SUBSET live /\ \A s \in X : val[s] \in Vals
    BY <1>11
  <2>4. Resets(cmds, X, live, mk, lk, kk, field, val)
    BY <1>9, <1>12, <2>1, <2>2, <2>3 DEF Resets
  <2> QED
    BY <2>4, AgreesAllChanged
<1> QED
  BY <1>3, <1>14 DEF cmds, kk, n

\* What bringing a markup up to date leaves of the tables.
IsUpdated(v, w, o) ==
    /\ v \in Works /\ v.pin = w.pin /\ v.dst = w.dst /\ v.n = w.n
    /\ SameMarks(v.table[o], w.table[o])
    /\ \A h \in Objectives \ {o} : v.table[h] = w.table[h]

\* The same marks for the slots.
LEMMA SameMarksAre ==
    ASSUME NEW w, NEW v, NEW o \in Objectives, w.table[o] \in Markups, IsUpdated(v, w, o), NEW pos
    PROVE  /\ \A s \in Slots : MK(v)[s] = MK(w)[s]
           /\ \A s \in Slots \ MarkupSlots(o) : LK(v, pos)[s] = LK(w, pos)[s]
           /\ \A s \in MarkupSlots(o) : LK(v, pos)[s] = MarkupLook(v.table[o], s)
<1> DEFINE m == w.table[o]
           n == v.table[o]
<1>1. SameMarks(n, m) /\ m \in Markups
  BY DEF IsUpdated
<1>2. \A s \in MarkupSlots(o) : MarkupMark(n, s) = MarkupMark(m, s)
  <2> DEFINE mk == [s \in MarkupSlots(o) |-> MarkupMark(m, s)]
             lk == [s \in MarkupSlots(o) |-> MarkupLook(m, s)]
             live == MarkupSlots(o)
  <2>1. Has(mk, lk, live, o, m)
    BY DEF Has
  <2>2. \A s \in MarkupSlots(o) : mk[s] = MarkupMark(m, s)
    OBVIOUS
  <2> HIDE DEF m, n, mk, lk, live
  <2>3. Has(mk, Relook(lk, o, n), live, o, n)
    BY <1>1, <2>1, RelookHas
  <2> QED
    BY <2>2, <2>3 DEF Has
<1>3. \A h \in Objectives : h # o => v.table[h] = w.table[h]
  BY DEF IsUpdated
<1>4. v.pin = w.pin /\ v.dst = w.dst
  BY DEF IsUpdated
<1> HIDE DEF m, n
<1>5. ASSUME NEW s \in Slots
      PROVE  MK(v)[s] = MK(w)[s] /\ (s \notin MarkupSlots(o) => LK(v, pos)[s] = LK(w, pos)[s])
  <2>1. ASSUME NEW g \in Groups, s = PinSlot(g)
        PROVE  MK(v)[s] = MK(w)[s] /\ LK(v, pos)[s] = LK(w, pos)[s]
    <3>1. MK(v)[s] = v.pin[g] /\ MK(w)[s] = w.pin[g]
      BY <2>1, MarksOfGroups
    <3>2. LK(v, pos)[s] = Look("pin", 0, pos[g]) /\ LK(w, pos)[s] = Look("pin", 0, pos[g])
      BY <2>1, LooksOfGroups
    <3> QED
      BY <1>4, <3>1, <3>2
  <2>2. ASSUME NEW g \in Raids, s = DstSlot(g)
        PROVE  MK(v)[s] = MK(w)[s] /\ LK(v, pos)[s] = LK(w, pos)[s]
    <3>1. MK(v)[s] = v.dst[g] /\ MK(w)[s] = w.dst[g]
      BY <2>2, MarksOfGroups
    <3>2. LK(v, pos)[s] = Look("pin", 0, Target) /\ LK(w, pos)[s] = Look("pin", 0, Target)
      BY <2>2, LooksOfGroups
    <3> QED
      BY <1>4, <3>1, <3>2
  <2>3. ASSUME NEW h \in Objectives, s \in MarkupSlots(h)
        PROVE  MK(v)[s] = MK(w)[s] /\ (h # o => LK(v, pos)[s] = LK(w, pos)[s])
    <3>1. MK(v)[s] = MarkupMark(v.table[h], s) /\ MK(w)[s] = MarkupMark(w.table[h], s)
      BY <2>3, MarksOfGroups
    <3>2. LK(v, pos)[s] = MarkupLook(v.table[h], s) /\ LK(w, pos)[s] = MarkupLook(w.table[h], s)
      BY <2>3, LooksOfGroups
    <3>3. CASE h = o
      BY <1>2, <2>3, <3>1, <3>3 DEF m, n
    <3>4. CASE h # o
      BY <1>3, <3>1, <3>2, <3>4
    <3> QED
      BY <3>3, <3>4
  <2> QED
    BY <2>1, <2>2, <2>3, SlotsAre
<1>6. \A s \in MarkupSlots(o) : LK(v, pos)[s] = MarkupLook(v.table[o], s)
  BY LooksOfGroups
<1> QED
  BY <1>5, <1>6

\* The queue after an update, and the markup.
LEMMA UpdateAgrees ==
    ASSUME NEW q, NEW d, NEW U, NEW mk, NEW lk, NEW live, Agrees(q, d, U, mk, lk, live),
           NEW o \in Objectives, NEW m \in Markups, Has(mk, lk, live, o, m), NEW world \in Worlds,
           NEW ends \in SUBSET DOMAIN m.arrows
    PROVE  LET n == Recast(m, world[o].logi, world[o].at, NewEnds(m, world, ends))
               set == SetPlace(SetLogi(q, m, world[o].logi, TRUE), m, world[o].at)
           IN  /\ SameMarks(n, m)
               /\ Agrees(PushAll(set, 3, EndCmds(m, world, ends)), d, U, mk,
                         Relook(lk, o, n), live)
<1> DEFINE new == NewEnds(m, world, ends)
           logi == world[o].logi
           place == world[o].at
           n == Recast(m, logi, place, new)
           a == Recast(m, logi, m.at, m.ends)
           b == Recast(a, a.logi, place, a.ends)
           c == Recast(b, b.logi, b.at, new)
           q1 == SetLogi(q, m, logi, TRUE)
           set == SetPlace(q1, m, place)
           cmds == EndCmds(m, world, ends)
           lk1 == Relook(lk, o, a)
           lk2 == Relook(lk1, o, b)
           lk3 == Relook(lk2, o, c)
<1>1. logi \in Nat /\ place \in Nat
  BY DEF Worlds
<1>2. m.ends \in [DOMAIN m.arrows -> Nat] /\ m.at \in Nat
  BY MarkupIs
<1> HIDE DEF logi, place, new
<1>3. SameMarks(a, m) /\ a.logi = logi /\ a.at = m.at /\ a.ends = m.ends
  BY <1>1, <1>2, RecastIs
<1>4. a \in Markups /\ a.arrows = m.arrows /\ a.ends \in [DOMAIN a.arrows -> Nat] /\ a.logi \in Nat
  BY <1>1, <1>2, <1>3 DEF SameMarks
<1> HIDE DEF a
<1>5. SameMarks(b, a) /\ b.logi = logi /\ b.at = place /\ b.ends = m.ends
  <2>1. SameMarks(b, a) /\ b.logi = a.logi /\ b.at = place /\ b.ends = a.ends
    BY <1>1, <1>4, RecastIs
  <2> QED
    BY <1>3, <2>1
<1>6. b \in Markups /\ b.arrows = m.arrows /\ SameMarks(b, m)
  BY <1>3, <1>4, <1>5 DEF SameMarks
<1> HIDE DEF b
<1>7. Agrees(q1, d, U, mk, lk1, live)
  BY <1>1, SetLogiAgrees DEF a
<1>8. Has(mk, lk1, live, o, a)
  BY <1>3, RelookHas
<1>9. set = SetPlace(q1, a, place)
  <2>1. a.ring = m.ring /\ a.capturable = m.capturable /\ a.label = m.label /\ a.at = m.at
    BY <1>3 DEF SameMarks
  <2> HIDE DEF q1
  <2> QED
    BY <2>1 DEF SetPlace
<1> HIDE DEF q1, lk1, set
<1>10. Agrees(set, d, U, mk, lk2, live)
  BY <1>1, <1>4, <1>7, <1>8, <1>9, SetPlaceAgrees DEF b
<1>11. Has(mk, lk2, live, o, b)
  BY <1>4, <1>5, <1>8, RelookHas
<1> HIDE DEF lk2
<1>12. /\ new \in [DOMAIN b.arrows -> Nat]
       /\ Agrees(PushAll(set, 3, cmds), d, U, mk, lk3, live)
  <2>1. new = NewEnds(b, world, ends)
    BY <1>5 DEF new, NewEnds
  <2>2. cmds = EndCmds(b, world, ends)
    BY <1>6 DEF EndCmds
  <2>3. ends \in SUBSET DOMAIN b.arrows
    BY <1>6
  <2>4. lk3 = Relook(lk2, o, Recast(b, b.logi, b.at, new))
    OBVIOUS
  <2> HIDE DEF cmds, lk3, c
  <2> QED
    BY <1>6, <1>10, <1>11, <2>1, <2>2, <2>3, <2>4, EndsAgree
<1> HIDE DEF n, c, lk3, cmds
<1>13. new \in [DOMAIN m.arrows -> Nat]
  BY <1>6, <1>12
<1> USE DEF n, c, lk3
<1>14. SameMarks(n, m) /\ n.logi = logi /\ n.at = place /\ n.ends = new
  <2>1. IsRecast(Recast(m, logi, place, new), m, logi, place, new)
    BY <1>1, <1>13, RecastsAre
  <2> QED
    BY <2>1 DEF IsRecast
<1>15. SameMarks(c, b) /\ c.logi = logi /\ c.at = place /\ c.ends = new
  <2>1. b.logi \in Nat /\ b.at \in Nat
    BY <1>1, <1>5
  <2>2. SameMarks(c, b) /\ c.logi = b.logi /\ c.at = b.at /\ c.ends = new
    BY <1>6, <1>12, <2>1, RecastIs
  <2> QED
    BY <1>5, <2>2
<1> HIDE DEF n, c
<1>16. \A s : MarkupLook(c, s) = MarkupLook(n, s)
  <2>1. c.side = n.side /\ c.arrows = n.arrows
    BY <1>6, <1>14, <1>15 DEF SameMarks
  <2> QED
    BY <1>14, <1>15, <2>1 DEF MarkupLook
<1>17. \A s \in live : Relook(lk, o, n)[s] = lk3[s]
  <2>1. live \subseteq Slots
    BY DEF Agrees
  <2> QED
    BY <1>16, <2>1 DEF Relook, lk1, lk2
<1> HIDE DEF lk3, cmds
<1>18. Agrees(PushAll(set, 3, cmds), d, U, mk, Relook(lk, o, n), live)
  BY <1>12, <1>17, AgreesSame
<1> QED
  BY <1>14, <1>18 DEF n, set, q1, cmds, new, logi, place

\* The map agrees with the tables when an objective was brought up to date.
LEMMA UpdateGood ==
    ASSUME NEW w, NEW d, NEW pos, NEW back \in SUBSET Raids, Good(w, d, pos, back),
           NEW world \in Worlds, NEW o \in Objectives, w.table[o] # NoMarkup, NEW moved
    PROVE  /\ IsUpdated(update(w, world, o, moved), w, o)
           /\ Good(update(w, world, o, moved), d, pos, back)
<1> DEFINE v == update(w, world, o, moved)
           m == w.table[o]
           ends == moved \cap DOMAIN m.arrows
           n == Recast(m, world[o].logi, world[o].at, NewEnds(m, world, ends))
           set == SetPlace(SetLogi(w.q, m, world[o].logi, TRUE), m, world[o].at)
           q == PushAll(set, 3, EndCmds(m, world, ends))
           table == [w.table EXCEPT ![o] = n]
           mk == MK(w)
           lk == LK(w, pos)
           live == Live(w, back)
           U == Named(w)
<1>1. v = [w EXCEPT !.q = q, !.table = table]
  BY DEF update, UpdatedAs, Recast, NewEnds, EndCmds
<1>2. /\ w \in Works /\ w.table \in [Objectives -> {NoMarkup} \cup Markups] /\ m \in Markups
      /\ ends \in SUBSET DOMAIN m.arrows
  BY DEF Good, Works
<1>3. Agrees(w.q, d, U, mk, lk, live) /\ \A s \in Slots : mk[s] # NoMark => mk[s] \in U
  BY DEF Good
<1>4. MarkupSlots(o) \subseteq Slots
  BY SlotsThere
<1>5. Has(mk, lk, live, o, m)
  <2>1. \A s \in MarkupSlots(o) : ~Away(s, back)
    BY SlotsDiffer DEF Away
  <2>2. \A s \in MarkupSlots(o) : mk[s] = MarkupMark(m, s) /\ lk[s] = MarkupLook(m, s)
    BY MarksOfGroups, LooksOfGroups
  <2>3. \A s \in MarkupSlots(o) : mk[s] # NoMark => s \in live
    BY <1>4, <2>1 DEF Live
  <2> QED
    BY <2>2, <2>3 DEF Has
<1> HIDE DEF mk, lk, live, U, m, ends
<1>6. SameMarks(n, m) /\ Agrees(q, d, U, mk, Relook(lk, o, n), live)
  BY <1>2, <1>3, <1>5, UpdateAgrees
<1> HIDE DEF n, q
<1>7. table \in [Objectives -> {NoMarkup} \cup Markups] /\ table[o] = n
      /\ \A h \in Objectives \ {o} : table[h] = w.table[h]
  BY <1>2, <1>6 DEF SameMarks
<1> HIDE DEF table, v
<1>8. q \in Queues
  BY <1>6 DEF Agrees, Queued
<1>9. v \in Works
  BY <1>1, <1>2, <1>7, <1>8 DEF Works
<1>10. v.q = q /\ v.table = table /\ v.n = w.n /\ v.pin = w.pin /\ v.dst = w.dst
  BY <1>1, <1>2 DEF Works
<1>11. IsUpdated(v, w, o)
  BY <1>6, <1>7, <1>9, <1>10 DEF IsUpdated, m
<1>12. /\ \A s \in Slots : MK(v)[s] = mk[s]
       /\ \A s \in Slots \ MarkupSlots(o) : LK(v, pos)[s] = lk[s]
       /\ \A s \in MarkupSlots(o) : LK(v, pos)[s] = MarkupLook(n, s)
  <2>1. w.table[o] \in Markups
    BY <1>2 DEF m
  <2>2. v.table[o] = n
    BY <1>7, <1>10
  <2>3. /\ \A s \in Slots : MK(v)[s] = MK(w)[s]
        /\ \A s \in Slots \ MarkupSlots(o) : LK(v, pos)[s] = LK(w, pos)[s]
        /\ \A s \in MarkupSlots(o) : LK(v, pos)[s] = MarkupLook(v.table[o], s)
    BY <1>11, <2>1, SameMarksAre
  <2> QED
    BY <2>2, <2>3 DEF mk, lk
<1>13. \A s \in Slots : LK(v, pos)[s] = Relook(lk, o, n)[s]
  BY <1>12 DEF Relook
<1>14. Agrees(v.q, d, U, MK(v), LK(v, pos), live)
  <2> DEFINE nk == MK(v)
             kk == LK(v, pos)
             ok == Relook(lk, o, n)
  <2>1. Agrees(v.q, d, U, mk, ok, live)
    BY <1>6, <1>10
  <2>2. \A s, t \in Slots : mk[s] = mk[t] /\ mk[s] # NoMark => s = t
    BY <1>3 DEF Agrees
  <2>3. live \subseteq Slots
    BY <1>3 DEF Agrees
  <2>4. /\ \A s, t \in Slots : nk[s] = nk[t] /\ nk[s] # NoMark => s = t
        /\ \A s \in live : nk[s] = mk[s] /\ kk[s] = ok[s]
    BY <1>12, <1>13, <2>2, <2>3
  <2> HIDE DEF nk, kk, ok
  <2>5. Agrees(v.q, d, U, nk, kk, live)
    BY <2>1, <2>4, AgreesAs
  <2> QED
    BY <2>5 DEF nk, kk
<1>15. Named(v) = U
  BY <1>10 DEF Named, U
<1>16. Live(v, back) = live
  BY <1>12 DEF Live, live, mk
<1>17. Good(v, d, pos, back)
  BY <1>3, <1>9, <1>12, <1>14, <1>15, <1>16 DEF Good
<1> QED
  BY <1>11, <1>17 DEF v

-----------------------------------------------------------------------------
(* The loops over groups and objectives. *)

\* What the loop keeps of V and R.
PinsKeep(world, pos, V, base, S, R) ==
    /\ base \in V /\ IsFiniteSet(S) /\ <<base, {}>> \in R
    /\ \A v \in V, e \in S : mark_group(v, e, world, pos[e]) \in V
    /\ \A T \in SUBSET S, e \in S, v \in V :
          e \notin T /\ <<v, T>> \in R => <<mark_group(v, e, world, pos[e]), T \cup {e}>> \in R

\* Groups marked one after the other.
LEMMA PinnedFolds ==
    ASSUME NEW world, NEW pos, NEW V, NEW base, NEW S, NEW R, PinsKeep(world, pos, V, base, S, R)
    PROVE  Pinned(base, world, pos, S) \in V /\ <<Pinned(base, world, pos, S), S>> \in R
<1> USE DEF PinsKeep
<1> DEFINE Step(e, v) == CHOOSE r \in {mark_group(x, e, world, pos[e]) : x \in {v}} : TRUE
           IsIt(it) == it = [T \in SUBSET S |->
                               IF T = {} THEN base ELSE Step(Pick(T), it[T \ {Pick(T)}])]
           choose == [T \in SUBSET S |-> Pick(T)]
           op == [p \in S \X V |-> mark_group(p[2], p[1], world, pos[p[1]])]
<1>1. Pinned(base, world, pos, S) = (CHOOSE it : IsIt(it))[S]
  BY DEF Pinned, Each, FoldSet, MapThenFoldSet, Pick
<1>2. \A v \in V, e \in S : Step(e, v) = mark_group(v, e, world, pos[e]) /\ Step(e, v) \in V
  <2> TAKE v \in V, e \in S
  <2>1. {mark_group(x, e, world, pos[e]) : x \in {v}} = {mark_group(v, e, world, pos[e])}
    OBVIOUS
  <2>2. Step(e, v) = mark_group(v, e, world, pos[e])
    BY <2>1
  <2> HIDE DEF Step
  <2> QED
    BY <2>2
<1>3. op \in [S \X V -> V] /\ \A x \in S, v \in V : op[<<x, v>>] = mark_group(v, x, world, pos[x])
  <2>1. \A x \in S, v \in V : mark_group(v, x, world, pos[x]) \in V
    OBVIOUS
  <2>2. \A p \in S \X V : p[1] \in S /\ p[2] \in V
    OBVIOUS
  <2>3. \A p \in S \X V : mark_group(p[2], p[1], world, pos[p[1]]) \in V
    BY <2>1, <2>2
  <2>4. op \in [S \X V -> V]
    BY <2>3
  <2> QED
    BY <2>4
<1>4. Chooses(choose, S) /\ \A T \in SUBSET S : choose[T] = Pick(T)
  BY PickIsThere DEF Chooses
<1> HIDE DEF choose, op, Step
<1>5. \A x \in S, v \in V : op[<<x, v>>] = Step(x, v) /\ Step(x, v) \in V
  <2> TAKE x \in S, v \in V
  <2>1. op[<<x, v>>] = Step(x, v)
    BY <1>2, <1>3
  <2>2. op[<<x, v>>] \in V
    BY <1>3
  <2> QED
    BY <2>1, <2>2
<1>6. KeptBy(R, S, V, op)
  <2> SUFFICES ASSUME NEW T \in SUBSET S, NEW x \in S, NEW v \in V, x \notin T, <<v, T>> \in R
               PROVE  op[<<x, v>>] \in V /\ <<op[<<x, v>>], T \cup {x}>> \in R
    BY DEF KeptBy
  <2>1. op[<<x, v>>] = mark_group(v, x, world, pos[x]) /\ op[<<x, v>>] \in V
    BY <1>3, <1>5
  <2>2. <<mark_group(v, x, world, pos[x]), T \cup {x}>> \in R
    OBVIOUS
  <2> QED
    BY <2>1, <2>2
<1>7. \E it : IsIt(it)
  <2>1. PICK it \in [SUBSET S -> V] : IsFold(it, S, base, choose, op)
    BY <1>3, <1>4, FoldExists
  <2>2. it = [T \in SUBSET S |-> IF T = {} THEN base ELSE op[<<choose[T], it[T \ {choose[T]}]>>]]
    BY <2>1 DEF IsFold
  <2>3. ASSUME NEW T \in SUBSET S, T # {}
        PROVE  op[<<choose[T], it[T \ {choose[T]}]>>] = Step(Pick(T), it[T \ {Pick(T)}])
    <3>1. T \ {Pick(T)} \in SUBSET S /\ choose[T] = Pick(T) /\ Pick(T) \in S
      BY <1>4, <2>3 DEF Chooses
    <3>2. it[T \ {Pick(T)}] \in V
      BY <3>1
    <3> QED
      BY <1>5, <3>1, <3>2
  <2>4. it = [T \in SUBSET S |-> IF T = {} THEN base ELSE Step(Pick(T), it[T \ {Pick(T)}])]
    BY <2>2, <2>3
  <2> QED
    BY <2>4
<1> DEFINE it == CHOOSE it : IsIt(it)
<1>8. it = [T \in SUBSET S |-> IF T = {} THEN base ELSE Step(Pick(T), it[T \ {Pick(T)}])]
  BY <1>7
<1> HIDE DEF it
<1>9. FoldsIn(it, S, V, base, choose, op)
  <2>1. it[{}] = base
    BY <1>8
  <2>2. ASSUME NEW T \in SUBSET S, T # {}, it[T \ {choose[T]}] \in V
        PROVE  it[T] = op[<<choose[T], it[T \ {choose[T]}]>>]
    <3>1. choose[T] = Pick(T) /\ choose[T] \in S
      BY <1>4, <2>2 DEF Chooses
    <3>2. it[T] = Step(Pick(T), it[T \ {Pick(T)}])
      BY <1>8, <2>2
    <3> QED
      BY <1>5, <2>2, <3>1, <3>2
  <2> QED
    BY <2>1, <2>2 DEF FoldsIn
<1>10. it[S] \in V /\ <<it[S], S>> \in R
  BY <1>4, <1>6, <1>9, FoldKeeps
<1> QED
  BY <1>1, <1>10 DEF it

\* Pins deleted one after the other.
LEMMA UnpinnedFolds ==
    ASSUME NEW V, NEW base \in V, NEW S, IsFiniteSet(S),
           \A v \in V, e \in S : Unpin(v, e) \in V, NEW R, <<base, {}>> \in R,
           \A T \in SUBSET S, e \in S, v \in V :
              e \notin T /\ <<v, T>> \in R => <<Unpin(v, e), T \cup {e}>> \in R
    PROVE  Unpinned(base, S) \in V /\ <<Unpinned(base, S), S>> \in R
<1> DEFINE Step(e, v) == CHOOSE r \in {Unpin(x, e) : x \in {v}} : TRUE
           IsIt(it) == it = [T \in SUBSET S |->
                               IF T = {} THEN base ELSE Step(Pick(T), it[T \ {Pick(T)}])]
           choose == [T \in SUBSET S |-> Pick(T)]
           op == [p \in S \X V |-> Unpin(p[2], p[1])]
<1>1. Unpinned(base, S) = (CHOOSE it : IsIt(it))[S]
  BY DEF Unpinned, Each, FoldSet, MapThenFoldSet, Pick
<1>2. \A v \in V, e \in S : Step(e, v) = Unpin(v, e) /\ Step(e, v) \in V
  <2> TAKE v \in V, e \in S
  <2>1. {Unpin(x, e) : x \in {v}} = {Unpin(v, e)}
    OBVIOUS
  <2>2. Step(e, v) = Unpin(v, e)
    BY <2>1
  <2> HIDE DEF Step
  <2> QED
    BY <2>2
<1>3. op \in [S \X V -> V] /\ \A x \in S, v \in V : op[<<x, v>>] = Unpin(v, x)
  <2>1. \A x \in S, v \in V : Unpin(v, x) \in V
    OBVIOUS
  <2>2. \A p \in S \X V : p[1] \in S /\ p[2] \in V
    OBVIOUS
  <2>3. \A p \in S \X V : Unpin(p[2], p[1]) \in V
    BY <2>1, <2>2
  <2>4. op \in [S \X V -> V]
    BY <2>3
  <2> QED
    BY <2>4
<1>4. Chooses(choose, S) /\ \A T \in SUBSET S : choose[T] = Pick(T)
  BY PickIsThere DEF Chooses
<1> HIDE DEF choose, op, Step
<1>5. \A x \in S, v \in V : op[<<x, v>>] = Step(x, v) /\ Step(x, v) \in V
  <2> TAKE x \in S, v \in V
  <2>1. op[<<x, v>>] = Step(x, v)
    BY <1>2, <1>3
  <2>2. op[<<x, v>>] \in V
    BY <1>3
  <2> QED
    BY <2>1, <2>2
<1>6. KeptBy(R, S, V, op)
  <2> SUFFICES ASSUME NEW T \in SUBSET S, NEW x \in S, NEW v \in V, x \notin T, <<v, T>> \in R
               PROVE  op[<<x, v>>] \in V /\ <<op[<<x, v>>], T \cup {x}>> \in R
    BY DEF KeptBy
  <2>1. op[<<x, v>>] = Unpin(v, x) /\ op[<<x, v>>] \in V
    BY <1>3, <1>5
  <2>2. <<Unpin(v, x), T \cup {x}>> \in R
    OBVIOUS
  <2> QED
    BY <2>1, <2>2
<1>7. \E it : IsIt(it)
  <2>1. PICK it \in [SUBSET S -> V] : IsFold(it, S, base, choose, op)
    BY <1>3, <1>4, FoldExists
  <2>2. it = [T \in SUBSET S |-> IF T = {} THEN base ELSE op[<<choose[T], it[T \ {choose[T]}]>>]]
    BY <2>1 DEF IsFold
  <2>3. ASSUME NEW T \in SUBSET S, T # {}
        PROVE  op[<<choose[T], it[T \ {choose[T]}]>>] = Step(Pick(T), it[T \ {Pick(T)}])
    <3>1. T \ {Pick(T)} \in SUBSET S /\ choose[T] = Pick(T) /\ Pick(T) \in S
      BY <1>4, <2>3 DEF Chooses
    <3>2. it[T \ {Pick(T)}] \in V
      BY <3>1
    <3> QED
      BY <1>5, <3>1, <3>2
  <2>4. it = [T \in SUBSET S |-> IF T = {} THEN base ELSE Step(Pick(T), it[T \ {Pick(T)}])]
    BY <2>2, <2>3
  <2> QED
    BY <2>4
<1> DEFINE it == CHOOSE it : IsIt(it)
<1>8. it = [T \in SUBSET S |-> IF T = {} THEN base ELSE Step(Pick(T), it[T \ {Pick(T)}])]
  BY <1>7
<1> HIDE DEF it
<1>9. FoldsIn(it, S, V, base, choose, op)
  <2>1. it[{}] = base
    BY <1>8
  <2>2. ASSUME NEW T \in SUBSET S, T # {}, it[T \ {choose[T]}] \in V
        PROVE  it[T] = op[<<choose[T], it[T \ {choose[T]}]>>]
    <3>1. choose[T] = Pick(T) /\ choose[T] \in S
      BY <1>4, <2>2 DEF Chooses
    <3>2. it[T] = Step(Pick(T), it[T \ {Pick(T)}])
      BY <1>8, <2>2
    <3> QED
      BY <1>5, <2>2, <3>1, <3>2
  <2> QED
    BY <2>1, <2>2 DEF FoldsIn
<1>10. it[S] \in V /\ <<it[S], S>> \in R
  BY <1>4, <1>6, <1>9, FoldKeeps
<1> QED
  BY <1>1, <1>10 DEF it

\* What the loop keeps of V and R.
CreatesKeep(world, to, V, base, S, R) ==
    /\ base \in V /\ IsFiniteSet(S) /\ <<base, {}>> \in R
    /\ \A v \in V, e \in S : create_objective_markup(v, world, e, to) \in V
    /\ \A T \in SUBSET S, e \in S, v \in V :
          e \notin T /\ <<v, T>> \in R => <<create_objective_markup(v, world, e, to), T \cup {e}>> \in R

\* Objectives drawn one after the other.
LEMMA CreateAllFolds ==
    ASSUME NEW world, NEW to, NEW V, NEW base, NEW S, NEW R, CreatesKeep(world, to, V, base, S, R)
    PROVE  CreateAll(base, world, to, S) \in V /\ <<CreateAll(base, world, to, S), S>> \in R
<1> USE DEF CreatesKeep
<1> DEFINE Step(e, v) == CHOOSE r \in {create_objective_markup(x, world, e, to) : x \in {v}} : TRUE
           IsIt(it) == it = [T \in SUBSET S |->
                               IF T = {} THEN base ELSE Step(Pick(T), it[T \ {Pick(T)}])]
           choose == [T \in SUBSET S |-> Pick(T)]
           op == [p \in S \X V |-> create_objective_markup(p[2], world, p[1], to)]
<1>1. CreateAll(base, world, to, S) = (CHOOSE it : IsIt(it))[S]
  BY DEF CreateAll, Each, FoldSet, MapThenFoldSet, Pick
<1>2. \A v \in V, e \in S : Step(e, v) = create_objective_markup(v, world, e, to) /\ Step(e, v) \in V
  <2> TAKE v \in V, e \in S
  <2>1. {create_objective_markup(x, world, e, to) : x \in {v}} = {create_objective_markup(v, world, e, to)}
    OBVIOUS
  <2>2. Step(e, v) = create_objective_markup(v, world, e, to)
    BY <2>1
  <2> HIDE DEF Step
  <2> QED
    BY <2>2
<1>3. op \in [S \X V -> V] /\ \A x \in S, v \in V : op[<<x, v>>] = create_objective_markup(v, world, x, to)
  <2>1. \A x \in S, v \in V : create_objective_markup(v, world, x, to) \in V
    OBVIOUS
  <2>2. \A p \in S \X V : p[1] \in S /\ p[2] \in V
    OBVIOUS
  <2>3. \A p \in S \X V : create_objective_markup(p[2], world, p[1], to) \in V
    BY <2>1, <2>2
  <2>4. op \in [S \X V -> V]
    BY <2>3
  <2> QED
    BY <2>4
<1>4. Chooses(choose, S) /\ \A T \in SUBSET S : choose[T] = Pick(T)
  BY PickIsThere DEF Chooses
<1> HIDE DEF choose, op, Step
<1>5. \A x \in S, v \in V : op[<<x, v>>] = Step(x, v) /\ Step(x, v) \in V
  <2> TAKE x \in S, v \in V
  <2>1. op[<<x, v>>] = Step(x, v)
    BY <1>2, <1>3
  <2>2. op[<<x, v>>] \in V
    BY <1>3
  <2> QED
    BY <2>1, <2>2
<1>6. KeptBy(R, S, V, op)
  <2> SUFFICES ASSUME NEW T \in SUBSET S, NEW x \in S, NEW v \in V, x \notin T, <<v, T>> \in R
               PROVE  op[<<x, v>>] \in V /\ <<op[<<x, v>>], T \cup {x}>> \in R
    BY DEF KeptBy
  <2>1. op[<<x, v>>] = create_objective_markup(v, world, x, to) /\ op[<<x, v>>] \in V
    BY <1>3, <1>5
  <2>2. <<create_objective_markup(v, world, x, to), T \cup {x}>> \in R
    OBVIOUS
  <2> QED
    BY <2>1, <2>2
<1>7. \E it : IsIt(it)
  <2>1. PICK it \in [SUBSET S -> V] : IsFold(it, S, base, choose, op)
    BY <1>3, <1>4, FoldExists
  <2>2. it = [T \in SUBSET S |-> IF T = {} THEN base ELSE op[<<choose[T], it[T \ {choose[T]}]>>]]
    BY <2>1 DEF IsFold
  <2>3. ASSUME NEW T \in SUBSET S, T # {}
        PROVE  op[<<choose[T], it[T \ {choose[T]}]>>] = Step(Pick(T), it[T \ {Pick(T)}])
    <3>1. T \ {Pick(T)} \in SUBSET S /\ choose[T] = Pick(T) /\ Pick(T) \in S
      BY <1>4, <2>3 DEF Chooses
    <3>2. it[T \ {Pick(T)}] \in V
      BY <3>1
    <3> QED
      BY <1>5, <3>1, <3>2
  <2>4. it = [T \in SUBSET S |-> IF T = {} THEN base ELSE Step(Pick(T), it[T \ {Pick(T)}])]
    BY <2>2, <2>3
  <2> QED
    BY <2>4
<1> DEFINE it == CHOOSE it : IsIt(it)
<1>8. it = [T \in SUBSET S |-> IF T = {} THEN base ELSE Step(Pick(T), it[T \ {Pick(T)}])]
  BY <1>7
<1> HIDE DEF it
<1>9. FoldsIn(it, S, V, base, choose, op)
  <2>1. it[{}] = base
    BY <1>8
  <2>2. ASSUME NEW T \in SUBSET S, T # {}, it[T \ {choose[T]}] \in V
        PROVE  it[T] = op[<<choose[T], it[T \ {choose[T]}]>>]
    <3>1. choose[T] = Pick(T) /\ choose[T] \in S
      BY <1>4, <2>2 DEF Chooses
    <3>2. it[T] = Step(Pick(T), it[T \ {Pick(T)}])
      BY <1>8, <2>2
    <3> QED
      BY <1>5, <2>2, <3>1, <3>2
  <2> QED
    BY <2>1, <2>2 DEF FoldsIn
<1>10. it[S] \in V /\ <<it[S], S>> \in R
  BY <1>4, <1>6, <1>9, FoldKeeps
<1> QED
  BY <1>1, <1>10 DEF it

\* Objectives brought up to date one after the other.
LEMMA UpdateAllFolds ==
    ASSUME NEW world, NEW moved, NEW V, NEW base \in V, NEW S, IsFiniteSet(S),
           \A v \in V, e \in S : update_objective_markup(v, world, e, moved) \in V, NEW R, <<base, {}>> \in R,
           \A T \in SUBSET S, e \in S, v \in V :
              e \notin T /\ <<v, T>> \in R => <<update_objective_markup(v, world, e, moved), T \cup {e}>> \in R
    PROVE  UpdateAll(base, world, moved, S) \in V /\ <<UpdateAll(base, world, moved, S), S>> \in R
<1> DEFINE Step(e, v) == CHOOSE r \in {update_objective_markup(x, world, e, moved) : x \in {v}} : TRUE
           IsIt(it) == it = [T \in SUBSET S |->
                               IF T = {} THEN base ELSE Step(Pick(T), it[T \ {Pick(T)}])]
           choose == [T \in SUBSET S |-> Pick(T)]
           op == [p \in S \X V |-> update_objective_markup(p[2], world, p[1], moved)]
<1>1. UpdateAll(base, world, moved, S) = (CHOOSE it : IsIt(it))[S]
  BY DEF UpdateAll, Each, FoldSet, MapThenFoldSet, Pick
<1>2. \A v \in V, e \in S : Step(e, v) = update_objective_markup(v, world, e, moved) /\ Step(e, v) \in V
  <2> TAKE v \in V, e \in S
  <2>1. {update_objective_markup(x, world, e, moved) : x \in {v}} = {update_objective_markup(v, world, e, moved)}
    OBVIOUS
  <2>2. Step(e, v) = update_objective_markup(v, world, e, moved)
    BY <2>1
  <2> HIDE DEF Step
  <2> QED
    BY <2>2
<1>3. op \in [S \X V -> V] /\ \A x \in S, v \in V : op[<<x, v>>] = update_objective_markup(v, world, x, moved)
  <2>1. \A x \in S, v \in V : update_objective_markup(v, world, x, moved) \in V
    OBVIOUS
  <2>2. \A p \in S \X V : p[1] \in S /\ p[2] \in V
    OBVIOUS
  <2>3. \A p \in S \X V : update_objective_markup(p[2], world, p[1], moved) \in V
    BY <2>1, <2>2
  <2>4. op \in [S \X V -> V]
    BY <2>3
  <2> QED
    BY <2>4
<1>4. Chooses(choose, S) /\ \A T \in SUBSET S : choose[T] = Pick(T)
  BY PickIsThere DEF Chooses
<1> HIDE DEF choose, op, Step
<1>5. \A x \in S, v \in V : op[<<x, v>>] = Step(x, v) /\ Step(x, v) \in V
  <2> TAKE x \in S, v \in V
  <2>1. op[<<x, v>>] = Step(x, v)
    BY <1>2, <1>3
  <2>2. op[<<x, v>>] \in V
    BY <1>3
  <2> QED
    BY <2>1, <2>2
<1>6. KeptBy(R, S, V, op)
  <2> SUFFICES ASSUME NEW T \in SUBSET S, NEW x \in S, NEW v \in V, x \notin T, <<v, T>> \in R
               PROVE  op[<<x, v>>] \in V /\ <<op[<<x, v>>], T \cup {x}>> \in R
    BY DEF KeptBy
  <2>1. op[<<x, v>>] = update_objective_markup(v, world, x, moved) /\ op[<<x, v>>] \in V
    BY <1>3, <1>5
  <2>2. <<update_objective_markup(v, world, x, moved), T \cup {x}>> \in R
    OBVIOUS
  <2> QED
    BY <2>1, <2>2
<1>7. \E it : IsIt(it)
  <2>1. PICK it \in [SUBSET S -> V] : IsFold(it, S, base, choose, op)
    BY <1>3, <1>4, FoldExists
  <2>2. it = [T \in SUBSET S |-> IF T = {} THEN base ELSE op[<<choose[T], it[T \ {choose[T]}]>>]]
    BY <2>1 DEF IsFold
  <2>3. ASSUME NEW T \in SUBSET S, T # {}
        PROVE  op[<<choose[T], it[T \ {choose[T]}]>>] = Step(Pick(T), it[T \ {Pick(T)}])
    <3>1. T \ {Pick(T)} \in SUBSET S /\ choose[T] = Pick(T) /\ Pick(T) \in S
      BY <1>4, <2>3 DEF Chooses
    <3>2. it[T \ {Pick(T)}] \in V
      BY <3>1
    <3> QED
      BY <1>5, <3>1, <3>2
  <2>4. it = [T \in SUBSET S |-> IF T = {} THEN base ELSE Step(Pick(T), it[T \ {Pick(T)}])]
    BY <2>2, <2>3
  <2> QED
    BY <2>4
<1> DEFINE it == CHOOSE it : IsIt(it)
<1>8. it = [T \in SUBSET S |-> IF T = {} THEN base ELSE Step(Pick(T), it[T \ {Pick(T)}])]
  BY <1>7
<1> HIDE DEF it
<1>9. FoldsIn(it, S, V, base, choose, op)
  <2>1. it[{}] = base
    BY <1>8
  <2>2. ASSUME NEW T \in SUBSET S, T # {}, it[T \ {choose[T]}] \in V
        PROVE  it[T] = op[<<choose[T], it[T \ {choose[T]}]>>]
    <3>1. choose[T] = Pick(T) /\ choose[T] \in S
      BY <1>4, <2>2 DEF Chooses
    <3>2. it[T] = Step(Pick(T), it[T \ {Pick(T)}])
      BY <1>8, <2>2
    <3> QED
      BY <1>5, <2>2, <3>1, <3>2
  <2> QED
    BY <2>1, <2>2 DEF FoldsIn
<1>10. it[S] \in V /\ <<it[S], S>> \in R
  BY <1>4, <1>6, <1>9, FoldKeeps
<1> QED
  BY <1>1, <1>10 DEF it

\* What the loops leave of the tables.
AllUnpinned(v, w) ==
    /\ v.table = w.table /\ v.dst = w.dst
    /\ \A h \in Groups : v.pin[h] = NoMark \/ v.pin[h] = w.pin[h]

\* The map agrees with the tables when the pins of some groups were deleted ...
LEMMA UnpinnedGood ==
    ASSUME NEW w, NEW d, NEW pos, NEW back \in SUBSET Raids, Good(w, d, pos, back),
           NEW S \in SUBSET Groups, IsFiniteSet(S)
    PROVE  Good(Unpinned(w, S), d, pos, back) /\ AllUnpinned(Unpinned(w, S), w)
<1> DEFINE V == {v \in Works : Good(v, d, pos, back) /\ AllUnpinned(v, w)}
           R == V \X SUBSET S
<1>1. w \in V /\ <<w, {}>> \in R
  BY DEF AllUnpinned, Good
<1>2. ASSUME NEW v \in V, NEW e \in S
      PROVE  Unpin(v, e) \in V
  <2>1. Good(Unpin(v, e), d, pos, back)
    BY UnpinGood
  <2>2. IsUnpinned(Unpin(v, e), v, e)
    BY UnpinIs
  <2>3. AllUnpinned(Unpin(v, e), w)
    BY <2>2 DEF IsUnpinned, AllUnpinned
  <2> QED
    BY <2>1, <2>3 DEF Good
<1>3. \A v \in V, e \in S : Unpin(v, e) \in V
  BY <1>2
<1>4. \A T \in SUBSET S, e \in S, v \in V :
         e \notin T /\ <<v, T>> \in R => <<Unpin(v, e), T \cup {e}>> \in R
  BY <1>3
<1> HIDE DEF V, R
<1>5. Unpinned(w, S) \in V
  BY <1>1, <1>3, <1>4, UnpinnedFolds
<1> QED
  BY <1>5 DEF V

AllPinned(v, w, S) ==
    /\ v.table = w.table
    /\ \A h \in Groups \ S : v.pin[h] = w.pin[h]
    /\ \A h \in Raids \ S : v.dst[h] = w.dst[h]

\* ... when some groups were marked: no raid among them is without a destination ...
LEMMA PinnedGood ==
    ASSUME NEW w, NEW d, NEW pos, NEW back \in SUBSET Raids, Good(w, d, pos, back), NEW world,
           NEW S \in SUBSET Groups, IsFiniteSet(S), \A g \in S : pos[g] \in Nat, S \cap back = {}
    PROVE  /\ Good(Pinned(w, world, pos, S), d, pos, back)
           /\ AllPinned(Pinned(w, world, pos, S), w, S)
           /\ \A g \in S : g \in Raids => Pinned(w, world, pos, S).dst[g] # NoMark
<1> DEFINE V == {v \in Works : Good(v, d, pos, back) /\ AllPinned(v, w, S)}
           R == {p \in V \X SUBSET S : \A g \in p[2] : g \in Raids => p[1].dst[g] # NoMark}
<1>1. w \in V /\ <<w, {}>> \in R
  BY DEF AllPinned, Good
<1>2. ASSUME NEW v \in V, NEW e \in S
      PROVE  mark_group(v, e, world, pos[e]) \in V /\ IsMarked(mark_group(v, e, world, pos[e]), v, e)
  <2> DEFINE u == mark_group(v, e, world, pos[e])
  <2>1. e \in Groups /\ pos[e] \in Nat /\ v \in Works
    OBVIOUS
  <2>2. IsMarked(u, v, e)
    BY <2>1, MarkGroupGood
  <2>3. Good(v, d, pos, back) /\ Elsewhere(v, pos, pos, e) /\ e \notin back
    BY DEF Elsewhere
  <2>4. Good(u, d, pos, back)
    BY <2>1, <2>3, MarkGroupGood
  <2> HIDE DEF u
  <2>5. AllPinned(u, w, S)
    <3>1. AllPinned(v, w, S)
      OBVIOUS
    <3> QED
      BY <2>2, <3>1 DEF IsMarked, AllPinned
  <2>6. u \in V
    BY <2>4, <2>5 DEF Good
  <2> QED
    BY <2>2, <2>6 DEF u
<1>3. \A v \in V, e \in S : mark_group(v, e, world, pos[e]) \in V
  BY <1>2
<1>4. ASSUME NEW T \in SUBSET S, NEW e \in S, NEW v \in V, e \notin T, <<v, T>> \in R
      PROVE  <<mark_group(v, e, world, pos[e]), T \cup {e}>> \in R
  <2> DEFINE u == mark_group(v, e, world, pos[e])
  <2>1. u \in V /\ IsMarked(u, v, e)
    BY <1>2
  <2>2. \A g \in T : g \in Raids => v.dst[g] # NoMark
    BY <1>4
  <2> HIDE DEF u, V
  <2>3. \A g \in T \cup {e} : g \in Raids => u.dst[g] # NoMark
    BY <1>4, <2>1, <2>2 DEF IsMarked
  <2> QED
    BY <1>4, <2>1, <2>3 DEF u
<1>5. \A T \in SUBSET S, e \in S, v \in V :
         e \notin T /\ <<v, T>> \in R => <<mark_group(v, e, world, pos[e]), T \cup {e}>> \in R
  BY <1>4
<1> HIDE DEF V, R
<1>6. PinsKeep(world, pos, V, w, S, R)
  BY <1>1, <1>3, <1>5 DEF PinsKeep
<1>7. Pinned(w, world, pos, S) \in V /\ <<Pinned(w, world, pos, S), S>> \in R
  BY <1>6, PinnedFolds
<1> QED
  BY <1>7 DEF V, R

AllCreated(v, w) == v.pin = w.pin /\ v.dst = w.dst

\* ... when objectives were drawn: the hub with its arrows ...
LEMMA CreateAllGood ==
    ASSUME NEW w, NEW d, NEW pos, NEW back \in SUBSET Raids, Good(w, d, pos, back),
           NEW world \in Worlds, NEW to \in SUBSET Farps, NEW S \in SUBSET Objectives, IsFiniteSet(S)
    PROVE  /\ Good(CreateAll(w, world, to, S), d, pos, back)
           /\ AllCreated(CreateAll(w, world, to, S), w)
           /\ Hub \in S => /\ CreateAll(w, world, to, S).table[Hub] \in Markups
                           /\ DOMAIN CreateAll(w, world, to, S).table[Hub].arrows = to
<1> DEFINE V == {v \in Works : Good(v, d, pos, back) /\ AllCreated(v, w)}
           R == {p \in V \X SUBSET S : Hub \in p[2] => /\ p[1].table[Hub] \in Markups
                                                       /\ DOMAIN p[1].table[Hub].arrows = to}
<1>1. w \in V /\ <<w, {}>> \in R
  BY DEF AllCreated, Good
<1>2. ASSUME NEW v \in V, NEW e \in S
      PROVE  /\ create_objective_markup(v, world, e, to) \in V
             /\ IsCreated(create_objective_markup(v, world, e, to), v, e, Supplied(e, to))
  <2> DEFINE u == create_objective_markup(v, world, e, to)
  <2>1. e \in Objectives /\ v \in Works /\ Good(v, d, pos, back) /\ AllCreated(v, w)
    OBVIOUS
  <2>2. IsCreated(u, v, e, Supplied(e, to))
    BY <2>1, CreateIs
  <2>3. Good(u, d, pos, back)
    BY <2>1, CreateGood
  <2> HIDE DEF u
  <2>4. AllCreated(u, w)
    BY <2>1, <2>2 DEF IsCreated, AllCreated
  <2>5. u \in V
    BY <2>3, <2>4 DEF Good
  <2> QED
    BY <2>2, <2>5 DEF u
<1>3. \A v \in V, e \in S : create_objective_markup(v, world, e, to) \in V
  BY <1>2
<1>4. ASSUME NEW T \in SUBSET S, NEW e \in S, NEW v \in V, e \notin T, <<v, T>> \in R
      PROVE  <<create_objective_markup(v, world, e, to), T \cup {e}>> \in R
  <2> DEFINE u == create_objective_markup(v, world, e, to)
  <2>1. u \in V /\ IsCreated(u, v, e, Supplied(e, to))
    BY <1>2
  <2>2. Hub \in T => v.table[Hub] \in Markups /\ DOMAIN v.table[Hub].arrows = to
    BY <1>4
  <2> HIDE DEF u, V
  <2>3. Hub \in T \cup {e} => u.table[Hub] \in Markups /\ DOMAIN u.table[Hub].arrows = to
    <3>1. CASE e = Hub
      BY <2>1, <3>1 DEF IsCreated, Supplied
    <3>2. CASE e # Hub
      <4>1. u.table[Hub] = v.table[Hub]
        BY <2>1, <3>2 DEF IsCreated, Objectives
      <4> QED
        BY <2>2, <3>2, <4>1
    <3> QED
      BY <3>1, <3>2
  <2>4. <<u, T \cup {e}>> \in R
    BY <2>1, <2>3
  <2> QED
    BY <2>4 DEF u
<1>5. \A T \in SUBSET S, e \in S, v \in V :
         e \notin T /\ <<v, T>> \in R => <<create_objective_markup(v, world, e, to), T \cup {e}>> \in R
  BY <1>4
<1> HIDE DEF V, R
<1>6. CreatesKeep(world, to, V, w, S, R)
  BY <1>1, <1>3, <1>5 DEF CreatesKeep
<1>7. CreateAll(w, world, to, S) \in V /\ <<CreateAll(w, world, to, S), S>> \in R
  BY <1>6, CreateAllFolds
<1> QED
  BY <1>7 DEF V, R

AllUpdated(v, w) ==
    /\ v.pin = w.pin /\ v.dst = w.dst /\ v.table[Hub] # NoMarkup
    /\ DOMAIN v.table[Hub].arrows = DOMAIN w.table[Hub].arrows

\* ... and when objectives were brought up to date.
LEMMA UpdateAllGood ==
    ASSUME NEW w, NEW d, NEW pos, NEW back \in SUBSET Raids, Good(w, d, pos, back),
           NEW world \in Worlds, NEW moved, NEW S \in SUBSET Objectives, IsFiniteSet(S),
           destination \in SUBSET Farps, w.table[Hub] # NoMarkup
    PROVE  /\ Good(UpdateAll(w, world, moved, S), d, pos, back)
           /\ AllUpdated(UpdateAll(w, world, moved, S), w)
<1> DEFINE V == {v \in Works : Good(v, d, pos, back) /\ AllUpdated(v, w)}
           R == V \X SUBSET S
<1>1. w \in V /\ <<w, {}>> \in R
  BY DEF AllUpdated, Good
<1>2. ASSUME NEW v \in V, NEW e \in S
      PROVE  update_objective_markup(v, world, e, moved) \in V
  <2> DEFINE u == update_objective_markup(v, world, e, moved)
  <2>1. e \in Objectives /\ v \in Works /\ Good(v, d, pos, back) /\ AllUpdated(v, w)
    OBVIOUS
  <2>2. CASE v.table[e] = NoMarkup
    <3>1. u = create_objective_markup(v, world, e, destination)
      BY <2>2 DEF update_objective_markup
    <3>2. IsCreated(create_objective_markup(v, world, e, destination), v, e, Supplied(e, destination))
      BY <2>1, CreateIs
    <3>3. Good(create_objective_markup(v, world, e, destination), d, pos, back)
      BY <2>1, CreateGood
    <3>4. e # Hub
      BY <2>1, <2>2 DEF AllUpdated
    <3> HIDE DEF u, V
    <3>5. u.pin = v.pin /\ u.dst = v.dst /\ u.table[Hub] = v.table[Hub]
      BY <3>1, <3>2, <3>4 DEF IsCreated, Objectives
    <3>6. AllUpdated(u, w)
      BY <2>1, <3>5 DEF AllUpdated
    <3>7. Good(u, d, pos, back)
      BY <3>1, <3>3
    <3> QED
      BY <3>6, <3>7 DEF Good, V, u
  <2>3. CASE v.table[e] # NoMarkup
    <3>1. u = update(v, world, e, moved)
      BY <2>3 DEF update_objective_markup
    <3>2. IsUpdated(u, v, e) /\ Good(u, d, pos, back)
      BY <2>1, <2>3, <3>1, UpdateGood
    <3> HIDE DEF u, V
    <3>3. u.pin = v.pin /\ u.dst = v.dst
      BY <3>2 DEF IsUpdated
    <3>4. u.table[Hub] # NoMarkup /\ DOMAIN u.table[Hub].arrows = DOMAIN v.table[Hub].arrows
      <4>1. CASE e = Hub
        <5>1. u.table[Hub] \in Markups /\ u.table[Hub].arrows = v.table[Hub].arrows
          BY <3>2, <4>1 DEF IsUpdated, SameMarks
        <5>2. u.table[Hub] # NoMarkup
          BY <5>1, MarkupIs
        <5> QED
          BY <5>1, <5>2
      <4>2. CASE e # Hub
        <5>1. u.table[Hub] = v.table[Hub]
          BY <3>2, <4>2 DEF IsUpdated, Objectives
        <5> QED
          BY <2>1, <5>1 DEF AllUpdated
      <4> QED
        BY <4>1, <4>2
    <3>5. AllUpdated(u, w)
      BY <2>1, <3>3, <3>4 DEF AllUpdated
    <3> QED
      BY <3>2, <3>5 DEF Good, V, u
  <2> QED
    BY <2>2, <2>3
<1>3. \A v \in V, e \in S : update_objective_markup(v, world, e, moved) \in V
  BY <1>2
<1> HIDE DEF V
<1>4. \A T \in SUBSET S, e \in S, v \in V :
         e \notin T /\ <<v, T>> \in R => <<update_objective_markup(v, world, e, moved), T \cup {e}>> \in R
  BY <1>3
<1> HIDE DEF R
<1>5. UpdateAll(w, world, moved, S) \in V
  BY <1>1, <1>3, <1>4, UpdateAllFolds
<1> QED
  BY <1>5 DEF V

-----------------------------------------------------------------------------
(* The invariant. *)

\* The hub has a side, and supplies the FARPs of that side.
WorldRight(world, to) ==
    /\ world \in Worlds /\ world[Hub].owner \in Sides
    /\ to = OfSide(world, world[Hub].owner)

\* Groups are somewhere, and raids that were told to return are there.
GroupsRight(pos, back) ==
    /\ DOMAIN pos \subseteq Groups /\ \A g \in DOMAIN pos : pos[g] \in {0, 1}
    /\ back \subseteq Raids \cap DOMAIN pos

\* Only groups that are there have pins, every raid has one at its destination, and the hub is
\* drawn with an arrow to each FARP it supplies.
TablesRight(w, pos, to) ==
    /\ \A g \in Groups : w.pin[g] # NoMark => g \in DOMAIN pos
    /\ \A g \in Raids : g \in DOMAIN pos <=> w.dst[g] # NoMark
    /\ w.table[Hub] # NoMarkup /\ DOMAIN w.table[Hub].arrows = to

\* The inductive invariant: the tables agree with the map as it will be.
MapInv ==
    /\ WorldRight(obj, destination) /\ GroupsRight(at, rtb)
    /\ Good(Work, dcs, at, rtb) /\ dcs.lost = {}
    /\ Loaded => TablesRight(Work, at, destination)
    /\ ~Loaded => msgs = EmptyMsgs /\ rtb = {} /\ DOMAIN at = Groups

\* Tables without marks agree with an empty map.
LEMMA NothingGood ==
    ASSUME NEW w, w = [q |-> EmptyMsgs, table |-> [o \in Objectives |-> NoMarkup],
                       pin |-> [g \in Groups |-> NoMark], dst |-> [g \in Raids |-> NoMark], n |-> 1],
           NEW pos
    PROVE  Good(w, NothingShown, pos, {})
<1>1. EmptyMsgs \in Queues /\ \A p \in 1..3 : EmptyMsgs[p] = <<>>
  BY DEF EmptyMsgs, Queues
<1>2. NothingShown \in Maps /\ DOMAIN NothingShown.shown = {} /\ NothingShown.lost = {}
  <2>1. <<>> \in [{} -> Looks]
    OBVIOUS
  <2>2. <<>> \in Seen /\ DOMAIN <<>> = {}
    BY <2>1 DEF Seen
  <2> QED
    BY <2>2 DEF NothingShown, Maps
<1>3. w \in Works
  BY <1>1 DEF Works, NoMark
<1>4. \A s \in Slots : MK(w)[s] = NoMark
  <2> TAKE s \in Slots
  <2>1. CASE \E g \in Groups : s = PinSlot(g)
    BY <2>1, MarksOfGroups
  <2>2. CASE \E g \in Raids : s = DstSlot(g)
    BY <2>2, MarksOfGroups
  <2>3. CASE \E o \in Objectives : s \in MarkupSlots(o)
    <3>1. PICK o \in Objectives : s \in MarkupSlots(o)
      BY <2>3
    <3>2. MK(w)[s] = MarkupMark(w.table[o], s)
      BY <3>1, MarksOfGroups
    <3>3. w.table[o] = NoMarkup
      OBVIOUS
    <3> QED
      BY <3>2, <3>3, MarksOfMarkup
  <2> QED
    BY <2>1, <2>2, <2>3, SlotsAre
<1>5. Named(w) = {}
  BY DEF Named
<1>6. Live(w, {}) = {}
  BY <1>4 DEF Live
<1>7. Final(EmptyMsgs, NothingShown) = NothingShown
  <2>1. Waiting(EmptyMsgs) = <<>>
    BY <1>1 DEF Waiting
  <2> QED
    BY <1>2, <2>1, CarriedOfNone DEF Final
<1>8. Queued(EmptyMsgs, NothingShown, {})
  BY <1>1, <1>2 DEF Queued
<1>9. Agrees(EmptyMsgs, NothingShown, {}, MK(w), LK(w, pos), {})
  BY <1>2, <1>4, <1>7, <1>8 DEF Agrees
<1>10. w.q = EmptyMsgs
  OBVIOUS
<1> QED
  BY <1>3, <1>4, <1>5, <1>6, <1>9, <1>10 DEF Good

\* Other queues that are to lead to the same map.
LEMMA RequeuedGood ==
    ASSUME NEW w, NEW d, NEW pos, NEW back \in SUBSET Raids, Good(w, d, pos, back),
           NEW q, NEW e, Agrees(q, e, Named(w), MK(w), LK(w, pos), Live(w, back)),
           NEW v, v = [w EXCEPT !.q = q]
    PROVE  Good(v, e, pos, back)
<1>1. w \in Works /\ v \in Works /\ v.q = q /\ v.n = w.n
      /\ v.table = w.table /\ v.pin = w.pin /\ v.dst = w.dst
  <2>1. q \in Queues
    BY DEF Agrees, Queued
  <2> QED
    BY <2>1 DEF Good, Works
<1>2. MK(v) = MK(w) /\ LK(v, pos) = LK(w, pos) /\ Named(v) = Named(w) /\ Live(v, back) = Live(w, back)
  <2>1. v.table = w.table /\ v.pin = w.pin /\ v.dst = w.dst /\ v.n = w.n
    BY <1>1
  <2>2. MK(v) = MK(w)
    BY ONLY <2>1 DEF MK
  <2>3. LK(v, pos) = LK(w, pos)
    BY ONLY <2>1 DEF LK
  <2>4. Live(v, back) = Live(w, back)
    BY ONLY <2>2 DEF Live
  <2>5. Named(v) = Named(w)
    BY ONLY <2>1 DEF Named
  <2> QED
    BY <2>2, <2>3, <2>4, <2>5
<1>3. \A s \in Slots : MK(w)[s] # NoMark => MK(w)[s] \in Named(w)
  BY DEF Good
<1> QED
  BY <1>1, <1>2, <1>3 DEF Good

\* When all has been sent nothing waits, and the map is as it was to be.
LEMMA SentGood ==
    ASSUME NEW w, NEW d, NEW pos, NEW back \in SUBSET Raids, Good(w, d, pos, back),
           NEW v, v = [w EXCEPT !.q = EmptyMsgs]
    PROVE  Good(v, Final(w.q, d), pos, back)
<1> DEFINE U == Named(w)
           e == Final(w.q, d)
<1>1. Agrees(w.q, d, U, MK(w), LK(w, pos), Live(w, back))
  BY DEF Good
<1>2. EmptyMsgs \in Queues /\ \A p \in 1..3 : EmptyMsgs[p] = <<>>
  BY DEF EmptyMsgs, Queues
<1>3. U \subseteq Nat /\ e \in Maps /\ DOMAIN e.shown \subseteq U
  BY <1>1, FinalIsNamed DEF Agrees, Queued
<1>4. Final(EmptyMsgs, e) = e
  <2>1. Waiting(EmptyMsgs) = <<>>
    BY <1>2 DEF Waiting
  <2> QED
    BY <1>3, <2>1, CarriedOfNone DEF Final
<1>5. Queued(EmptyMsgs, e, U)
  <2> HIDE DEF U, e
  <2> QED
    BY <1>2, <1>3 DEF Queued
<1>6. Agrees(EmptyMsgs, e, U, MK(w), LK(w, pos), Live(w, back))
  BY <1>1, <1>4, <1>5 DEF Agrees
<1> HIDE DEF e
<1> QED
  BY <1>6, RequeuedGood DEF e

\* Initially.
LEMMA MapInitially == Init => MapInv
<1> SUFFICES ASSUME Init
             PROVE  MapInv
  OBVIOUS
<1>1. WorldRight(obj, destination)
  <2>1. obj \in [Objectives -> [owner : Sides, logi : 0..2, at : {0}]] /\ Hub \in Objectives
    BY DEF Init, Objectives
  <2>2. obj \in Worlds /\ obj[Hub].owner \in Sides
    BY <2>1 DEF Worlds
  <2> QED
    BY <2>2 DEF Init, WorldRight, OfSide
<1>2. GroupsRight(at, rtb)
  BY DEF Init, GroupsRight
<1>3. Good(Work, dcs, at, rtb)
  <2> DEFINE w == Work
  <2>1. w = [q |-> EmptyMsgs, table |-> [o \in Objectives |-> NoMarkup],
             pin |-> [g \in Groups |-> NoMark], dst |-> [g \in Raids |-> NoMark], n |-> 1]
    BY DEF Init, Work
  <2>2. dcs = NothingShown /\ rtb = {}
    BY DEF Init
  <2> HIDE DEF w
  <2>3. Good(w, NothingShown, at, {})
    BY ONLY <2>1, NothingGood
  <2> QED
    BY <2>2, <2>3 DEF w
<1>4. dcs.lost = {} /\ ~Loaded
  BY DEF Init, NothingShown, Loaded, Objectives
<1> QED
  BY <1>1, <1>2, <1>3, <1>4 DEF MapInv, Init

\* What a handler does is what becomes of the tables.
LEMMA Finished ==
    ASSUME NEW w \in Works, Finish(w)
    PROVE  Work' = w /\ dcs' = dcs
<1>1. msgs' = w.q /\ markup' = w.table /\ next' = w.n /\ group_marks' = w.pin /\ marks' = w.dst
  BY DEF Finish
<1>2. w = [q |-> w.q, table |-> w.table, pin |-> w.pin, dst |-> w.dst, n |-> w.n]
  BY DEF Works
<1> QED
  BY <1>1, <1>2 DEF Work, Finish

\* A handler whose tables agree with the map as it will be keeps the invariant.
LEMMA Handled ==
    ASSUME MapInv, NEW w, Finish(w), Good(w, dcs, at', rtb'), TablesRight(w, at', destination'),
           WorldRight(obj', destination'), GroupsRight(at', rtb')
    PROVE  MapInv'
<1>1. w \in Works
  BY DEF Good
<1>2. Work' = w /\ dcs' = dcs
  BY <1>1, Finished
<1>3. markup' = w.table
  BY DEF Finish
<1>4. Loaded'
  BY <1>3 DEF Loaded, TablesRight
<1>5. Good(Work', dcs', at', rtb') /\ TablesRight(Work', at', destination')
  BY <1>2
<1>6. dcs'.lost = {}
  BY <1>2 DEF MapInv
<1> QED
  BY <1>4, <1>5, <1>6 DEF MapInv

-----------------------------------------------------------------------------
(* Each handler keeps the invariant. *)

\* There are finitely many groups and objectives.
LEMMA GroupsAreFinite ==
    /\ \A S \in SUBSET Groups : IsFiniteSet(S)
    /\ \A S \in SUBSET Objectives : IsFiniteSet(S)
<1>1. IsFiniteSet(Groups)
  <2>1. IsFiniteSet(Garrison \cup Troops)
    BY MapAssumption, FS_Union
  <2> QED
    BY <2>1, MapAssumption, FS_Union DEF Groups
<1>2. IsFiniteSet(Objectives)
  <2>1. IsFiniteSet({Hub})
    BY FS_Singleton
  <2> QED
    BY <2>1, MapAssumption, FS_Union DEF Objectives
<1> QED
  BY <1>1, <1>2, FS_Subset

\* What the war does to the world: an objective has other logistics ...
LEMMA WorldRepaired ==
    ASSUME NEW world, NEW to, WorldRight(world, to), NEW o \in Objectives, NEW l \in 0..2
    PROVE  WorldRight([world EXCEPT ![o].logi = l], to)
<1> DEFINE new == [world EXCEPT ![o].logi = l]
<1>1. new \in Worlds /\ \A h \in Objectives : new[h].owner = world[h].owner
  BY DEF WorldRight, Worlds
<1>2. Hub \in Objectives /\ Farps \subseteq Objectives
  BY DEF Objectives
<1> HIDE DEF new
<1>3. WorldRight(new, to)
  BY <1>1, <1>2 DEF WorldRight, OfSide
<1> QED
  BY <1>3 DEF new

\* ... or is elsewhere ...
LEMMA WorldMoved ==
    ASSUME NEW world, NEW to, WorldRight(world, to), NEW moved,
           NEW new, new = [o \in Objectives |-> IF o \in moved THEN [world[o] EXCEPT !.at = 1 - @] ELSE world[o]]
    PROVE  WorldRight(new, to)
<1>1. ASSUME NEW h \in Objectives
      PROVE  /\ new[h] \in [owner : Sides \cup {Nobody}, logi : 0..2, at : {0, 1}]
             /\ new[h].owner = world[h].owner
  <2>1. world[h] \in [owner : Sides \cup {Nobody}, logi : 0..2, at : {0, 1}]
    BY DEF WorldRight, Worlds
  <2>2. 1 - world[h].at \in {0, 1}
    BY <2>1
  <2> QED
    BY <2>1, <2>2
<1>2. new \in Worlds
  <2>1. new = [o \in Objectives |-> new[o]]
    OBVIOUS
  <2> QED
    BY <1>1, <2>1 DEF Worlds
<1>3. Hub \in Objectives /\ Farps \subseteq Objectives
  BY DEF Objectives
<1>4. \A h \in Objectives : new[h].owner = world[h].owner
  BY <1>1
<1> QED
  BY ONLY WorldRight(world, to), <1>2, <1>3, <1>4 DEF WorldRight, OfSide

\* ... the hub has other owners ...
LEMMA WorldTaken ==
    ASSUME NEW world, NEW to, WorldRight(world, to), NEW s \in Sides,
           NEW new, new = [world EXCEPT ![Hub].owner = s, ![Hub].logi = 1]
    PROVE  WorldRight(new, OfSide(new, s)) /\ new[Hub].owner = s
<1>1. Hub \in Objectives
  BY DEF Objectives
<1>2. new \in Worlds /\ new[Hub].owner = s
  <2>1. world \in Worlds /\ DOMAIN new = Objectives
    BY DEF WorldRight, Worlds
  <2>2. new[Hub] \in [owner : Sides \cup {Nobody}, logi : 0..2, at : {0, 1}] /\ new[Hub].owner = s
    <3>1. world[Hub] \in [owner : Sides \cup {Nobody}, logi : 0..2, at : {0, 1}]
      BY <1>1, <2>1 DEF Worlds
    <3>2. new[Hub] = [[world[Hub] EXCEPT !.owner = s] EXCEPT !.logi = 1]
      BY <1>1, <2>1 DEF Worlds
    <3> DEFINE h == [world[Hub] EXCEPT !.owner = s]
    <3>3. h \in [owner : Sides \cup {Nobody}, logi : 0..2, at : {0, 1}] /\ h.owner = s
      BY ONLY <3>1, s \in Sides
    <3>4. new[Hub] = [h EXCEPT !.logi = 1]
      BY <3>2
    <3> HIDE DEF h
    <3> QED
      BY ONLY <3>3, <3>4
  <2>3. \A h \in Objectives \ {Hub} : new[h] = world[h]
    BY <2>1 DEF Worlds
  <2>4. new = [h \in Objectives |-> new[h]]
    BY <2>1
  <2> QED
    BY <2>1, <2>2, <2>3, <2>4 DEF Worlds
<1> QED
  BY <1>2 DEF WorldRight

\* ... there is one FARP more ...
LEMMA WorldMore ==
    ASSUME NEW world, NEW to, WorldRight(world, to), NEW f \in Farps, NEW s \in Sides,
           NEW new, new = [world EXCEPT ![f] = [owner |-> s, logi |-> 1, at |-> 0]]
    PROVE  WorldRight(new, OfSide(new, world[Hub].owner))
<1>1. Hub \in Objectives /\ f \in Objectives /\ f # Hub
  BY MapAssumption DEF Objectives
<1>2. new \in Worlds /\ new[Hub] = world[Hub]
  BY <1>1 DEF WorldRight, Worlds
<1> QED
  BY <1>2 DEF WorldRight

\* ... or one less.
LEMMA WorldLess ==
    ASSUME NEW world, NEW to, WorldRight(world, to), NEW f \in Farps,
           NEW new, new = [world EXCEPT ![f] = Gone]
    PROVE  WorldRight(new, to \ {f})
<1>1. Hub \in Objectives /\ Farps \subseteq Objectives /\ f \in Objectives /\ f # Hub
  BY MapAssumption DEF Objectives
<1>2. new \in Worlds /\ new[f].owner = Nobody /\ \A h \in Objectives \ {f} : new[h] = world[h]
  BY <1>1 DEF WorldRight, Worlds, Gone
<1>3. new[Hub].owner = world[Hub].owner /\ world[Hub].owner # Nobody
  BY <1>1, <1>2, MapAssumption DEF WorldRight
<1>4. OfSide(new, new[Hub].owner) = to \ {f}
  BY <1>1, <1>2, <1>3 DEF OfSide, WorldRight
<1> QED
  BY <1>2, <1>3, <1>4 DEF WorldRight

\* What the hub supplies are FARPs.
LEMMA ToFarps ==
    ASSUME NEW world, NEW to, WorldRight(world, to)
    PROVE  to \in SUBSET Farps
  BY DEF WorldRight, OfSide

\* Drawing the supply lines.
IsSupplied(v, w, to) ==
    /\ v \in Works /\ v.pin = w.pin /\ v.dst = w.dst
    /\ v.table[Hub] # NoMarkup /\ DOMAIN v.table[Hub].arrows = to

\* The hub drawn has the arrows it was drawn with ...
LEMMA HubCreated ==
    ASSUME NEW w \in Works, NEW world \in Worlds, NEW to \in SUBSET Farps
    PROVE  IsSupplied(create_objective_markup(w, world, Hub, to), w, to)
<1>1. Hub \in Objectives /\ Supplied(Hub, to) = to
  BY DEF Objectives, Supplied
<1>2. IsCreated(create_objective_markup(w, world, Hub, to), w, Hub, to)
  BY <1>1, CreateIs
<1> QED
  BY <1>2, MarkupIs DEF IsCreated, IsSupplied

\* ... and keeps them when another objective is drawn.
LEMMA OtherCreated ==
    ASSUME NEW w \in Works, NEW world \in Worlds, NEW to \in SUBSET Farps, NEW o \in Objectives, o # Hub,
           NEW lines, w.table[Hub] # NoMarkup, DOMAIN w.table[Hub].arrows = lines
    PROVE  IsSupplied(create_objective_markup(w, world, o, to), w, lines)
<1>1. IsCreated(create_objective_markup(w, world, o, to), w, o, Supplied(o, to))
  BY CreateIs
<1>2. Hub \in Objectives \ {o}
  BY DEF Objectives
<1> QED
  BY <1>1, <1>2 DEF IsCreated, IsSupplied

\* Drawing the supply lines, or leaving them, gives the hub the arrows it is to have.
LEMMA SupplyLinesGood ==
    ASSUME NEW w, NEW d, NEW pos, NEW back \in SUBSET Raids, Good(w, d, pos, back),
           NEW world \in Worlds, NEW to \in SUBSET Farps,
           w.table[Hub] # NoMarkup, DOMAIN w.table[Hub].arrows = destination
    PROVE  /\ Good(SupplyLines(w, world, to), d, pos, back)
           /\ IsSupplied(SupplyLines(w, world, to), w, to)
<1>1. w \in Works /\ Hub \in Objectives
  BY DEF Good, Objectives
<1>2. CASE to = destination
  BY <1>1, <1>2 DEF SupplyLines, IsSupplied
<1>3. CASE to # destination
  BY <1>1, <1>3, CreateGood, HubCreated DEF SupplyLines
<1> QED
  BY <1>2, <1>3

\* The parts of the tables.
LEMMA WorkIs ==
    /\ Work.q = msgs /\ Work.table = markup /\ Work.pin = group_marks
    /\ Work.dst = marks /\ Work.n = next
  BY DEF Work

\* respawn_after_load marks the groups, draws the objectives and sends all of it.
LEMMA LoadKeeps ==
    ASSUME MapInv, Load
    PROVE  MapInv'
<1> DEFINE p == Pinned(Work, obj, at, DOMAIN at)
           w == CreateAll(p, obj, destination, Objectives)
<1>1. /\ Good(Work, dcs, at, rtb) /\ WorldRight(obj, destination) /\ GroupsRight(at, rtb)
      /\ rtb = {} /\ DOMAIN at = Groups /\ msgs = EmptyMsgs
  BY DEF MapInv, Load
<1>2. /\ dcs' = Carried(dcs, Waiting(w.q))
      /\ markup' = w.table /\ next' = w.n /\ group_marks' = w.pin /\ marks' = w.dst
      /\ UNCHANGED <<obj, destination, at, rtb, msgs>>
  BY DEF Load
<1>3. /\ Good(p, dcs, at, rtb) /\ AllPinned(p, Work, DOMAIN at)
      /\ \A g \in Raids : p.dst[g] # NoMark
  <2>1. DOMAIN at \in SUBSET Groups /\ IsFiniteSet(DOMAIN at) /\ DOMAIN at \cap rtb = {}
    BY <1>1, GroupsAreFinite
  <2>2. \A g \in DOMAIN at : at[g] \in Nat
    BY <1>1 DEF GroupsRight
  <2>3. rtb \in SUBSET Raids /\ \A g \in Raids : g \in DOMAIN at
    BY <1>1 DEF Groups
  <2>4. /\ Good(p, dcs, at, rtb) /\ AllPinned(p, Work, DOMAIN at)
        /\ \A g \in DOMAIN at : g \in Raids => p.dst[g] # NoMark
    BY <1>1, <2>1, <2>2, <2>3, PinnedGood
  <2> QED
    BY <2>3, <2>4
<1> HIDE DEF p
<1>4. /\ Good(w, dcs, at, rtb) /\ AllCreated(w, p)
      /\ w.table[Hub] \in Markups /\ DOMAIN w.table[Hub].arrows = destination
  <2>1. obj \in Worlds /\ destination \in SUBSET Farps /\ Hub \in Objectives /\ IsFiniteSet(Objectives)
        /\ rtb \in SUBSET Raids
    BY <1>1, ToFarps, GroupsAreFinite DEF WorldRight, Objectives
  <2> QED
    BY <1>3, <2>1, CreateAllGood
<1> HIDE DEF w
<1>5. Work' = [w EXCEPT !.q = EmptyMsgs]
  <2>1. w = [q |-> w.q, table |-> w.table, pin |-> w.pin, dst |-> w.dst, n |-> w.n]
    BY <1>4 DEF Good, Works
  <2>2. [w EXCEPT !.q = EmptyMsgs]
           = [q |-> EmptyMsgs, table |-> w.table, pin |-> w.pin, dst |-> w.dst, n |-> w.n]
    BY <2>1
  <2> QED
    BY <1>1, <1>2, <2>2 DEF Work
<1>6. Good(Work', dcs', at, rtb) /\ dcs'.lost = {}
  <2>1. dcs' = Final(w.q, dcs)
    BY <1>2 DEF Final
  <2>2. rtb \in SUBSET Raids
    BY <1>1
  <2>3. Good(Work', Final(w.q, dcs), at, rtb)
    BY <1>4, <1>5, <2>2, SentGood
  <2>4. Final(w.q, dcs).lost = {}
    BY <1>4, <2>2, GoodShows
  <2> QED
    BY <2>1, <2>3, <2>4
<1>7. Loaded'
  BY <1>2, <1>4, MarkupIs DEF Loaded
<1>8. TablesRight(Work', at, destination)
  <2>1. Work'.table = w.table /\ Work'.pin = w.pin /\ Work'.dst = w.dst
    BY <1>2 DEF Work
  <2>2. \A g \in Raids : w.dst[g] # NoMark
    BY <1>3, <1>4 DEF AllCreated
  <2>3. w.table[Hub] # NoMarkup
    BY <1>4, MarkupIs
  <2>4. \A g \in Raids : g \in DOMAIN at
    BY <1>1 DEF Groups
  <2> QED
    BY <1>1, <1>4, <2>1, <2>2, <2>3, <2>4 DEF TablesRight
<1> QED
  BY <1>1, <1>2, <1>6, <1>7, <1>8 DEF MapInv

\* A blow or a repair sends nothing yet.
LEMMA LogiChangesKeeps ==
    ASSUME MapInv, NEW o \in Objectives, LogiChanges(o)
    PROVE  MapInv'
<1>1. PICK l \in Levels(o) \ {obj[o].logi} : obj' = [obj EXCEPT ![o].logi = l]
  BY DEF LogiChanges
<1>2. l \in 0..2
  BY DEF Levels
<1>3. WorldRight(obj, destination)
  BY DEF MapInv
<1>4. WorldRight(obj', destination)
  BY <1>1, <1>2, <1>3, WorldRepaired
<1>5. UNCHANGED <<destination, at, rtb, markup, group_marks, marks, next, msgs, dcs>>
  BY DEF LogiChanges, book
<1>6. Work' = Work /\ Loaded' = Loaded
  BY <1>5 DEF Work, Loaded
<1> QED
  BY <1>4, <1>5, <1>6 DEF MapInv

\* The slow tick brings the markup up to date.
LEMMA UpdateKeeps ==
    ASSUME MapInv, NEW moved \in SUBSET Farps, update_objectives_markup(moved)
    PROVE  MapInv'
<1> DEFINE here == {o \in Objectives : Here(o)}
           w == UpdateAll(Work, obj', moved, here)
<1>1. Loaded /\ UNCHANGED <<destination, at, rtb>> /\ Finish(w)
      /\ obj' = [o \in Objectives |-> IF o \in moved THEN [obj[o] EXCEPT !.at = 1 - @] ELSE obj[o]]
  BY DEF update_objectives_markup
<1>2. /\ Good(Work, dcs, at, rtb) /\ WorldRight(obj, destination) /\ GroupsRight(at, rtb)
      /\ TablesRight(Work, at, destination)
  BY <1>1 DEF MapInv
<1>3. WorldRight(obj', destination)
  BY <1>1, <1>2, WorldMoved
<1>4. Good(w, dcs, at, rtb) /\ AllUpdated(w, Work)
  <2>1. here \in SUBSET Objectives /\ IsFiniteSet(here)
    BY GroupsAreFinite
  <2>2. obj' \in Worlds /\ destination \in SUBSET Farps /\ rtb \in SUBSET Raids
    BY <1>2, <1>3, ToFarps DEF WorldRight, GroupsRight
  <2>3. Work.table[Hub] # NoMarkup
    BY <1>2 DEF TablesRight
  <2> HIDE DEF here
  <2> QED
    BY <1>2, <2>1, <2>2, <2>3, UpdateAllGood
<1> HIDE DEF w
<1>5. TablesRight(w, at, destination)
  BY <1>2, <1>4 DEF TablesRight, AllUpdated
<1> QED
  BY <1>1, <1>2, <1>3, <1>4, <1>5, Handled

\* A new FARP is drawn, the hub with it if they are of one side.
LEMMA AddFarpKeeps ==
    ASSUME MapInv, NEW f \in Farps, NEW s \in Sides, add_farp(f, s)
    PROVE  MapInv'
<1> DEFINE lines == SupplyLines(Work, obj', destination')
           w == create_objective_markup(lines, obj', f, {})
<1>1. /\ Loaded /\ UNCHANGED <<at, rtb>> /\ Finish(w)
      /\ obj' = [obj EXCEPT ![f] = [owner |-> s, logi |-> 1, at |-> 0]]
      /\ destination' = OfSide(obj', obj[Hub].owner)
  BY DEF add_farp, Event
<1>2. /\ Good(Work, dcs, at, rtb) /\ WorldRight(obj, destination) /\ GroupsRight(at, rtb)
      /\ TablesRight(Work, at, destination)
  BY <1>1 DEF MapInv
<1>3. WorldRight(obj', destination')
  BY <1>1, <1>2, WorldMore
<1>4. obj' \in Worlds /\ destination' \in SUBSET Farps /\ rtb \in SUBSET Raids
  BY <1>2, <1>3, ToFarps DEF WorldRight, GroupsRight
<1>5. Good(lines, dcs, at, rtb) /\ IsSupplied(lines, Work, destination')
  BY <1>2, <1>4, SupplyLinesGood DEF TablesRight
<1> HIDE DEF lines
<1>6. f \in Objectives /\ f # Hub
  BY MapAssumption DEF Objectives
<1>7. Good(w, dcs, at, rtb)
  BY <1>4, <1>5, <1>6, CreateGood
<1>8. IsSupplied(w, lines, destination')
  BY <1>4, <1>5, <1>6, OtherCreated DEF IsSupplied
<1> HIDE DEF w
<1>9. TablesRight(w, at, destination')
  BY <1>2, <1>5, <1>8 DEF TablesRight, IsSupplied
<1> QED
  BY <1>1, <1>2, <1>3, <1>7, <1>9, Handled

\* A FARP that is no more loses its markup, and the hub an arrow.
LEMMA DeleteObjectiveKeeps ==
    ASSUME MapInv, NEW f \in Farps, delete_objective(f)
    PROVE  MapInv'
<1> DEFINE hub == IF f \in destination THEN create_objective_markup(Work, obj', Hub, destination')
                  ELSE Work
           w == remove_objective_markup(hub, f)
<1>1. /\ Loaded /\ UNCHANGED <<at, rtb>> /\ Finish(w)
      /\ obj' = [obj EXCEPT ![f] = Gone] /\ destination' = destination \ {f}
  BY DEF delete_objective, Event
<1>2. /\ Good(Work, dcs, at, rtb) /\ WorldRight(obj, destination) /\ GroupsRight(at, rtb)
      /\ TablesRight(Work, at, destination)
  BY <1>1 DEF MapInv
<1>3. WorldRight(obj', destination')
  BY <1>1, <1>2, WorldLess
<1>4. obj' \in Worlds /\ destination' \in SUBSET Farps /\ rtb \in SUBSET Raids
  BY <1>2, <1>3, ToFarps DEF WorldRight, GroupsRight
<1>5. Good(hub, dcs, at, rtb) /\ IsSupplied(hub, Work, destination')
  <2>1. Work \in Works /\ Hub \in Objectives
    BY <1>2 DEF Good, Objectives
  <2>2. CASE f \in destination
    BY <1>2, <1>4, <2>1, <2>2, CreateGood, HubCreated
  <2>3. CASE f \notin destination
    <3>1. destination' = destination /\ hub = Work
      BY <1>1, <2>3
    <3> QED
      BY <1>2, <2>1, <3>1 DEF TablesRight, IsSupplied
  <2> QED
    BY <2>2, <2>3
<1> HIDE DEF hub
<1>6. f \in Objectives /\ Hub \in Objectives \ {f}
  BY MapAssumption DEF Objectives
<1>7. Good(w, dcs, at, rtb)
  BY <1>4, <1>5, <1>6, RemoveGood
<1>8. IsRemoved(w, hub, f)
  BY <1>5, <1>6, RemoveIs DEF IsSupplied
<1> HIDE DEF w
<1>9. TablesRight(w, at, destination')
  BY <1>2, <1>5, <1>6, <1>8 DEF TablesRight, IsSupplied, IsRemoved
<1> QED
  BY <1>1, <1>2, <1>3, <1>7, <1>9, Handled

\* An objective drawn again.
LEMMA RemarkKeeps ==
    ASSUME MapInv, NEW o \in Objectives, remark(o)
    PROVE  MapInv'
<1> DEFINE w == create_objective_markup(Work, obj, o, destination)
<1>1. Loaded /\ UNCHANGED <<obj, destination, at, rtb>> /\ Finish(w)
  BY DEF remark, Event
<1>2. /\ Good(Work, dcs, at, rtb) /\ WorldRight(obj, destination) /\ GroupsRight(at, rtb)
      /\ TablesRight(Work, at, destination)
  BY <1>1 DEF MapInv
<1>3. obj \in Worlds /\ destination \in SUBSET Farps /\ rtb \in SUBSET Raids /\ Work \in Works
  BY <1>2, ToFarps DEF WorldRight, GroupsRight, Good
<1>4. Good(w, dcs, at, rtb)
  BY <1>2, <1>3, CreateGood
<1>5. IsSupplied(w, Work, destination)
  <2>1. CASE o = Hub
    BY <1>3, <2>1, HubCreated
  <2>2. CASE o # Hub
    BY <1>2, <1>3, <2>2, OtherCreated DEF TablesRight
  <2> QED
    BY <2>1, <2>2
<1> HIDE DEF w
<1>6. TablesRight(w, at, destination)
  BY <1>2, <1>5 DEF TablesRight, IsSupplied
<1> QED
  BY <1>1, <1>2, <1>4, <1>6, Handled

\* The losers' pins go, the hub is drawn, the winners' groups are pinned.
LEMMA CaptureKeeps ==
    ASSUME MapInv, NEW s \in Sides, Capture(s)
    PROVE  MapInv'
<1> DEFINE there == Garrison \cap DOMAIN at
           losers == {g \in there : SideOf[g] # s}
           clear == Unpinned(Work, losers)
           lines == SupplyLines(clear, obj', destination')
           drawn == create_objective_markup(lines, obj', Hub, destination')
           w == Pinned(drawn, obj', at, there \ losers)
<1>1. /\ Loaded /\ UNCHANGED <<at, rtb>> /\ Finish(w)
      /\ obj' = [obj EXCEPT ![Hub].owner = s, ![Hub].logi = 1]
      /\ destination' = OfSide(obj', s)
  BY DEF Capture, Event
<1>2. /\ Good(Work, dcs, at, rtb) /\ WorldRight(obj, destination) /\ GroupsRight(at, rtb)
      /\ TablesRight(Work, at, destination)
  BY <1>1 DEF MapInv
<1>3. WorldRight(obj', destination')
  <2>1. \A new : new = [obj EXCEPT ![Hub].owner = s, ![Hub].logi = 1] => WorldRight(new, OfSide(new, s))
    BY <1>2, WorldTaken
  <2> QED
    BY <1>1, <2>1
<1>4. obj' \in Worlds /\ destination' \in SUBSET Farps /\ rtb \in SUBSET Raids /\ Hub \in Objectives
  BY <1>2, <1>3, ToFarps DEF WorldRight, GroupsRight, Objectives
<1>5. /\ there \in SUBSET Groups /\ IsFiniteSet(there) /\ there \cap Raids = {} /\ there \subseteq DOMAIN at
      /\ losers \in SUBSET there /\ losers \in SUBSET Groups /\ IsFiniteSet(losers)
      /\ (there \ losers) \in SUBSET Groups /\ IsFiniteSet(there \ losers)
  <2>1. /\ there \in SUBSET Groups /\ losers \in SUBSET there /\ there \cap Raids = {}
        /\ there \subseteq DOMAIN at
    BY MapAssumption DEF Groups
  <2> HIDE DEF losers, there
  <2> QED
    BY <2>1, GroupsAreFinite
<1> HIDE DEF there, losers
<1>6. Good(clear, dcs, at, rtb) /\ AllUnpinned(clear, Work)
  BY <1>2, <1>4, <1>5, UnpinnedGood
<1> HIDE DEF clear
<1>7. Good(lines, dcs, at, rtb) /\ IsSupplied(lines, clear, destination')
  <2>1. clear.table[Hub] # NoMarkup /\ DOMAIN clear.table[Hub].arrows = destination
    BY <1>2, <1>6 DEF TablesRight, AllUnpinned
  <2> QED
    BY <1>4, <1>6, <2>1, SupplyLinesGood
<1> HIDE DEF lines
<1>8. Good(drawn, dcs, at, rtb) /\ IsSupplied(drawn, lines, destination')
  <2>1. lines \in Works
    BY <1>7 DEF Good
  <2> QED
    BY <1>4, <1>7, <2>1, CreateGood, HubCreated
<1> HIDE DEF drawn
<1>9. Good(w, dcs, at, rtb) /\ AllPinned(w, drawn, there \ losers)
  <2>1. (there \ losers) \cap rtb = {}
    BY <1>4, <1>5
  <2>2. \A g \in there \ losers : at[g] \in Nat
    BY <1>2, <1>5 DEF GroupsRight
  <2> DEFINE winners == there \ losers
  <2>3. winners \in SUBSET Groups /\ IsFiniteSet(winners) /\ winners \cap rtb = {}
        /\ \A g \in winners : at[g] \in Nat
    BY <1>5, <2>1, <2>2
  <2>4. w = Pinned(drawn, obj', at, winners)
    OBVIOUS
  <2> HIDE DEF winners, w
  <2>5. Good(w, dcs, at, rtb) /\ AllPinned(w, drawn, winners)
    BY <1>4, <1>8, <2>3, <2>4, PinnedGood
  <2> QED
    BY <2>5 DEF winners
<1> HIDE DEF w
<1>10. TablesRight(w, at, destination')
  <2>1. \A g \in Groups : w.pin[g] # NoMark => g \in DOMAIN at
    <3> SUFFICES ASSUME NEW g \in Groups, w.pin[g] # NoMark, g \notin there
                 PROVE  g \in DOMAIN at
      BY <1>5
    <3>1. w.pin[g] = drawn.pin[g]
      BY <1>9 DEF AllPinned
    <3>2. drawn.pin[g] = clear.pin[g]
      BY <1>7, <1>8 DEF IsSupplied
    <3>3. Work.pin[g] # NoMark
      BY <1>6, <3>1, <3>2 DEF AllUnpinned
    <3> QED
      BY <1>2, <3>3 DEF TablesRight
  <2>2. \A g \in Raids : w.dst[g] = Work.dst[g]
    <3> TAKE g \in Raids
    <3>1. g \in Raids \ (there \ losers)
      BY <1>5
    <3>2. w.dst[g] = drawn.dst[g]
      BY <1>9, <3>1 DEF AllPinned
    <3> QED
      BY <1>6, <1>7, <1>8, <3>2 DEF IsSupplied, AllUnpinned
  <2>3. w.table[Hub] = drawn.table[Hub]
    BY <1>9 DEF AllPinned
  <2> QED
    BY <1>2, <1>8, <2>1, <2>2, <2>3 DEF TablesRight, IsSupplied
<1> QED
  BY <1>1, <1>2, <1>3, <1>9, <1>10, Handled

\* A new group is marked.
LEMMA AddGroupKeeps ==
    ASSUME MapInv, NEW g \in Groups, add_group(g)
    PROVE  MapInv'
<1> DEFINE w == mark_group(Work, g, obj, 0)
<1>1. /\ Loaded /\ UNCHANGED <<obj, destination, rtb>> /\ Finish(w)
      /\ g \notin DOMAIN at /\ at' = [h \in DOMAIN at \union {g} |-> IF h = g THEN 0 ELSE at[h]]
  BY DEF add_group, Event
<1>2. /\ Good(Work, dcs, at, rtb) /\ WorldRight(obj, destination) /\ GroupsRight(at, rtb)
      /\ TablesRight(Work, at, destination) /\ Work \in Works /\ rtb \in SUBSET Raids
  BY <1>1 DEF MapInv, Good, GroupsRight
<1>3. /\ DOMAIN at' = DOMAIN at \cup {g} /\ at'[g] = 0
      /\ \A h \in DOMAIN at : at'[h] = at[h]
  BY <1>1
<1>4. GroupsRight(at', rtb)
  BY <1>2, <1>3 DEF GroupsRight
<1>5. Elsewhere(Work, at, at', g)
  BY <1>2, <1>3 DEF Elsewhere, TablesRight
<1>6. g \notin rtb
  BY <1>1, <1>2 DEF GroupsRight
<1>7. w = mark_group(Work, g, obj, at'[g]) /\ at'[g] \in Nat
  BY <1>3
<1> HIDE DEF w
<1>8. IsMarked(w, Work, g) /\ Good(w, dcs, at', rtb)
  BY <1>2, <1>5, <1>6, <1>7, MarkGroupGood
<1>9. TablesRight(w, at', destination)
  BY <1>2, <1>3, <1>8 DEF TablesRight, IsMarked
<1> QED
  BY <1>1, <1>2, <1>4, <1>8, <1>9, Handled

\* A group that has moved is marked again.
LEMMA MoveKeeps ==
    ASSUME MapInv, NEW g \in Groups, Move(g)
    PROVE  MapInv'
<1> DEFINE w == mark_group(Work, g, obj, 1 - at[g])
<1>1. /\ Loaded /\ UNCHANGED <<obj, destination, rtb>> /\ Finish(w)
      /\ g \in DOMAIN at /\ at' = [at EXCEPT ![g] = 1 - @]
  BY DEF Move, Event
<1>2. /\ Good(Work, dcs, at, rtb) /\ WorldRight(obj, destination) /\ GroupsRight(at, rtb)
      /\ TablesRight(Work, at, destination) /\ Work \in Works /\ rtb \in SUBSET Raids
  BY <1>1 DEF MapInv, Good, GroupsRight
<1>3. /\ DOMAIN at' = DOMAIN at /\ at'[g] = 1 - at[g] /\ at'[g] \in {0, 1}
      /\ \A h \in DOMAIN at \ {g} : at'[h] = at[h]
  <2>1. at[g] \in {0, 1}
    BY <1>1, <1>2 DEF GroupsRight
  <2>2. 1 - at[g] \in {0, 1}
    BY <2>1
  <2> QED
    BY <1>1, <2>2
<1>4. GroupsRight(at', rtb)
  BY <1>2, <1>3 DEF GroupsRight
<1>5. Elsewhere(Work, at, at', g)
  BY <1>2, <1>3 DEF Elsewhere, TablesRight
<1>6. g \in Raids => Work.dst[g] # NoMark
  BY <1>1, <1>2 DEF TablesRight
<1>7. w = mark_group(Work, g, obj, at'[g]) /\ at'[g] \in Nat
  BY <1>3
<1> HIDE DEF w
<1>8. IsMarked(w, Work, g) /\ Good(w, dcs, at', rtb)
  BY <1>2, <1>5, <1>6, <1>7, MarkGroupGood
<1>9. TablesRight(w, at', destination)
  BY <1>1, <1>2, <1>3, <1>8 DEF TablesRight, IsMarked
<1> QED
  BY <1>1, <1>2, <1>4, <1>8, <1>9, Handled

\* The deletion of a mark queued.
LEMMA DeletionQueued ==
    ASSUME NEW w \in Works, NEW id \in Nat, NEW v, v = [w EXCEPT !.q = delete_mark(@, id)]
    PROVE  v \in Works /\ v.table = w.table /\ v.pin = w.pin /\ v.dst = w.dst
<1>1. w.q \in Queues
  BY DEF Works
<1>2. delete_mark(w.q, id) \in Queues
  BY <1>1, DeletedIn
<1> QED
  BY <1>2 DEF Works

\* A raid told to return loses the pin at its destination.
LEMMA RtbKeeps ==
    ASSUME MapInv, NEW g \in Raids, Rtb(g)
    PROVE  MapInv'
<1> DEFINE w == [Work EXCEPT !.q = delete_mark(@, Work.dst[g])]
<1>1. /\ Loaded /\ UNCHANGED <<obj, destination, at>> /\ g \in DOMAIN at \ rtb
      /\ rtb' = rtb \cup {g}
  BY DEF Rtb, Event
<1>2. /\ Good(Work, dcs, at, rtb) /\ WorldRight(obj, destination) /\ GroupsRight(at, rtb)
      /\ TablesRight(Work, at, destination) /\ Work \in Works /\ rtb \in SUBSET Raids
  BY <1>1 DEF MapInv, Good, GroupsRight
<1>3. Finish(w)
  BY WorkIs DEF Rtb
<1>4. Work.dst[g] # NoMark /\ Work.dst[g] \in Nat
  BY <1>1, <1>2 DEF TablesRight, Works
<1>5. w \in Works /\ w.table = Work.table /\ w.pin = Work.pin /\ w.dst = Work.dst
  BY <1>2, <1>4, DeletionQueued
<1>6. Good(w, dcs, at, rtb')
  BY <1>1, <1>2, <1>4, <1>5, RtbGood
<1>7. GroupsRight(at, rtb')
  BY <1>1, <1>2 DEF GroupsRight
<1> HIDE DEF w
<1>8. TablesRight(w, at, destination)
  BY <1>2, <1>5 DEF TablesRight
<1> QED
  BY <1>1, <1>2, <1>3, <1>6, <1>7, <1>8, Handled

\* A group of the garrison that is dead loses its pin.
LEMMA GarrisonDiesKeeps ==
    ASSUME MapInv, NEW g \in Garrison, GarrisonDies(g)
    PROVE  MapInv'
<1> DEFINE w == Unpin(Work, g)
<1>1. Loaded /\ UNCHANGED <<obj, destination, at, rtb>> /\ Finish(w)
  BY DEF GarrisonDies, Event
<1>2. /\ Good(Work, dcs, at, rtb) /\ WorldRight(obj, destination) /\ GroupsRight(at, rtb)
      /\ TablesRight(Work, at, destination) /\ Work \in Works /\ rtb \in SUBSET Raids
  BY <1>1 DEF MapInv, Good, GroupsRight
<1>3. g \in Groups
  BY DEF Groups
<1>4. Good(w, dcs, at, rtb) /\ IsUnpinned(w, Work, g)
  BY <1>2, <1>3, UnpinGood, UnpinIs
<1> HIDE DEF w
<1>5. TablesRight(w, at, destination)
  BY <1>2, <1>3, <1>4 DEF TablesRight, IsUnpinned
<1> QED
  BY <1>1, <1>2, <1>4, <1>5, Handled

\* What is left of the marks of a raid that is no more.
IsGone(v, w, g) ==
    /\ v \in Works /\ v.table = w.table /\ v.pin = w.pin
    /\ v.dst[g] = NoMark /\ \A h \in Raids \ {g} : v.dst[h] = w.dst[h]

\* It does so.
LEMMA RaidGoneIs ==
    ASSUME NEW w \in Works, NEW g \in Raids, NEW v,
           v = [w EXCEPT !.q = delete_mark(@, w.dst[g]), !.dst[g] = NoMark]
    PROVE  IsGone(v, w, g)
<1>1. w.q \in Queues /\ w.dst \in [Raids -> Nat] /\ w.dst[g] \in Nat
  BY DEF Works
<1>2. delete_mark(w.q, w.dst[g]) \in Queues
  BY <1>1, DeletedIn
<1>3. v = [q |-> delete_mark(w.q, w.dst[g]), table |-> w.table, pin |-> w.pin,
           dst |-> [w.dst EXCEPT ![g] = NoMark], n |-> w.n]
  BY DEF Works
<1>4. [w.dst EXCEPT ![g] = NoMark] \in [Raids -> Nat]
  BY <1>1 DEF NoMark
<1> QED
  BY <1>1, <1>2, <1>3, <1>4 DEF Works, IsGone

\* A group that is no more loses its pins.
LEMMA DeleteGroupKeeps ==
    ASSUME MapInv, NEW g \in Troops \cup Raids, delete_group(g)
    PROVE  MapInv'
<1> DEFINE raid == [Work EXCEPT !.q = delete_mark(@, Work.dst[g]), !.dst[g] = NoMark]
           v == IF g \in Raids THEN raid ELSE Work
           w == Unpin(v, g)
<1>1. /\ Loaded /\ UNCHANGED <<obj, destination>> /\ g \in DOMAIN at
      /\ at' = [h \in DOMAIN at \ {g} |-> at[h]] /\ rtb' = rtb \ {g}
  BY DEF delete_group, Event
<1>2. /\ Good(Work, dcs, at, rtb) /\ WorldRight(obj, destination) /\ GroupsRight(at, rtb)
      /\ TablesRight(Work, at, destination) /\ Work \in Works /\ rtb \in SUBSET Raids
  BY <1>1 DEF MapInv, Good, GroupsRight
<1>3. Finish(w)
  BY WorkIs DEF delete_group
<1>4. g \in Groups /\ rtb' \in SUBSET Raids
  BY <1>1, <1>2 DEF Groups
<1>5. /\ Good(v, dcs, at, rtb') /\ v \in Works /\ v.table = Work.table /\ v.pin = Work.pin
      /\ g \in Raids => v.dst[g] = NoMark
      /\ \A h \in Raids \ {g} : v.dst[h] = Work.dst[h]
  <2>1. CASE g \in Raids
    <3>1. v = raid
      BY <2>1
    <3>2. Work.dst[g] # NoMark
      BY <1>1, <1>2, <2>1 DEF TablesRight
    <3> HIDE DEF v, w
    <3>3. raid = [Work EXCEPT !.q = delete_mark(@, Work.dst[g]), !.dst[g] = NoMark]
      OBVIOUS
    <3> HIDE DEF raid
    <3>4. IsGone(raid, Work, g)
      BY <1>2, <2>1, <3>3, RaidGoneIs
    <3>5. Good(raid, dcs, at, rtb \ {g})
      BY <1>2, <2>1, <3>2, <3>3, <3>4, RaidGoneGood DEF IsGone
    <3> QED
      BY <1>1, <3>1, <3>4, <3>5 DEF IsGone
  <2>2. CASE g \notin Raids
    <3>1. v = Work /\ rtb' = rtb
      BY <1>1, <1>2, <2>2
    <3> QED
      BY <1>2, <2>2, <3>1
  <2> QED
    BY <2>1, <2>2
<1> HIDE DEF v
<1>6. Good(w, dcs, at, rtb') /\ IsUnpinned(w, v, g)
  BY <1>4, <1>5, UnpinGood, UnpinIs
<1> HIDE DEF w
<1>7. \A h \in Groups : w.pin[h] # NoMark => h \in DOMAIN at' /\ at'[h] = at[h]
  BY <1>1, <1>2, <1>5, <1>6 DEF TablesRight, IsUnpinned
<1>8. Good(w, dcs, at', rtb')
  BY <1>4, <1>6, <1>7, GoodElsewhere
<1>9. TablesRight(w, at', destination)
  BY <1>1, <1>2, <1>5, <1>6, <1>7 DEF TablesRight, IsUnpinned
<1>10. GroupsRight(at', rtb')
  BY <1>1, <1>2 DEF GroupsRight
<1> QED
  BY <1>1, <1>2, <1>3, <1>8, <1>9, <1>10, Handled

\* A panel goes ahead of everything and changes nothing.
LEMMA ShowPanelKeeps ==
    ASSUME MapInv, ShowPanel
    PROVE  MapInv'
<1>1. Loaded /\ UNCHANGED <<obj, destination, at, rtb, markup, group_marks, marks, next, dcs>>
      /\ msgs' = Panel(msgs)
  BY DEF ShowPanel, book
<1>2. /\ Good(Work, dcs, at, rtb) /\ TablesRight(Work, at, destination) /\ rtb \in SUBSET Raids
  BY <1>1 DEF MapInv, GroupsRight
<1>3. Work' = [Work EXCEPT !.q = Panel(msgs)]
  BY <1>1 DEF Work
<1>4. Agrees(Panel(Work.q), dcs, Named(Work), MK(Work), LK(Work, at), Live(Work, rtb))
  BY <1>2, AgreesPanel DEF Good
<1>5. Good(Work', dcs, at, rtb)
  BY <1>2, <1>3, <1>4, WorkIs, RequeuedGood
<1>6. TablesRight(Work', at, destination) /\ Loaded'
  BY <1>1, <1>2 DEF TablesRight, Work, Loaded
<1> QED
  BY <1>1, <1>5, <1>6 DEF MapInv

\* How long three sequences are, one after the other.
LEMMA LenOfThree ==
    ASSUME NEW S, NEW s \in Seq(S), NEW t \in Seq(S), NEW u \in Seq(S)
    PROVE  Len(s \o t \o u) = Len(s) + Len(t) + Len(u)
<1>1. s \o t \in Seq(S) /\ Len(s \o t) = Len(s) + Len(t)
  BY ConcatProperties
<1> DEFINE r == s \o t
<1>2. Len(r \o u) = Len(r) + Len(u)
  BY <1>1, ConcatProperties
<1> QED
  BY <1>1, <1>2

\* How much waits.
LEMMA WaitingIs ==
    ASSUME NEW q \in Queues
    PROVE  len(q) \in Nat /\ Len(Waiting(q)) = len(q)
<1>1. q[1] \in Seq(Cmds) /\ q[2] \in Seq(Cmds) /\ q[3] \in Seq(Cmds)
  BY DEF Queues
<1>2. Len(q[1] \o q[2] \o q[3]) = Len(q[1]) + Len(q[2]) + Len(q[3])
  BY <1>1, LenOfThree
<1>3. Len(q[1]) \in Nat /\ Len(q[2]) \in Nat /\ Len(q[3]) \in Nat
  BY <1>1, LenProperties
<1>4. Len(Waiting(q)) = len(q)
  BY <1>2 DEF Waiting, len
<1>5. len(q) \in Nat
  <2> DEFINE a == Len(q[1])
             b == Len(q[2])
             c == Len(q[3])
  <2>1. a \in Nat /\ b \in Nat /\ c \in Nat
    BY <1>3
  <2>2. len(q) = a + b + c
    BY DEF len
  <2> HIDE DEF a, b, c
  <2> QED
    BY <2>1, <2>2
<1> QED
  BY <1>4, <1>5

\* Sending some of what waits leaves the map as it will be.
LEMMA ProcessKeeps ==
    ASSUME MapInv, Process
    PROVE  MapInv'
<1> DEFINE n == IF Rate < len(msgs) THEN Rate ELSE len(msgs)
<1>1. Loaded /\ UNCHANGED <<obj, destination, at, rtb, markup, group_marks, marks, next>>
      /\ process(n)
  BY DEF Process, book
<1>2. /\ Good(Work, dcs, at, rtb) /\ TablesRight(Work, at, destination) /\ rtb \in SUBSET Raids
  BY <1>1 DEF MapInv, GroupsRight
<1>3. Agrees(msgs, dcs, Named(Work), MK(Work), LK(Work, at), Live(Work, rtb))
  BY <1>2, WorkIs DEF Good
<1>4. Queued(msgs, dcs, Named(Work)) /\ Final(msgs, dcs).lost = {} /\ msgs \in Queues
  BY <1>3 DEF Agrees, Queued
<1>5. n \in 0..Len(Waiting(msgs))
  <2>1. len(msgs) \in Nat /\ Len(Waiting(msgs)) = len(msgs)
    BY <1>4, WaitingIs
  <2> QED
    BY <2>1, MapAssumption
<1> HIDE DEF n
<1>6. /\ Queued(msgs', dcs', Named(Work)) /\ Final(msgs', dcs') = Final(msgs, dcs)
      /\ dcs'.lost \subseteq Final(msgs, dcs).lost
  BY <1>1, <1>4, <1>5, SendingIsFair
<1>7. Agrees(msgs', dcs', Named(Work), MK(Work), LK(Work, at), Live(Work, rtb))
  BY <1>3, <1>6 DEF Agrees
<1>8. Work' = [Work EXCEPT !.q = msgs']
  BY <1>1 DEF Work
<1>9. Good(Work', dcs', at, rtb)
  BY <1>2, <1>7, <1>8, RequeuedGood
<1>10. TablesRight(Work', at, destination) /\ Loaded'
  BY <1>1, <1>2 DEF TablesRight, Work, Loaded
<1>11. dcs'.lost = {}
  BY <1>4, <1>6
<1> QED
  BY <1>1, <1>9, <1>10, <1>11 DEF MapInv
-----------------------------------------------------------------------------
(* The theorems. *)

\* Every step keeps the invariant.
LEMMA MapNext == MapInv /\ [Next]_vars => MapInv'
<1> SUFFICES ASSUME MapInv, [Next]_vars
             PROVE  MapInv'
  OBVIOUS
<1>1. CASE Load
  BY <1>1, LoadKeeps
<1>2. CASE \E o \in Objectives : LogiChanges(o) \/ remark(o)
  BY <1>2, LogiChangesKeeps, RemarkKeeps
<1>3. CASE \E moved \in SUBSET Farps : update_objectives_markup(moved)
  BY <1>3, UpdateKeeps
<1>4. CASE \E s \in Sides : Capture(s)
  BY <1>4, CaptureKeeps
<1>5. CASE \E f \in Farps, s \in Sides : add_farp(f, s)
  BY <1>5, AddFarpKeeps
<1>6. CASE \E f \in Farps : delete_objective(f)
  BY <1>6, DeleteObjectiveKeeps
<1>7. CASE \E g \in Groups : add_group(g) \/ Move(g)
  BY <1>7, AddGroupKeeps, MoveKeeps
<1>8. CASE \E g \in Raids : Rtb(g)
  BY <1>8, RtbKeeps
<1>9. CASE \E g \in Garrison : GarrisonDies(g)
  BY <1>9, GarrisonDiesKeeps
<1>10. CASE \E g \in Troops \cup Raids : delete_group(g)
  BY <1>10, DeleteGroupKeeps
<1>11. CASE ShowPanel
  BY <1>11, ShowPanelKeeps
<1>12. CASE Process
  BY <1>12, ProcessKeeps
<1>13. CASE UNCHANGED vars
  BY <1>13 DEF vars, book, MapInv, Work, Loaded
<1> QED
  BY <1>1, <1>2, <1>3, <1>4, <1>5, <1>6, <1>7, <1>8, <1>9, <1>10, <1>11, <1>12, <1>13 DEF Next

\* The tables agree with the map as it will be, always.
THEOREM MapIsInvariant == Spec => []MapInv
<1>1. Init => MapInv
  BY MapInitially
<1>2. MapInv /\ [Next]_vars => MapInv'
  BY MapNext
<1> QED
  BY <1>1, <1>2, PTL DEF Spec

\* Whatever is queued and in whatever order it came, when all of it is sent the map shows exactly
\* the marks the program has in its tables, with the looks it gave them (delete_mark, process).
THEOREM MapAlwaysComesRight == Spec => []MapComesRight
<1>1. MapInv => MapComesRight
  <2> SUFFICES ASSUME MapInv
               PROVE  MapComesRight
    OBVIOUS
  <2>1. Good(Work, dcs, at, rtb) /\ rtb \in SUBSET Raids
    BY DEF MapInv, GroupsRight
  <2>2. Shows(Final(Work.q, dcs).shown, Work, at, rtb)
    BY <2>1, GoodShows
  <2> QED
    BY <2>2, WorkIs DEF MapComesRight, Final
<1> QED
  BY <1>1, MapIsInvariant, PTL

\* No change of a mark is sent before the mark or after its deletion.
THEOREM ChangesAlwaysFindTheirMark == Spec => []ChangesFindTheirMark
<1>1. MapInv => ChangesFindTheirMark
  BY DEF MapInv, ChangesFindTheirMark
<1> QED
  BY <1>1, MapIsInvariant, PTL

\* The hub's arrows lead to the FARPs it supplies, all of them of its side (setup_supply_lines).
THEOREM ArrowsAlwaysSupplyLines == Spec => []ArrowsAreSupplyLines
<1>1. MapInv => ArrowsAreSupplyLines
  BY WorkIs DEF MapInv, ArrowsAreSupplyLines, TablesRight, WorldRight
<1> QED
  BY <1>1, MapIsInvariant, PTL
=============================================================================
