-------------------------- MODULE VkUpdates_proofs --------------------------
(***************************************************************************)
(* Theorems about VkUpdates for any history, dialogues, window of known    *)
(* updates and number of faults.                                           *)
(***************************************************************************)
EXTENDS VkUpdates, WellFoundedInduction, FiniteSetTheorems, SequenceTheorems, TLAPS

-----------------------------------------------------------------------------
(* Loops.  What a recursive function computes is proved for its least      *)
(* counterexample.                                                         *)

LEMMA LeastExists ==
  ASSUME NEW S, S \subseteq Nat, S # {}
  PROVE  \E n \in S : \A m \in S : n <= m
<1>. DEFINE Less == OpToRel(<, Nat)
<1>1. IsWellFoundedOn(Less, Nat)
  BY NatLessThanWellFounded
<1>. HIDE DEF Less
<1>2. PICK n \in S : \A m \in S : <<m, n>> \notin Less
  BY <1>1, WFMin
<1>3. \A m \in S : ~(m < n)
  BY <1>2 DEF Less, OpToRel
<1>4. QED BY <1>3

(* f holds what each update up to `last` leaves. *)
Current == [seen |-> seen, tasks |-> tasks]
Loop(f, last) ==
  f = [n \in position..last |-> IF n = position THEN Current ELSE Dispatch(f[n - 1], n)]

LEMMA LoopExists ==
  ASSUME position \in Nat, NEW k \in Nat
  PROVE  \E f : Loop(f, position + k)
<1>. DEFINE Bad == {m \in Nat : ~\E f : Loop(f, position + m)}
<1>1. SUFFICES ASSUME Bad # {} PROVE FALSE
  OBVIOUS
<1>2. PICK m \in Bad : \A l \in Bad : m <= l
  BY <1>1, LeastExists
<1>3. CASE m = 0
  <2>1. position..(position + m) = {position}
    BY <1>3
  <2>. DEFINE f == [n \in position..(position + m) |-> Current]
  <2>2. f = [n \in position..(position + m) |-> IF n = position THEN Current ELSE Dispatch(f[n - 1], n)]
    BY <2>1
  <2>. HIDE DEF f
  <2>3. QED BY <1>2, <2>2 DEF Loop
<1>4. CASE m # 0
  <2>1. m - 1 \in Nat /\ m - 1 \notin Bad
    BY <1>2, <1>4
  <2>2. PICK f : Loop(f, position + (m - 1))
    BY <2>1
  <2>. DEFINE top == position + m
              g == [n \in position..top |-> IF n = top THEN Dispatch(f[n - 1], n) ELSE f[n]]
  <2>3. ASSUME NEW n \in position..top
        PROVE  g[n] = IF n = position THEN Current ELSE Dispatch(g[n - 1], n)
    <3>1. CASE n = top
      <4>1. n # position /\ n - 1 \in position..top /\ n - 1 # top
        BY <1>2, <1>4, <3>1
      <4>2. g[n - 1] = f[n - 1]
        BY <4>1
      <4>3. QED BY <3>1, <4>1, <4>2
    <3>2. CASE n # top
      <4>1. n \in position..(position + (m - 1))
        BY <1>2, <3>2
      <4>2. f[n] = IF n = position THEN Current ELSE Dispatch(f[n - 1], n)
        BY <2>2, <4>1 DEF Loop
      <4>3. n # position => n - 1 \in position..top /\ n - 1 # top
        BY <4>1, <1>2
      <4>4. g[n] = f[n] /\ (n # position => g[n - 1] = f[n - 1])
        BY <3>2, <4>3
      <4>5. QED BY <4>2, <4>4
    <3>3. QED BY <3>1, <3>2
  <2>4. g = [n \in position..top |-> g[n]]
    OBVIOUS
  <2>. HIDE DEF g
  <2>5. g = [n \in position..top |-> IF n = position THEN Current ELSE Dispatch(g[n - 1], n)]
    BY <2>3, <2>4
  <2>6. QED BY <1>2, <2>5 DEF Loop
<1>5. QED BY <1>3, <1>4

LEMMA DispatchedIs ==
  ASSUME position \in Nat, NEW ts \in Nat, position <= ts
  PROVE  \E f : Loop(f, ts) /\ Dispatched(ts) = f[ts]
<1>. DEFINE f == CHOOSE g : Loop(g, ts)
<1>1. ts = position + (ts - position) /\ ts - position \in Nat
  OBVIOUS
<1>2. \E g : Loop(g, ts)
  BY <1>1, LoopExists
<1>3. Loop(f, ts)
  BY <1>2
<1>4. Dispatched(ts) = f[ts]
  BY DEF Dispatched, Loop, Current
<1>. HIDE DEF f
<1>5. QED BY <1>3, <1>4

-----------------------------------------------------------------------------
(* The window of known updates *)

(* The window holds the updates of the last tasks, DedupSize of them or all. *)
Window(so) ==
  /\ so.tasks \in Seq(Task) /\ so.seen \in Seq(Updates)
  /\ Len(so.seen) = IF Len(so.tasks) < DedupSize THEN Len(so.tasks) ELSE DedupSize
  /\ \A i \in 1..Len(so.seen) : so.seen[i] = so.tasks[Len(so.tasks) - Len(so.seen) + i].update

(* Tasks of the same update are more than the window apart. *)
FarApart(ts) ==
  \A t, u \in DOMAIN ts : t < u /\ ts[t].update = ts[u].update => u - t > DedupSize

(* ts continues old with tasks that have not begun. *)
Continues(old, ts) ==
  /\ Len(old) <= Len(ts)
  /\ \A t \in 1..Len(old) : ts[t] = old[t]
  /\ \A t \in (Len(old) + 1)..Len(ts) : ts[t].pc = "new" /\ ts[t].lock = 0

LEMMA Appended ==
  ASSUME NEW S, NEW s \in Seq(S), NEW x \in S
  PROVE  /\ Append(s, x) \in Seq(S) /\ Len(Append(s, x)) = Len(s) + 1 /\ Append(s, x)[Len(s) + 1] = x
         /\ \A i \in 1..Len(s) : Append(s, x)[i] = s[i]
OBVIOUS

LEMMA Shifted ==
  ASSUME NEW S, NEW s \in Seq(S), NEW x \in S, Len(s) >= 1
  PROVE  /\ Append(Tail(s), x) \in Seq(S) /\ Len(Append(Tail(s), x)) = Len(s)
         /\ Append(Tail(s), x)[Len(s)] = x
         /\ \A i \in 1..(Len(s) - 1) : Append(Tail(s), x)[i] = s[i + 1]
<1>1. s # <<>>
  BY EmptySeq
<1>2. /\ Tail(s) \in Seq(S) /\ Len(Tail(s)) = Len(s) - 1 /\ Len(s) \in Nat
      /\ \A i \in 1..Len(Tail(s)) : Tail(s)[i] = s[i + 1]
  BY <1>1, HeadTailProperties, LenProperties
<1>. DEFINE t == Tail(s)
<1>. HIDE DEF t
<1>3. /\ Append(t, x) \in Seq(S) /\ Len(Append(t, x)) = Len(t) + 1 /\ Append(t, x)[Len(t) + 1] = x
      /\ \A i \in 1..Len(t) : Append(t, x)[i] = t[i]
  BY <1>2, Appended DEF t
<1>4. QED BY <1>2, <1>3 DEF t

LEMMA NewTask ==
  ASSUME NEW so, Window(so), NEW n \in Updates, ~Known(so.seen, n)
  PROVE  /\ Window(Dispatch(so, n)) /\ Continues(so.tasks, Dispatch(so, n).tasks)
         /\ FarApart(so.tasks) => FarApart(Dispatch(so, n).tasks)
         /\ Len(Dispatch(so, n).tasks) = Len(so.tasks) + 1
         /\ Dispatch(so, n).tasks[Len(so.tasks) + 1].update = n
<1>. DEFINE new == [update |-> n, lock |-> 0, pc |-> "new"]
            ts == so.tasks
            us == Append(ts, new)
            known == so.seen
            more == Remembered(known, n)
            long == Len(ts)
            wide == Len(known)
<1>1. Dispatch(so, n).tasks = us /\ Dispatch(so, n).seen = more
  BY DEF Dispatch
<1>2. new \in Task /\ new.update = n /\ new.pc = "new" /\ new.lock = 0
  BY DEF Task
<1>3. ts \in Seq(Task) /\ known \in Seq(Updates) /\ DOMAIN ts = 1..long /\ DOMAIN known = 1..wide
  BY DEF Window
<1>4. long \in Nat /\ wide \in Nat /\ DedupSize \in Nat /\ DedupSize >= 1
  BY <1>3, UpdatesAssumption
<1>5. wide = IF long < DedupSize THEN long ELSE DedupSize
  BY DEF Window
<1>6. \A i \in 1..wide : known[i] = ts[long - wide + i].update
  BY DEF Window
<1>7. \A i \in 1..wide : known[i] # n
  BY <1>3 DEF Known
<1>8. more = IF wide < DedupSize THEN Append(known, n) ELSE Append(Tail(known), n)
  BY DEF Remembered
<1>. HIDE DEF new
<1>9. /\ us \in Seq(Task) /\ Len(us) = long + 1 /\ us[long + 1] = new
      /\ \A t \in 1..long : us[t] = ts[t]
  BY <1>2, <1>3, Appended
<1>. HIDE DEF ts, known, us, more
<1>10. DOMAIN us = 1..(long + 1)
  BY <1>9
<1>. HIDE DEF long, wide
<1>11. /\ more \in Seq(Updates)
       /\ Len(more) = IF long + 1 < DedupSize THEN long + 1 ELSE DedupSize
       /\ \A i \in 1..Len(more) : more[i] = us[(long + 1) - Len(more) + i].update
  <2>1. CASE wide < DedupSize
    <3>1. more = Append(known, n) /\ long = wide
      BY <1>4, <1>5, <1>8, <2>1
    <3>2. /\ more \in Seq(Updates) /\ Len(more) = wide + 1 /\ more[wide + 1] = n
          /\ \A i \in 1..wide : more[i] = known[i]
      BY <1>3, <3>1, Appended DEF wide
    <3>3. ASSUME NEW i \in 1..(wide + 1) PROVE more[i] = us[i].update
      <4>1. CASE i = wide + 1
        BY <1>2, <1>9, <3>1, <3>2, <4>1
      <4>2. CASE i # wide + 1
        <5>1. i \in 1..wide /\ i \in 1..long /\ long - wide + i = i
          BY <1>4, <3>1, <4>2
        <5>2. known[i] = ts[i].update
          BY <1>6, <5>1
        <5>3. QED BY <1>9, <3>2, <5>1, <5>2
      <4>3. QED BY <4>1, <4>2
    <3>4. \A i \in 1..(wide + 1) : (long + 1) - (wide + 1) + i = i
      BY <1>4, <3>1
    <3>5. wide + 1 = IF long + 1 < DedupSize THEN long + 1 ELSE DedupSize
      BY <1>4, <2>1, <3>1
    <3>6. QED BY <3>2, <3>3, <3>4, <3>5
  <2>2. CASE ~(wide < DedupSize)
    <3>1. more = Append(Tail(known), n)
      BY <1>8, <2>2
    <3>2. wide = DedupSize /\ long >= wide /\ wide >= 1
      BY <1>4, <1>5, <2>2
    <3>3. /\ more \in Seq(Updates) /\ Len(more) = wide /\ more[wide] = n
          /\ \A i \in 1..(wide - 1) : more[i] = known[i + 1]
      BY <1>3, <3>1, <3>2, Shifted DEF wide
    <3>4. ASSUME NEW i \in 1..wide PROVE more[i] = us[(long + 1) - wide + i].update
      <4>1. CASE i = wide
        <5>1. (long + 1) - wide + wide = long + 1
          BY <1>4
        <5>2. QED BY <1>2, <1>9, <3>3, <4>1, <5>1
      <4>2. CASE i # wide
        <5>1. /\ i \in 1..(wide - 1) /\ i + 1 \in 1..wide
              /\ (long + 1) - wide + i = long - wide + (i + 1)
              /\ long - wide + (i + 1) \in 1..long
          BY <1>4, <3>2, <4>2
        <5>2. more[i] = known[i + 1] /\ known[i + 1] = ts[long - wide + (i + 1)].update
          BY <1>6, <3>3, <5>1
        <5>3. QED BY <1>9, <5>1, <5>2
      <4>3. QED BY <4>1, <4>2
    <3>5. wide = IF long + 1 < DedupSize THEN long + 1 ELSE DedupSize
      BY <1>4, <3>2
    <3>6. QED BY <3>3, <3>4, <3>5
  <2>3. QED BY <2>1, <2>2
<1>12. Window(Dispatch(so, n))
  <2>. DEFINE d == Dispatch(so, n)
  <2>1. d.tasks = us /\ d.seen = more
    BY <1>1
  <2>. HIDE DEF d
  <2>2. d.tasks \in Seq(Task) /\ d.seen \in Seq(Updates) /\ Len(d.tasks) = long + 1
    BY <1>9, <1>11, <2>1
  <2>3. \A i \in 1..Len(d.seen) : d.seen[i] = d.tasks[Len(d.tasks) - Len(d.seen) + i].update
    <3>1. \A i \in 1..Len(more) : more[i] = us[Len(us) - Len(more) + i].update
      <4>1. Len(us) = long + 1
        BY <1>9
      <4>2. ASSUME NEW i \in 1..Len(more) PROVE more[i] = us[Len(us) - Len(more) + i].update
        <5>1. more[i] = us[(long + 1) - Len(more) + i].update
          BY <1>11
        <5>2. Len(us) - Len(more) + i = (long + 1) - Len(more) + i
          BY <4>1
        <5>3. QED BY <5>1, <5>2
      <4>3. QED BY <4>2
    <3>2. QED BY <2>1, <3>1, Zenon
  <2>4. Len(d.seen) = IF Len(d.tasks) < DedupSize THEN Len(d.tasks) ELSE DedupSize
    BY <1>11, <2>1, <2>2
  <2>5. Window(d)
    BY <2>2, <2>3, <2>4 DEF Window
  <2>6. QED BY <2>5 DEF d
<1>13. Continues(ts, us)
  <2>1. Len(ts) = long /\ long <= long + 1 /\ (long + 1)..(long + 1) = {long + 1}
    BY <1>4 DEF long
  <2>2. QED BY <1>2, <1>9, <2>1 DEF Continues
<1>14. ASSUME FarApart(ts), NEW t \in 1..(long + 1), NEW u \in 1..(long + 1), t < u, us[t].update = us[u].update
       PROVE  u - t > DedupSize
  <2>1. t \in 1..long /\ us[t] = ts[t]
    BY <1>4, <1>9, <1>14
  <2>2. CASE u # long + 1
    <3>1. u \in 1..long /\ us[u] = ts[u]
      BY <1>4, <1>9, <2>2
    <3>2. QED BY <1>3, <1>14, <2>1, <3>1 DEF FarApart
  <2>3. CASE u = long + 1
    <3>1. ts[t].update = n
      BY <1>2, <1>9, <1>14, <2>1, <2>3
    <3>2. ASSUME t > long - wide PROVE FALSE
      <4>1. PICK i \in 1..wide : long - wide + i = t
        <5>1. t - (long - wide) \in 1..wide /\ long - wide + (t - (long - wide)) = t
          BY <1>4, <2>1, <3>2
        <5>2. QED BY <5>1
      <4>2. QED BY <1>6, <1>7, <3>1, <4>1
    <3>3. t <= long - wide
      BY <1>4, <2>1, <3>2
    <3>4. 1 <= t /\ t \in Nat
      BY <1>4, <2>1
    <3>5. wide = DedupSize
      BY <1>4, <1>5, <3>3, <3>4
    <3>6. QED BY <1>4, <2>3, <3>3, <3>4, <3>5
  <2>4. QED BY <2>2, <2>3
<1>15. FarApart(ts) => FarApart(us)
  BY <1>10, <1>14 DEF FarApart
<1>16. QED BY <1>1, <1>2, <1>9, <1>12, <1>13, <1>15 DEF ts, long

(* After dispatch the update has a task. *)
LEMMA DispatchKeeps ==
  ASSUME NEW so, Window(so), FarApart(so.tasks), NEW n \in Updates
  PROVE  /\ Window(Dispatch(so, n)) /\ FarApart(Dispatch(so, n).tasks)
         /\ Continues(so.tasks, Dispatch(so, n).tasks)
         /\ \E t \in DOMAIN Dispatch(so, n).tasks : Dispatch(so, n).tasks[t].update = n
<1>1. CASE Known(so.seen, n)
  <2>1. Dispatch(so, n) = so
    BY <1>1 DEF Dispatch
  <2>2. PICK i \in DOMAIN so.seen : so.seen[i] = n
    BY <1>1 DEF Known
  <2>. DEFINE long == Len(so.tasks)
              wide == Len(so.seen)
  <2>3. /\ i \in 1..wide /\ long \in Nat /\ wide \in Nat /\ DOMAIN so.tasks = 1..long
        /\ wide <= long
    BY UpdatesAssumption DEF Window
  <2>4. so.tasks[long - wide + i].update = n
    BY <2>2, <2>3 DEF Window
  <2>5. Continues(so.tasks, so.tasks)
    BY <2>3 DEF Continues
  <2>. HIDE DEF long, wide
  <2>6. long - wide + i \in 1..long
    BY <2>3
  <2>7. QED BY <2>1, <2>3, <2>4, <2>5, <2>6
<1>2. CASE ~Known(so.seen, n)
  <2>1. /\ Len(Dispatch(so, n).tasks) = Len(so.tasks) + 1
        /\ Window(Dispatch(so, n))
    BY <1>2, NewTask
  <2>2. Dispatch(so, n).tasks \in Seq(Task) /\ Len(so.tasks) \in Nat
    BY <2>1 DEF Window
  <2>3. Len(so.tasks) + 1 \in DOMAIN Dispatch(so, n).tasks
    BY <2>1, <2>2
  <2>4. QED BY <1>2, <2>3, NewTask
<1>3. QED BY <1>1, <1>2

LEMMA ContinuesOn ==
  ASSUME NEW a \in Seq(Task), NEW b \in Seq(Task), NEW c \in Seq(Task), Continues(a, b), Continues(b, c)
  PROVE  Continues(a, c)
<1>1. Len(a) \in Nat /\ Len(b) \in Nat /\ Len(c) \in Nat /\ Len(a) <= Len(b) /\ Len(b) <= Len(c)
  BY DEF Continues
<1>2. ASSUME NEW t \in 1..Len(a) PROVE c[t] = a[t]
  BY <1>1 DEF Continues
<1>3. ASSUME NEW t \in (Len(a) + 1)..Len(c) PROVE c[t].pc = "new" /\ c[t].lock = 0
  <2>1. CASE t <= Len(b)
    <3>1. t \in 1..Len(b) /\ t \in (Len(a) + 1)..Len(b)
      BY <1>1, <2>1
    <3>2. QED BY <3>1 DEF Continues
  <2>2. CASE t > Len(b)
    BY <1>1, <2>2 DEF Continues
  <2>3. QED BY <1>1, <2>1, <2>2
<1>4. QED BY <1>1, <1>2, <1>3 DEF Continues

(* What an answer brings: every update of it has a task. *)
Brought(so, last) ==
  /\ Window(so) /\ FarApart(so.tasks) /\ Continues(tasks, so.tasks)
  /\ \A n \in (position + 1)..last : \E t \in DOMAIN so.tasks : so.tasks[t].update = n

LEMMA DispatchedBrings ==
  ASSUME position \in Nat, NEW ts \in Positions, position <= ts,
         Window(Current), FarApart(tasks)
  PROVE  Brought(Dispatched(ts), ts)
<1>1. ts \in Nat /\ LastUpdate \in Nat /\ ts <= LastUpdate
  BY UpdatesAssumption DEF Positions
<1>2. PICK f : Loop(f, ts) /\ Dispatched(ts) = f[ts]
  BY <1>1, DispatchedIs
<1>3. \A n \in position..ts : f[n] = IF n = position THEN Current ELSE Dispatch(f[n - 1], n)
  BY <1>2 DEF Loop
<1>. DEFINE Bad == {n \in Nat : n \in position..ts /\ ~Brought(f[n], n)}
<1>4. CASE Bad = {}
  BY <1>1, <1>2, <1>4
<1>5. ASSUME Bad # {} PROVE FALSE
  <2>1. PICK n \in Bad : \A m \in Bad : n <= m
    BY <1>5, LeastExists
  <2>2. CASE n = position
    <3>1. f[n] = Current /\ Current.tasks = tasks
      BY <1>3, <2>1, <2>2 DEF Current
    <3>2. Continues(tasks, tasks)
      BY <3>1 DEF Continues, Window
    <3>3. (position + 1)..n = {}
      BY <2>2
    <3>4. Brought(f[n], n)
      BY <3>1, <3>2, <3>3 DEF Brought
    <3>5. QED BY <2>1, <3>4
  <2>3. CASE n # position
    <3>1. /\ n - 1 \in Nat /\ n - 1 \in position..ts /\ n \in position..ts /\ n \in Nat
          /\ n \in Updates /\ n - 1 \notin Bad
      BY <1>1, <2>1, <2>3 DEF Updates
    <3>2. Brought(f[n - 1], n - 1) /\ f[n] = Dispatch(f[n - 1], n)
      BY <1>3, <2>3, <3>1
    <3>. DEFINE so == f[n - 1]
                new == f[n]
    <3>3. /\ Window(new) /\ FarApart(new.tasks) /\ Continues(so.tasks, new.tasks)
          /\ \E t \in DOMAIN new.tasks : new.tasks[t].update = n
      BY <3>1, <3>2, DispatchKeeps DEF Brought
    <3>4. so.tasks \in Seq(Task) /\ new.tasks \in Seq(Task) /\ tasks \in Seq(Task)
      BY <3>2, <3>3 DEF Brought, Window, Current
    <3>5. Continues(tasks, new.tasks)
      BY <3>2, <3>3, <3>4, ContinuesOn DEF Brought
    <3>6. ASSUME NEW m \in (position + 1)..n PROVE \E t \in DOMAIN new.tasks : new.tasks[t].update = m
      <4>1. CASE m = n
        BY <3>3, <4>1
      <4>2. CASE m # n
        <5>1. m \in (position + 1)..(n - 1)
          BY <3>1, <4>2
        <5>2. PICK t \in DOMAIN so.tasks : so.tasks[t].update = m
          BY <3>2, <5>1 DEF Brought
        <5>3. t \in 1..Len(so.tasks) /\ Len(so.tasks) <= Len(new.tasks) /\ new.tasks[t] = so.tasks[t]
          BY <3>3, <3>4 DEF Continues
        <5>4. t \in DOMAIN new.tasks
          BY <3>4, <5>3
        <5>5. QED BY <5>2, <5>3, <5>4
      <4>3. QED BY <4>1, <4>2
    <3>. HIDE DEF so, new
    <3>7. Brought(new, n)
      BY <3>3, <3>5, <3>6 DEF Brought
    <3>8. QED BY <2>1, <3>7 DEF new
  <2>4. QED BY <2>2, <2>3
<1>6. QED BY <1>4, <1>5

-----------------------------------------------------------------------------
(* The queue of batches *)

(* Update e is dealt with, or it waits in one of the first k batches. *)
Covered(e, bs, k, ts, over) ==
  e \in over \/ \E j \in 1..k : \E t \in bs[j].tasks : ts[t].update = e

(* What the queue bs covers, the queue rest covers. *)
CoverKept(bs, rest, ts, over) ==
  \A e : Covered(e, bs, Len(bs), ts, over) => Covered(e, rest, Len(rest), ts, over)

(* Whatever lies before a batch's position is covered by it and those before *)
(* it, and only a task that is done has left the queue.                      *)
Ordered(bs, ts, over) ==
  /\ \A k \in 1..Len(bs) : \A e \in 1..bs[k].ts : Covered(e, bs, k, ts, over)
  /\ \A t \in 1..Len(ts) : \/ ts[t].pc = "done" /\ ts[t].update \in over
                           \/ ts[t].pc # "done" /\ \E k \in 1..Len(bs) : t \in bs[k].tasks

BatchesOK(bs, ts) ==
  /\ bs \in Seq(Batch)
  /\ \A k \in 1..Len(bs) : bs[k].tasks \subseteq 1..Len(ts)

LEMMA PrefixIs ==
  ASSUME NEW bs \in Seq(Batch), NEW ts
  PROVE  /\ CompletePrefix(bs, ts) \in 0..Len(bs)
         /\ \A i \in 1..CompletePrefix(bs, ts) : Complete(bs[i], ts)
<1>. DEFINE S == {n \in Nat : n <= Len(bs) /\ (n < Len(bs) => ~Complete(bs[n + 1], ts))}
<1>1. Len(bs) \in Nat /\ Len(bs) \in S
  OBVIOUS
<1>2. PICK n \in S : \A m \in S : n <= m
  BY <1>1, LeastExists
<1>3. ASSUME NEW i \in 1..n PROVE Complete(bs[i], ts)
  <2>1. i - 1 \in Nat /\ i - 1 < n /\ i - 1 < Len(bs) /\ (i - 1) + 1 = i
    BY <1>1, <1>2
  <2>2. i - 1 \notin S
    BY <1>2, <2>1
  <2>3. QED BY <2>1, <2>2
<1>4. n \in 0..Len(bs) /\ (n < Len(bs) => ~Complete(bs[n + 1], ts))
  BY <1>1, <1>2
<1>5. QED BY <1>3, <1>4 DEF CompletePrefix

LEMMA Advances ==
  ASSUME NEW bs, NEW ts \in Seq(Task), NEW over, BatchesOK(bs, ts), Ordered(bs, ts, over),
         NEW n \in 0..Len(bs), \A i \in 1..n : Complete(bs[i], ts),
         NEW rest, rest = SubSeq(bs, n + 1, Len(bs))
  PROVE  /\ BatchesOK(rest, ts) /\ Ordered(rest, ts, over)
         /\ n # 0 => bs[n].ts \in Positions /\ \A e \in 1..bs[n].ts : e \in over
         /\ CoverKept(bs, rest, ts, over)
<1>1. bs \in Seq(Batch) /\ Len(bs) \in Nat /\ n \in Nat /\ n <= Len(bs) /\ Len(ts) \in Nat
  BY DEF BatchesOK
<1>2. /\ rest \in Seq(Batch) /\ Len(rest) = Len(bs) - n
      /\ \A k \in 1..Len(rest) : rest[k] = bs[n + k]
  <2>1. \A i \in (n + 1)..Len(bs) : bs[i] \in Batch
    BY <1>1
  <2>2. /\ SubSeq(bs, n + 1, Len(bs)) \in Seq(Batch)
        /\ Len(SubSeq(bs, n + 1, Len(bs))) = IF n + 1 <= Len(bs) THEN Len(bs) - (n + 1) + 1 ELSE 0
        /\ \A i \in 1..(Len(bs) - (n + 1) + 1) : SubSeq(bs, n + 1, Len(bs))[i] = bs[(n + 1) + i - 1]
    BY <1>1, <2>1, SubSeqProperties
  <2>3. Len(rest) = Len(bs) - n
    BY <1>1, <2>2
  <2>4. ASSUME NEW k \in 1..Len(rest) PROVE rest[k] = bs[n + k]
    <3>1. k \in 1..(Len(bs) - (n + 1) + 1) /\ (n + 1) + k - 1 = n + k
      BY <1>1, <2>3
    <3>2. QED BY <2>2, <3>1
  <2>5. QED BY <2>2, <2>3, <2>4
<1>3. ASSUME NEW k \in 1..Len(rest) PROVE n + k \in 1..Len(bs) /\ rest[k] = bs[n + k]
  BY <1>1, <1>2
<1>4. BatchesOK(rest, ts)
  BY <1>2, <1>3 DEF BatchesOK
<1>5. ASSUME NEW j \in 1..n, NEW t \in bs[j].tasks PROVE ts[t].pc = "done" /\ ts[t].update \in over
  <2>1. j \in 1..Len(bs) /\ ts[t].pc = "done"
    BY <1>1 DEF Complete
  <2>2. t \in 1..Len(ts)
    BY <2>1 DEF BatchesOK
  <2>3. QED BY <2>1, <2>2 DEF Ordered
<1>6. ASSUME NEW k \in 0..Len(rest), NEW e, Covered(e, bs, n + k, ts, over)
      PROVE  Covered(e, rest, k, ts, over)
  <2>1. CASE e \in over
    BY <2>1 DEF Covered
  <2>2. ASSUME NEW j \in 1..(n + k), NEW t \in bs[j].tasks, ts[t].update = e
        PROVE  Covered(e, rest, k, ts, over)
    <3>1. CASE j <= n
      <4>1. j \in 1..n
        BY <1>1, <3>1
      <4>2. QED BY <1>5, <2>2, <4>1 DEF Covered
    <3>2. CASE j > n
      <4>1. j - n \in 1..k /\ j - n \in 1..Len(rest) /\ n + (j - n) = j
        BY <1>1, <1>2, <3>2
      <4>2. rest[j - n] = bs[j]
        BY <1>2, <4>1
      <4>3. QED BY <2>2, <4>1, <4>2 DEF Covered
    <3>3. QED BY <1>1, <3>1, <3>2
  <2>3. QED BY <1>6, <2>1, <2>2 DEF Covered
<1>7. ASSUME NEW k \in 1..Len(rest), NEW e \in 1..rest[k].ts PROVE Covered(e, rest, k, ts, over)
  <2>1. Covered(e, bs, n + k, ts, over)
    BY <1>3 DEF Ordered
  <2>2. QED BY <1>1, <1>2, <1>6, <2>1
<1>8. ASSUME NEW t \in 1..Len(ts), ts[t].pc # "done" PROVE \E k \in 1..Len(rest) : t \in rest[k].tasks
  <2>1. PICK j \in 1..Len(bs) : t \in bs[j].tasks
    BY <1>8 DEF Ordered
  <2>2. ~(j <= n)
    <3>1. SUFFICES ASSUME j <= n PROVE FALSE
      OBVIOUS
    <3>2. j \in 1..n
      BY <1>1, <3>1
    <3>3. QED BY <1>5, <1>8, <2>1, <3>2
  <2>3. j - n \in 1..Len(rest) /\ n + (j - n) = j
    BY <1>1, <1>2, <2>2
  <2>4. QED BY <1>2, <2>1, <2>3
<1>9. Ordered(rest, ts, over)
  BY <1>7, <1>8 DEF Ordered
<1>10. ASSUME n # 0 PROVE bs[n].ts \in Positions /\ \A e \in 1..bs[n].ts : e \in over
  <2>1. n \in 1..Len(bs)
    BY <1>1, <1>10
  <2>2. ASSUME NEW e \in 1..bs[n].ts PROVE e \in over
    <3>1. Covered(e, bs, n, ts, over)
      BY <2>1 DEF Ordered
    <3>2. QED BY <1>5, <3>1 DEF Covered
  <2>3. bs[n] \in Batch
    BY <1>1, <2>1
  <2>4. QED BY <2>2, <2>3 DEF Batch
<1>11. CoverKept(bs, rest, ts, over)
  <2>1. Len(rest) \in 0..Len(rest) /\ n + Len(rest) = Len(bs)
    BY <1>1, <1>2
  <2>2. ASSUME NEW e, Covered(e, bs, Len(bs), ts, over) PROVE Covered(e, rest, Len(rest), ts, over)
    BY <1>6, <2>1, <2>2
  <2>3. QED BY <2>2 DEF CoverKept
<1>12. QED BY <1>4, <1>9, <1>10, <1>11

(* The batch of an answer joins the queue. *)
LEMMA Joins ==
  ASSUME NEW bs, NEW old \in Seq(Task), NEW ts \in Seq(Task), NEW over,
         BatchesOK(bs, old), Ordered(bs, old, over), Continues(old, ts),
         NEW p \in Nat, \A e \in 1..p : Covered(e, bs, Len(bs), old, over),
         NEW q \in Positions, p <= q, \A e \in (p + 1)..q : \E t \in DOMAIN ts : ts[t].update = e,
         NEW all, all = Append(bs, [ts |-> q, tasks |-> Len(old) + 1 .. Len(ts)])
  PROVE  /\ BatchesOK(all, ts) /\ Ordered(all, ts, over)
         /\ \A e \in 1..q : Covered(e, all, Len(all), ts, over)
<1>. DEFINE new == [ts |-> q, tasks |-> Len(old) + 1 .. Len(ts)]
<1>1. /\ bs \in Seq(Batch) /\ Len(bs) \in Nat /\ Len(old) \in Nat /\ Len(ts) \in Nat /\ Len(old) <= Len(ts)
      /\ DOMAIN ts = 1..Len(ts) /\ q \in Nat
  BY UpdatesAssumption DEF BatchesOK, Continues, Positions
<1>2. new \in Batch /\ new.tasks = (Len(old) + 1)..Len(ts) /\ new.ts = q
  <2>1. (Len(old) + 1)..Len(ts) \subseteq Nat \ {0}
    BY <1>1
  <2>2. QED BY <2>1 DEF Batch
<1>. HIDE DEF new
<1>3. /\ all \in Seq(Batch) /\ Len(all) = Len(bs) + 1 /\ all[Len(bs) + 1] = new
      /\ \A k \in 1..Len(bs) : all[k] = bs[k]
  BY <1>1, <1>2, Appended DEF new
<1>4. ASSUME NEW t \in 1..Len(old) PROVE t \in 1..Len(ts) /\ ts[t] = old[t]
  BY <1>1 DEF Continues
<1>5. BatchesOK(all, ts)
  <2>1. ASSUME NEW k \in 1..Len(all) PROVE all[k].tasks \subseteq 1..Len(ts)
    <3>1. CASE k = Len(bs) + 1
      BY <1>1, <1>2, <1>3, <3>1
    <3>2. CASE k # Len(bs) + 1
      <4>1. k \in 1..Len(bs)
        BY <1>1, <1>3, <3>2
      <4>2. all[k].tasks \subseteq 1..Len(old)
        BY <1>3, <4>1 DEF BatchesOK
      <4>3. QED BY <1>4, <4>2
    <3>3. QED BY <3>1, <3>2
  <2>2. QED BY <1>3, <2>1 DEF BatchesOK
<1>6. ASSUME NEW k \in 1..Len(bs), NEW e, Covered(e, bs, k, old, over) PROVE Covered(e, all, k, ts, over)
  <2>1. CASE e \in over
    BY <2>1 DEF Covered
  <2>2. ASSUME NEW j \in 1..k, NEW t \in bs[j].tasks, old[t].update = e PROVE Covered(e, all, k, ts, over)
    <3>1. j \in 1..Len(bs)
      BY <1>1
    <3>2. t \in 1..Len(old) /\ all[j] = bs[j]
      BY <1>3, <3>1 DEF BatchesOK
    <3>3. QED BY <1>4, <2>2, <3>2 DEF Covered
  <2>3. QED BY <1>6, <2>1, <2>2 DEF Covered
<1>7. ASSUME NEW e, Covered(e, bs, Len(bs), old, over) PROVE Covered(e, all, Len(all), ts, over)
  <2>1. CASE e \in over
    BY <2>1 DEF Covered
  <2>2. ASSUME NEW j \in 1..Len(bs), NEW t \in bs[j].tasks, old[t].update = e
        PROVE  Covered(e, all, Len(all), ts, over)
    <3>1. t \in 1..Len(old) /\ all[j] = bs[j] /\ j \in 1..Len(all)
      BY <1>1, <1>3 DEF BatchesOK
    <3>2. QED BY <1>4, <2>2, <3>1 DEF Covered
  <2>3. QED BY <1>7, <2>1, <2>2 DEF Covered
<1>8. ASSUME NEW t \in (Len(old) + 1)..Len(ts) PROVE Len(all) \in 1..Len(all) /\ t \in all[Len(all)].tasks
  BY <1>1, <1>2, <1>3
<1>9. ASSUME NEW t \in 1..Len(old)
      PROVE  Covered(ts[t].update, all, Len(all), ts, over)
  <2>1. CASE old[t].pc = "done"
    BY <1>4, <2>1 DEF Ordered, Covered
  <2>2. CASE old[t].pc # "done"
    <3>1. PICK k \in 1..Len(bs) : t \in bs[k].tasks
      BY <2>2 DEF Ordered
    <3>2. k \in 1..Len(all) /\ t \in all[k].tasks
      BY <1>1, <1>3, <3>1
    <3>3. QED BY <3>2 DEF Covered
  <2>3. QED BY <2>1, <2>2
<1>10. ASSUME NEW e \in 1..q PROVE Covered(e, all, Len(all), ts, over)
  <2>1. CASE e <= p
    <3>1. e \in 1..p
      BY <1>1, <2>1
    <3>2. QED BY <1>7, <3>1
  <2>2. CASE e > p
    <3>1. e \in (p + 1)..q
      BY <1>1, <2>2
    <3>2. PICK t \in 1..Len(ts) : ts[t].update = e
      BY <1>1, <3>1
    <3>3. CASE t <= Len(old)
      <4>1. t \in 1..Len(old)
        BY <1>1, <3>3
      <4>2. QED BY <1>9, <3>2, <4>1
    <3>4. CASE t > Len(old)
      <4>1. t \in (Len(old) + 1)..Len(ts)
        BY <1>1, <3>4
      <4>2. QED BY <1>8, <3>2, <4>1 DEF Covered
    <3>5. QED BY <1>1, <3>3, <3>4
  <2>3. QED BY <1>1, <2>1, <2>2
<1>11. ASSUME NEW k \in 1..Len(all), NEW e \in 1..all[k].ts PROVE Covered(e, all, k, ts, over)
  <2>1. CASE k = Len(bs) + 1
    BY <1>2, <1>3, <1>10, <2>1
  <2>2. CASE k # Len(bs) + 1
    <3>1. k \in 1..Len(bs)
      BY <1>1, <1>3, <2>2
    <3>2. Covered(e, bs, k, old, over)
      BY <1>3, <3>1 DEF Ordered
    <3>3. QED BY <1>6, <3>1, <3>2
  <2>3. QED BY <2>1, <2>2
<1>12. ASSUME NEW t \in 1..Len(ts)
       PROVE  \/ ts[t].pc = "done" /\ ts[t].update \in over
              \/ ts[t].pc # "done" /\ \E k \in 1..Len(all) : t \in all[k].tasks
  <2>1. CASE t <= Len(old)
    <3>1. t \in 1..Len(old)
      BY <1>1, <2>1
    <3>2. CASE old[t].pc = "done"
      BY <1>4, <3>1, <3>2 DEF Ordered
    <3>3. CASE old[t].pc # "done"
      <4>1. PICK k \in 1..Len(bs) : t \in bs[k].tasks
        BY <3>1, <3>3 DEF Ordered
      <4>2. k \in 1..Len(all) /\ t \in all[k].tasks
        BY <1>1, <1>3, <4>1
      <4>3. QED BY <1>4, <3>1, <3>3, <4>2
    <3>4. QED BY <3>2, <3>3
  <2>2. CASE t > Len(old)
    <3>1. t \in (Len(old) + 1)..Len(ts)
      BY <1>1, <2>2
    <3>2. ts[t].pc = "new"
      BY <3>1 DEF Continues
    <3>3. QED BY <1>8, <3>1, <3>2
  <2>3. QED BY <1>1, <2>1, <2>2
<1>13. QED BY <1>5, <1>10, <1>11, <1>12 DEF Ordered

-----------------------------------------------------------------------------
(* The inductive invariant *)

Over == handled \union gone

(* Everything before the poll's position waits in the queue or is dealt with. *)
QueueInv ==
  /\ Ordered(batches, tasks, Over)
  /\ position # NoPosition => \A e \in 1..position : Covered(e, batches, Len(batches), tasks, Over)
  /\ NothingSkipped

WindowInv == Window(Current) /\ FarApart(tasks)

PollInv == TypeOK /\ (connected => position # NoPosition) /\ QueueInv /\ WindowInv

LEMMA TypeFacts ==
  ASSUME TypeOK
  PROVE  /\ newest \in Nat /\ newest <= LastUpdate /\ LastUpdate \in Nat
         /\ Positions \subseteq Nat /\ NoPosition \notin Positions
         /\ 1..newest \subseteq Updates
         /\ tasks \in Seq(Task) /\ Len(tasks) \in Nat /\ DOMAIN tasks = 1..Len(tasks)
         /\ BatchesOK(batches, tasks)
<1>1. LastUpdate \in Nat /\ NoPosition \notin Nat
  BY UpdatesAssumption
<1>2. newest \in Nat /\ newest <= LastUpdate /\ Positions \subseteq Nat
  BY <1>1 DEF TypeOK, Positions
<1>3. 1..newest \subseteq Updates
  BY <1>1, <1>2 DEF Updates
<1>4. tasks \in Seq(Task) /\ batches \in Seq(Batch)
  BY DEF TypeOK
<1>5. DOMAIN tasks = 1..Len(tasks) /\ DOMAIN batches = 1..Len(batches) /\ Len(tasks) \in Nat
  BY <1>4
<1>6. BatchesOK(batches, tasks)
  BY <1>4, <1>5 DEF TypeOK, BatchesOK
<1>7. QED BY <1>1, <1>2, <1>3, <1>4, <1>5, <1>6

LEMMA CoveredMore ==
  ASSUME NEW e, NEW bs, NEW k, NEW ts, NEW over, NEW more, over \subseteq more, Covered(e, bs, k, ts, over)
  PROVE  Covered(e, bs, k, ts, more)
BY DEF Covered

LEMMA OrderedMore ==
  ASSUME NEW bs, NEW ts, NEW over, NEW more, over \subseteq more, Ordered(bs, ts, over)
  PROVE  Ordered(bs, ts, more)
BY DEF Ordered, Covered

(* Memory that is empty is in order. *)
LEMMA Forgotten ==
  ASSUME NoMemory, TypeOK, NothingSkipped, UNCHANGED <<newest, saved, handled, gone>>,
         process' = "down", faults' \in Nat
  PROVE  PollInv'
<1>1. /\ tasks' = <<>> /\ seen' = <<>> /\ batches' = <<>> /\ position' = NoPosition /\ connected' = FALSE
      /\ lockOf' = [p \in Peers |-> 0]
  BY DEF NoMemory
<1>2. TypeOK'
  <2>1. Len(<<>>) <= DedupSize
    BY UpdatesAssumption, EmptySeq
  <2>2. <<>> \in Seq(Task) /\ <<>> \in Seq(Updates) /\ <<>> \in Seq(Batch) /\ DOMAIN <<>> = {}
    BY EmptySeq
  <2>3. lockOf' \in [Peers -> 0..Len(tasks')]
    BY <1>1, EmptySeq
  <2>4. QED BY <1>1, <2>1, <2>2, <2>3 DEF TypeOK
<1>3. Ordered(<<>>, <<>>, Over')
  BY DEF Ordered
<1>4. NothingSkipped'
  BY DEF NothingSkipped
<1>5. QueueInv'
  BY <1>1, <1>3, <1>4 DEF QueueInv
<1>6. Window([seen |-> <<>>, tasks |-> <<>>]) /\ FarApart(<<>>)
  BY UpdatesAssumption DEF Window, FarApart
<1>7. WindowInv'
  BY <1>1, <1>6 DEF WindowInv, Current
<1>8. QED BY <1>1, <1>2, <1>5, <1>7 DEF PollInv

LEMMA InitPollInv == Init => PollInv
<1>. SUFFICES ASSUME Init PROVE PollInv
  OBVIOUS
<1>1. /\ tasks = <<>> /\ seen = <<>> /\ batches = <<>> /\ position = NoPosition /\ connected = FALSE
      /\ saved = NoPosition /\ handled = {} /\ gone = {} /\ newest = 0 /\ process = "up" /\ faults = 0
      /\ lockOf = [p \in Peers |-> 0]
  BY DEF Init
<1>2. TypeOK
  <2>1. 0 \in Positions /\ Len(<<>>) <= DedupSize
    BY UpdatesAssumption, EmptySeq DEF Positions
  <2>2. <<>> \in Seq(Task) /\ <<>> \in Seq(Updates) /\ <<>> \in Seq(Batch) /\ DOMAIN <<>> = {}
    BY EmptySeq
  <2>3. lockOf \in [Peers -> 0..Len(tasks)]
    BY <1>1, EmptySeq
  <2>4. QED BY <1>1, <2>1, <2>2, <2>3 DEF TypeOK
<1>3. Ordered(<<>>, <<>>, Over)
  BY DEF Ordered
<1>4. QueueInv
  BY <1>1, <1>3 DEF QueueInv, NothingSkipped
<1>5. Window([seen |-> <<>>, tasks |-> <<>>]) /\ FarApart(<<>>)
  BY UpdatesAssumption DEF Window, FarApart
<1>6. WindowInv
  BY <1>1, <1>5 DEF WindowInv, Current
<1>7. QED BY <1>1, <1>2, <1>4, <1>6 DEF PollInv

(* Steps of the poll and the process that leave the memory of the handlers. *)
LEMMA KeptInv ==
  ASSUME PollInv, UNCHANGED <<tasks, seen, batches, lockOf, handled>>,
         newest' \in Positions, process' \in {"up", "stopping", "down"}, connected' \in BOOLEAN,
         gone \subseteq gone', gone' \subseteq Updates, faults' \in Nat,
         connected' => position' # NoPosition,
         \/ position' = NoPosition
         \/ /\ position' \in Positions
            /\ \A e \in 1..position' : Covered(e, batches, Len(batches), tasks, Over'),
         \/ saved' = NoPosition
         \/ saved' \in Positions /\ \A e \in 1..saved' : e \in Over'
  PROVE  PollInv'
<1>1. TypeOK'
  BY DEF PollInv, TypeOK
<1>2. Over \subseteq Over'
  BY DEF Over
<1>3. Ordered(batches, tasks, Over')
  BY <1>2, OrderedMore DEF PollInv, QueueInv
<1>4. NothingSkipped'
  BY DEF NothingSkipped, Over
<1>5. QueueInv'
  BY <1>3, <1>4 DEF QueueInv
<1>6. WindowInv'
  BY DEF PollInv, WindowInv, Current
<1>7. QED BY <1>1, <1>5, <1>6 DEF PollInv

LEMMA ConnectKeeps == ASSUME PollInv, Connect PROVE PollInv'
<1>1. /\ UNCHANGED <<newest, process, tasks, seen, batches, lockOf, handled>> /\ connected' = TRUE
      /\ TypeOK /\ QueueInv
  BY DEF Connect, PollInv
<1>2. newest \in Positions /\ process \in {"up", "stopping", "down"} /\ faults \in Nat /\ gone \subseteq Updates
      /\ saved \in Positions \union {NoPosition} /\ position \in Positions \union {NoPosition}
  BY <1>1 DEF TypeOK
<1>3. /\ position # NoPosition => \A e \in 1..position : Covered(e, batches, Len(batches), tasks, Over)
      /\ saved # NoPosition => \A e \in 1..saved : e \in Over
  BY <1>1 DEF QueueInv, NothingSkipped, Over
<1>4. CASE position # NoPosition
  BY <1>1, <1>2, <1>3, <1>4, KeptInv DEF Connect, Over
<1>5. CASE position = NoPosition /\ saved # NoPosition /\ position' = saved /\ UNCHANGED <<saved, gone, faults>>
  <2>1. Over' = Over
    BY <1>1, <1>5 DEF Over
  <2>2. \A e \in 1..saved : Covered(e, batches, Len(batches), tasks, Over')
    BY <1>3, <1>5, <2>1 DEF Covered
  <2>3. QED BY <1>1, <1>2, <1>3, <1>5, <2>1, <2>2, KeptInv
<1>6. ASSUME position' = newest, gone' = gone \union 1..newest, saved' \in {saved, newest}, faults' \in Nat
      PROVE  PollInv'
  <2>1. 1..newest \subseteq Updates /\ NoPosition \notin Positions
    BY <1>1, TypeFacts
  <2>2. Over \subseteq Over' /\ \A e \in 1..newest : e \in Over'
    BY <1>1, <1>6 DEF Over
  <2>3. \A e \in 1..newest : Covered(e, batches, Len(batches), tasks, Over')
    BY <2>2 DEF Covered
  <2>4. saved' = NoPosition \/ (saved' \in Positions /\ \A e \in 1..saved' : e \in Over')
    <3>1. CASE saved' = newest
      BY <1>2, <2>2, <3>1
    <3>2. CASE saved' = saved
      BY <1>2, <1>3, <2>2, <3>2
    <3>3. QED BY <1>6, <3>1, <3>2
  <2>5. position' \in Positions /\ position' # NoPosition /\ gone' \subseteq Updates /\ gone \subseteq gone'
    BY <1>2, <1>6, <2>1
  <2>6. /\ newest' \in Positions /\ process' \in {"up", "stopping", "down"} /\ connected' \in BOOLEAN
        /\ \A e \in 1..position' : Covered(e, batches, Len(batches), tasks, Over')
    BY <1>1, <1>2, <1>6, <2>3
  <2>7. QED BY <1>1, <1>6, <2>4, <2>5, <2>6, KeptInv
<1>7. CASE /\ position = NoPosition /\ saved = NoPosition /\ position' = newest
           /\ gone' = gone \union 1..newest /\ Save(newest)
  <2>1. saved' \in {saved, newest} /\ faults' \in Nat
    BY <1>2, <1>7 DEF Save, Fault, NoFault
  <2>2. QED BY <1>6, <1>7, <2>1
<1>8. CASE /\ Fault /\ position' = newest /\ gone' = gone \union 1..newest /\ saved' \in {saved, newest}
  <2>1. faults' \in Nat
    BY <1>2, <1>8 DEF Fault
  <2>2. QED BY <1>6, <1>8, <2>1
<1>9. QED BY <1>4, <1>5, <1>7, <1>8 DEF Connect

LEMMA HistoryLostKeeps == ASSUME PollInv, NEW ts \in 0..newest, HistoryLost(ts) PROVE PollInv'
<1>. DEFINE missed == {e \in Updates : position < e /\ e <= ts}
<1>1. /\ UNCHANGED <<newest, process, connected, saved, tasks, seen, batches, lockOf, handled>>
      /\ connected /\ position' = ts /\ gone' = gone \union missed
      /\ TypeOK /\ QueueInv /\ position # NoPosition
  BY DEF HistoryLost, PollInv
<1>2. faults' \in Nat
  BY <1>1 DEF HistoryLost, Fault, TypeOK
<1>3. /\ newest \in Nat /\ newest <= LastUpdate /\ LastUpdate \in Nat /\ 1..newest \subseteq Updates
      /\ Positions \subseteq Nat /\ NoPosition \notin Positions /\ position \in Positions
  BY <1>1, TypeFacts DEF TypeOK
<1>4. ts \in Positions /\ ts \in Nat /\ position \in Nat
  BY <1>3 DEF Positions
<1>5. Over \subseteq Over'
  BY <1>1 DEF Over
<1>6. ASSUME NEW e \in 1..ts PROVE Covered(e, batches, Len(batches), tasks, Over')
  <2>1. CASE e <= position
    <3>1. e \in 1..position
      BY <1>4, <2>1
    <3>2. Covered(e, batches, Len(batches), tasks, Over)
      BY <1>1, <3>1 DEF QueueInv
    <3>3. QED BY <1>5, <3>2, CoveredMore
  <2>2. CASE e > position
    <3>1. e \in 1..newest /\ position < e /\ e <= ts
      BY <1>3, <1>4, <2>2
    <3>2. e \in missed
      BY <1>3, <3>1
    <3>3. QED BY <1>1, <3>2 DEF Over, Covered
  <2>3. QED BY <1>4, <2>1, <2>2
<1>7. saved' = NoPosition \/ (saved' \in Positions /\ \A e \in 1..saved' : e \in Over')
  BY <1>1, <1>5 DEF TypeOK, QueueInv, NothingSkipped, Over
<1>8. newest' \in Positions /\ process' \in {"up", "stopping", "down"} /\ connected' \in BOOLEAN /\ gone \subseteq gone'
      /\ gone' \subseteq Updates
  BY <1>1 DEF TypeOK
<1>. HIDE DEF missed
<1>9. position' \in Positions /\ position' # NoPosition
  BY <1>1, <1>3, <1>4
<1>10. \A e \in 1..position' : Covered(e, batches, Len(batches), tasks, Over')
  BY <1>1, <1>6
<1>11. QED BY <1>1, <1>2, <1>7, <1>8, <1>9, <1>10, KeptInv

LEMMA RestKeeps ==
  ASSUME PollInv, Arrive \/ Disconnect \/ Stop \/ Start \/ UNCHANGED vars
  PROVE  PollInv'
<1>1. TypeOK /\ QueueInv
  BY DEF PollInv
<1>2. /\ UNCHANGED <<tasks, seen, batches, lockOf, handled, gone, position, saved>>
      /\ process' \in {"up", "stopping", "down"} /\ faults' \in Nat
      /\ connected' \in BOOLEAN /\ (connected' => connected)
  <2>1. process \in {"up", "stopping", "down"} /\ faults \in Nat /\ connected \in BOOLEAN
    BY <1>1 DEF TypeOK
  <2>2. CASE Arrive
    BY <2>1, <2>2 DEF Arrive
  <2>3. CASE Disconnect \/ Stop
    <3>1. connected' = FALSE /\ process' \in {process, "stopping"} /\ faults' = faults + 1
      BY <2>3 DEF Disconnect, Stop, Fault
    <3>2. UNCHANGED <<tasks, seen, batches, lockOf, handled, gone, position, saved>>
      BY <2>3 DEF Disconnect, Stop
    <3>3. faults' \in Nat
      BY <2>1, <3>1
    <3>4. QED BY <2>1, <3>1, <3>2, <3>3
  <2>4. CASE Start
    BY <2>1, <2>4 DEF Start
  <2>5. CASE UNCHANGED vars
    BY <2>1, <2>5 DEF vars
  <2>6. QED BY <2>2, <2>3, <2>4, <2>5
<1>3. newest' \in Positions
  BY <1>1, TypeFacts DEF Arrive, Disconnect, Stop, Start, vars, TypeOK, Positions
<1>4. /\ position = NoPosition \/ (position \in Positions /\ \A e \in 1..position : Covered(e, batches, Len(batches), tasks, Over))
      /\ saved = NoPosition \/ (saved \in Positions /\ \A e \in 1..saved : e \in Over)
  BY <1>1 DEF TypeOK, QueueInv, NothingSkipped, Over
<1>5. Over' = Over
  BY <1>2 DEF Over
<1>6. gone \subseteq gone' /\ gone' \subseteq Updates /\ (connected' => position' # NoPosition)
  BY <1>1, <1>2 DEF TypeOK, PollInv
<1>7. QED BY <1>2, <1>3, <1>4, <1>5, <1>6, KeptInv

(* Steps of one task. *)
Moves(t, to) ==
  /\ tasks' = [tasks EXCEPT ![t] = to]
  /\ tasks[t].pc # "done" /\ to \in Task /\ to.update = tasks[t].update
  /\ handled' \subseteq Updates /\ handled \subseteq handled'
  /\ to.pc = "done" => to.update \in handled'
  /\ lockOf' \in [Peers -> 0..Len(tasks)]
  /\ UNCHANGED <<newest, process, connected, position, saved, seen, batches, gone, faults>>

LEMMA MovesKeep ==
  ASSUME PollInv, NEW t \in DOMAIN tasks, NEW to, Moves(t, to)
  PROVE  PollInv'
<1>1. /\ tasks \in Seq(Task) /\ Len(tasks) \in Nat /\ DOMAIN tasks = 1..Len(tasks) /\ t \in 1..Len(tasks)
      /\ TypeOK /\ QueueInv /\ WindowInv /\ BatchesOK(batches, tasks)
  BY TypeFacts DEF PollInv
<1>2. /\ tasks' \in Seq(Task) /\ Len(tasks') = Len(tasks) /\ DOMAIN tasks' = 1..Len(tasks)
      /\ \A u \in 1..Len(tasks) : tasks'[u] = IF u = t THEN to ELSE tasks[u]
  BY <1>1, ExceptSeq DEF Moves
<1>3. \A u \in 1..Len(tasks) : tasks'[u].update = tasks[u].update
  BY <1>2 DEF Moves
<1>4. TypeOK'
  BY <1>1, <1>2 DEF TypeOK, Moves
<1>5. Over \subseteq Over'
  BY DEF Moves, Over
<1>6. ASSUME NEW e, NEW k \in 0..Len(batches), Covered(e, batches, k, tasks, Over)
      PROVE  Covered(e, batches, k, tasks', Over')
  <2>1. \A j \in 1..k : batches[j].tasks \subseteq 1..Len(tasks)
    BY <1>1 DEF BatchesOK
  <2>2. QED BY <1>3, <1>5, <1>6, <2>1 DEF Covered
<1>7. Len(batches) \in Nat
  BY <1>1 DEF BatchesOK
<1>8. ASSUME NEW u \in 1..Len(tasks)
      PROVE  \/ tasks'[u].pc = "done" /\ tasks'[u].update \in Over'
             \/ tasks'[u].pc # "done" /\ \E k \in 1..Len(batches) : u \in batches[k].tasks
  <2>1. CASE u = t
    <3>1. \E k \in 1..Len(batches) : u \in batches[k].tasks
      BY <1>1, <2>1 DEF Moves, QueueInv, Ordered
    <3>2. tasks'[u] = to
      BY <1>2, <2>1
    <3>3. QED BY <3>1, <3>2 DEF Moves, Over
  <2>2. CASE u # t
    BY <1>1, <1>2, <1>5, <2>2 DEF QueueInv, Ordered
  <2>3. QED BY <2>1, <2>2
<1>9. Ordered(batches, tasks', Over')
  <2>1. ASSUME NEW k \in 1..Len(batches), NEW e \in 1..batches[k].ts PROVE Covered(e, batches, k, tasks', Over')
    <3>1. Covered(e, batches, k, tasks, Over)
      BY <1>1 DEF QueueInv, Ordered
    <3>2. QED BY <1>6, <1>7, <3>1
  <2>2. QED BY <1>2, <1>8, <2>1 DEF Ordered
<1>10. QueueInv'
  <2>1. position # NoPosition => \A e \in 1..position : Covered(e, batches, Len(batches), tasks', Over')
    <3>. SUFFICES ASSUME position # NoPosition, NEW e \in 1..position
                  PROVE  Covered(e, batches, Len(batches), tasks', Over')
      OBVIOUS
    <3>1. Covered(e, batches, Len(batches), tasks, Over)
      BY <1>1 DEF QueueInv
    <3>2. QED BY <1>6, <1>7, <3>1
  <2>2. NothingSkipped'
    BY <1>1 DEF QueueInv, NothingSkipped, Moves
  <2>3. QED BY <1>9, <2>1, <2>2 DEF QueueInv, Moves
<1>11. WindowInv'
  <2>. DEFINE long == Len(tasks)
              wide == Len(seen)
  <2>1. /\ seen \in Seq(Updates) /\ wide = IF long < DedupSize THEN long ELSE DedupSize
        /\ \A i \in 1..wide : seen[i] = tasks[long - wide + i].update
    BY <1>1 DEF WindowInv, Window, Current
  <2>2. wide \in Nat /\ long \in Nat /\ wide <= long
    BY <1>1, <2>1, UpdatesAssumption
  <2>. HIDE DEF wide, long
  <2>3. \A i \in 1..wide : long - wide + i \in 1..long
    BY <2>2
  <2>4. \A i \in 1..wide : seen[i] = tasks'[long - wide + i].update
    BY <1>3, <2>1, <2>3 DEF long
  <2>5. Len(tasks') = long /\ seen' = seen
    BY <1>2 DEF Moves, long
  <2>6. Window(Current)'
    BY <1>2, <2>1, <2>4, <2>5 DEF Window, Current, wide
  <2>7. FarApart(tasks')
    BY <1>1, <1>2, <1>3 DEF WindowInv, FarApart
  <2>8. QED BY <2>6, <2>7 DEF WindowInv
<1>12. QED BY <1>4, <1>10, <1>11 DEF PollInv, Moves

LEMMA LocksForType ==
  ASSUME TypeOK, NEW t \in DOMAIN tasks, NEW p
  PROVE  LocksFor(t, p) \in [Peers -> 0..Len(tasks)]
<1>1. t \in 0..Len(tasks) /\ 0 \in 0..Len(tasks) /\ lockOf \in [Peers -> 0..Len(tasks)]
  BY TypeFacts DEF TypeOK
<1>2. QED BY <1>1 DEF LocksFor

LEMMA HandlingMoves ==
  ASSUME TypeOK, NEW t \in DOMAIN tasks, Begin(t) \/ Resume(t) \/ HandlerEnds(t) \/ Cancel(t)
  PROVE  \E to : Moves(t, to)
<1>1. /\ tasks \in Seq(Task) /\ tasks[t] \in Task /\ tasks[t].update \in Updates /\ handled \subseteq Updates
      /\ tasks[t].lock \in Nat /\ lockOf \in [Peers -> 0..Len(tasks)]
  <2>1. tasks \in Seq(Task) /\ t \in 1..Len(tasks)
    BY TypeFacts
  <2>2. tasks[t] \in Task
    BY <2>1, ElementOfSeq
  <2>3. QED BY <2>1, <2>2 DEF TypeOK, Task
<1>2. ASSUME NEW pc \in {"running", "done", "cancelled"}, tasks' = [tasks EXCEPT ![t].pc = pc]
      PROVE  \E to \in Task : tasks' = [tasks EXCEPT ![t] = to] /\ to.update = tasks[t].update /\ to.pc = pc
  <2>1. [tasks[t] EXCEPT !.pc = pc] \in Task
    BY <1>1 DEF Task
  <2>2. tasks' = [tasks EXCEPT ![t] = [tasks[t] EXCEPT !.pc = pc]]
    BY <1>2
  <2>3. [tasks[t] EXCEPT !.pc = pc].update = tasks[t].update /\ [tasks[t] EXCEPT !.pc = pc].pc = pc
    BY <1>1 DEF Task
  <2>4. QED BY <2>1, <2>2, <2>3
<1>3. CASE Resume(t) \/ Cancel(t)
  <2>1. PICK pc \in {"running", "cancelled"} : tasks' = [tasks EXCEPT ![t].pc = pc]
    BY <1>3 DEF Resume, Cancel
  <2>2. PICK to \in Task : tasks' = [tasks EXCEPT ![t] = to] /\ to.update = tasks[t].update /\ to.pc = pc
    BY <1>2, <2>1
  <2>3. tasks[t].pc # "done" /\ UNCHANGED <<newest, process, connected, position, saved, seen, batches,
                                           lockOf, handled, gone, faults>>
    BY <1>3 DEF Resume, Cancel, Ended
  <2>4. Moves(t, to)
    BY <1>1, <2>1, <2>2, <2>3 DEF Moves
  <2>5. QED BY <2>4
<1>4. CASE HandlerEnds(t)
  <2>1. PICK to \in Task : tasks' = [tasks EXCEPT ![t] = to] /\ to.update = tasks[t].update /\ to.pc = "done"
    BY <1>2, <1>4 DEF HandlerEnds
  <2>2. Moves(t, to)
    BY <1>1, <1>4, <2>1 DEF Moves, HandlerEnds
  <2>3. QED BY <2>2
<1>5. CASE Begin(t)
  <2>. DEFINE p == Dialogue[tasks[t].update]
              lock == LocksFor(t, p)[p]
              pc == IF Held(lock) \/ Waiting(lock) # {} THEN "queued" ELSE "running"
  <2>1. tasks[t].pc = "new" /\ UNCHANGED <<newest, process, connected, position, saved, seen, batches,
                                          handled, gone, faults>>
    BY <1>5 DEF Begin
  <2>2. CASE p = NoPeer
    <3>1. tasks' = [tasks EXCEPT ![t].pc = "running"] /\ UNCHANGED lockOf
      BY <1>5, <2>2 DEF Begin
    <3>2. PICK to \in Task : tasks' = [tasks EXCEPT ![t] = to] /\ to.update = tasks[t].update /\ to.pc = "running"
      BY <1>2, <3>1
    <3>3. Moves(t, to)
      BY <1>1, <2>1, <3>1, <3>2 DEF Moves
    <3>4. QED BY <3>3
  <2>3. CASE p # NoPeer
    <3>1. lockOf' = LocksFor(t, p) /\ tasks' = [tasks EXCEPT ![t] = [tasks[t] EXCEPT !.lock = lock, !.pc = pc]]
      BY <1>5, <2>3 DEF Begin
    <3>2. p \in Peers
      BY <1>1, <2>3 DEF Peers
    <3>3. lock \in Nat /\ LocksFor(t, p) \in [Peers -> 0..Len(tasks)]
      BY <3>2, LocksForType
    <3>4. pc \in {"queued", "running"}
      OBVIOUS
    <3>5. ASSUME NEW l \in Nat, NEW c \in {"queued", "running"}
          PROVE  /\ [tasks[t] EXCEPT !.lock = l, !.pc = c] \in Task
                 /\ [tasks[t] EXCEPT !.lock = l, !.pc = c].update = tasks[t].update
                 /\ [tasks[t] EXCEPT !.lock = l, !.pc = c].pc # "done"
      BY <1>1 DEF Task
    <3>. HIDE DEF lock, pc
    <3>6. PICK to \in Task : /\ tasks' = [tasks EXCEPT ![t] = to] /\ to.update = tasks[t].update
                             /\ to.pc # "done"
      BY <3>1, <3>3, <3>4, <3>5
    <3>7. Moves(t, to)
      BY <1>1, <2>1, <3>1, <3>3, <3>6 DEF Moves
    <3>8. QED BY <3>7
  <2>4. QED BY <2>2, <2>3
<1>6. QED BY <1>3, <1>4, <1>5

(* The head of the queue bs goes, and the position file follows it. *)
LEMMA AdvanceKeeps ==
  ASSUME TypeOK, NothingSkipped, NEW bs, NEW ts \in Seq(Task), BatchesOK(bs, ts), Ordered(bs, ts, Over),
         Advance(bs, ts)
  PROVE  /\ BatchesOK(batches', ts) /\ Ordered(batches', ts, Over)
         /\ \A e : Covered(e, bs, Len(bs), ts, Over) => Covered(e, batches', Len(batches'), ts, Over)
         /\ saved' = NoPosition \/ (saved' \in Positions /\ \A e \in 1..saved' : e \in Over)
         /\ faults' \in Nat
<1>. DEFINE n == CompletePrefix(bs, ts)
<1>1. n \in 0..Len(bs) /\ \A i \in 1..n : Complete(bs[i], ts)
  BY PrefixIs DEF BatchesOK
<1>2. /\ batches' = SubSeq(bs, n + 1, Len(bs))
      /\ IF n = 0 THEN UNCHANGED saved /\ NoFault ELSE Save(bs[n].ts)
  BY DEF Advance
<1>. HIDE DEF n
<1>3. /\ BatchesOK(batches', ts) /\ Ordered(batches', ts, Over)
      /\ n # 0 => bs[n].ts \in Positions /\ \A e \in 1..bs[n].ts : e \in Over
      /\ \A e : Covered(e, bs, Len(bs), ts, Over) => Covered(e, batches', Len(batches'), ts, Over)
  <2>1. batches' = SubSeq(bs, n + 1, Len(bs))
    BY <1>2
  <2>2. BatchesOK(batches', ts)
    BY <1>1, <2>1, Advances
  <2>3. Ordered(batches', ts, Over)
    BY <1>1, <2>1, Advances
  <2>4. n # 0 => bs[n].ts \in Positions /\ \A e \in 1..bs[n].ts : e \in Over
    BY <1>1, <2>1, Advances
  <2>5. CoverKept(bs, batches', ts, Over)
    BY <1>1, <2>1, Advances
  <2>6. QED BY <2>2, <2>3, <2>4, <2>5 DEF CoverKept
<1>4. saved = NoPosition \/ (saved \in Positions /\ \A e \in 1..saved : e \in Over)
  BY DEF TypeOK, NothingSkipped, Over
<1>5. faults \in Nat
  BY DEF TypeOK
<1>6. CASE n = 0
  BY <1>2, <1>3, <1>4, <1>5, <1>6 DEF NoFault
<1>7. CASE n # 0
  <2>1. Save(bs[n].ts)
    BY <1>2, <1>7
  <2>2. faults' \in Nat /\ (saved' = saved \/ saved' = bs[n].ts)
    BY <1>5, <2>1 DEF Save, Fault, NoFault
  <2>3. saved' = NoPosition \/ (saved' \in Positions /\ \A e \in 1..saved' : e \in Over)
    BY <1>3, <1>4, <1>7, <2>2
  <2>4. QED BY <1>3, <2>2, <2>3
<1>8. QED BY <1>6, <1>7

LEMMA HandlerDoneKeeps == ASSUME PollInv, HandlerDone PROVE PollInv'
<1>1. /\ Advance(batches, tasks)
      /\ UNCHANGED <<newest, process, connected, position, tasks, seen, lockOf, handled, gone>>
      /\ TypeOK /\ QueueInv /\ NothingSkipped
  BY DEF HandlerDone, PollInv, QueueInv
<1>2. tasks \in Seq(Task) /\ DOMAIN tasks = 1..Len(tasks) /\ BatchesOK(batches, tasks) /\ Ordered(batches, tasks, Over)
  BY <1>1, TypeFacts DEF QueueInv
<1>3. /\ BatchesOK(batches', tasks) /\ Ordered(batches', tasks, Over)
      /\ \A e : Covered(e, batches, Len(batches), tasks, Over) => Covered(e, batches', Len(batches'), tasks, Over)
      /\ saved' = NoPosition \/ (saved' \in Positions /\ \A e \in 1..saved' : e \in Over)
      /\ faults' \in Nat
  BY <1>1, <1>2, AdvanceKeeps
<1>4. Over' = Over
  BY <1>1 DEF Over
<1>5. batches' \in Seq(Batch) /\ \A i \in DOMAIN batches' : batches'[i].tasks \subseteq DOMAIN tasks
  BY <1>2, <1>3 DEF BatchesOK
<1>6. TypeOK'
  BY <1>1, <1>3, <1>5 DEF TypeOK
<1>7. QueueInv'
  BY <1>1, <1>3, <1>4 DEF QueueInv, NothingSkipped, Over
<1>8. QED BY <1>1, <1>6, <1>7 DEF PollInv, WindowInv, Current

LEMMA ReceiveKeeps == ASSUME PollInv, NEW ts \in 0..newest, Receive(ts) PROVE PollInv'
<1>. DEFINE so == Dispatched(ts)
            all == Append(batches, [ts |-> ts, tasks |-> Len(tasks) + 1 .. Len(tasks')])
<1>1. /\ position <= ts /\ position' = ts /\ tasks' = so.tasks /\ seen' = so.seen /\ Advance(all, tasks')
      /\ UNCHANGED <<newest, process, connected, lockOf, handled, gone>> /\ position # NoPosition
      /\ TypeOK /\ QueueInv /\ NothingSkipped /\ WindowInv
  BY DEF Receive, PollInv, QueueInv
<1>2. /\ newest \in Nat /\ newest <= LastUpdate /\ LastUpdate \in Nat /\ Positions \subseteq Nat
      /\ NoPosition \notin Positions /\ tasks \in Seq(Task) /\ Len(tasks) \in Nat /\ BatchesOK(batches, tasks)
      /\ position \in Positions
  BY <1>1, TypeFacts DEF TypeOK
<1>3. ts \in Positions /\ position \in Nat
  BY <1>2 DEF Positions
<1>4. Brought(so, ts)
  BY <1>1, <1>3, DispatchedBrings DEF WindowInv
<1>5. Over' = Over
  BY <1>1 DEF Over
<1>. HIDE DEF so, all
<1>6. /\ tasks' \in Seq(Task) /\ seen' \in Seq(Updates) /\ Continues(tasks, tasks') /\ FarApart(tasks')
      /\ \A n \in (position + 1)..ts : \E t \in DOMAIN tasks' : tasks'[t].update = n
  BY <1>1, <1>4 DEF Brought, Window
<1>7. Current' = [seen |-> so.seen, tasks |-> so.tasks]
  BY <1>1 DEF Current
<1>8. WindowInv'
  BY <1>4, <1>6, <1>7 DEF WindowInv, Brought, Window
<1>9. /\ BatchesOK(all, tasks') /\ Ordered(all, tasks', Over)
      /\ \A e \in 1..ts : Covered(e, all, Len(all), tasks', Over)
  <2>1. Ordered(batches, tasks, Over) /\ \A e \in 1..position : Covered(e, batches, Len(batches), tasks, Over)
    BY <1>1 DEF QueueInv
  <2>2. all = Append(batches, [ts |-> ts, tasks |-> Len(tasks) + 1 .. Len(tasks')])
    BY DEF all
  <2>3. position <= ts /\ tasks \in Seq(Task) /\ BatchesOK(batches, tasks)
    BY <1>1, <1>2
  <2>4. QED BY <1>3, <1>6, <2>1, <2>2, <2>3, Joins
<1>10. /\ BatchesOK(batches', tasks') /\ Ordered(batches', tasks', Over)
       /\ \A e : Covered(e, all, Len(all), tasks', Over) => Covered(e, batches', Len(batches'), tasks', Over)
       /\ saved' = NoPosition \/ (saved' \in Positions /\ \A e \in 1..saved' : e \in Over)
       /\ faults' \in Nat
  BY <1>1, <1>6, <1>9, AdvanceKeeps
<1>11. DOMAIN tasks' = 1..Len(tasks') /\ Len(tasks) <= Len(tasks') /\ Len(tasks') \in Nat
  BY <1>6 DEF Continues
<1>12. batches' \in Seq(Batch) /\ \A i \in DOMAIN batches' : batches'[i].tasks \subseteq DOMAIN tasks'
  BY <1>10, <1>11 DEF BatchesOK
<1>13. Len(seen') <= DedupSize
  <2>1. Len(seen') = IF Len(tasks') < DedupSize THEN Len(tasks') ELSE DedupSize
    BY <1>1, <1>4 DEF Brought, Window
  <2>2. QED BY <1>11, <2>1, UpdatesAssumption
<1>14. lockOf' \in [Peers -> 0..Len(tasks')]
  <2>1. lockOf \in [Peers -> 0..Len(tasks)] /\ 0..Len(tasks) \subseteq 0..Len(tasks')
    BY <1>1, <1>2, <1>11 DEF TypeOK
  <2>2. QED BY <1>1, <2>1
<1>15. TypeOK'
  BY <1>1, <1>3, <1>6, <1>10, <1>12, <1>13, <1>14 DEF TypeOK
<1>16. QueueInv'
  BY <1>1, <1>5, <1>9, <1>10 DEF QueueInv, NothingSkipped, Over
<1>17. QED BY <1>1, <1>2, <1>3, <1>8, <1>15, <1>16 DEF PollInv

LEMMA NextPollInv == PollInv /\ [Next]_vars => PollInv'
<1>. SUFFICES ASSUME PollInv, [Next]_vars PROVE PollInv'
  OBVIOUS
<1>1. ASSUME NEW t \in DOMAIN tasks, Begin(t) \/ Resume(t) \/ HandlerEnds(t) \/ Cancel(t) PROVE PollInv'
  BY <1>1, HandlingMoves, MovesKeep DEF PollInv
<1>2. CASE Stopped \/ Crash
  <2>1. /\ NoMemory /\ TypeOK /\ NothingSkipped /\ UNCHANGED <<newest, saved, handled, gone>> /\ process' = "down"
    BY <1>2 DEF Stopped, Crash, PollInv, QueueInv
  <2>2. faults' \in Nat
    BY <1>2, <2>1 DEF Stopped, Crash, Fault, TypeOK
  <2>3. QED BY <2>1, <2>2, Forgotten
<1>3. CASE Polling
  BY <1>3, ConnectKeeps, RestKeeps, HistoryLostKeeps, ReceiveKeeps DEF Polling
<1>4. QED BY <1>1, <1>2, <1>3, RestKeeps, HandlerDoneKeeps DEF Next, Handling

-----------------------------------------------------------------------------
(* The dialogues *)

(* There are no more dialogues than locks that are kept. *)
EnoughLocks == Cardinality(Peers) <= LockLimit

PeerOf(t) == Dialogue[tasks[t].update]
AtWork(t) == tasks[t].pc \in {"queued", "running"}

(* Tasks begin in the order of their creation, those of a dialogue with one lock. *)
LockInv ==
  /\ \A t, u \in DOMAIN tasks : t < u /\ tasks[t].pc = "new" => tasks[u].pc \in {"new", "cancelled"}
  /\ \A t \in DOMAIN tasks : AtWork(t) /\ PeerOf(t) # NoPeer =>
       lockOf[PeerOf(t)] # 0 /\ tasks[t].lock = lockOf[PeerOf(t)]
  /\ DialogueOneByOne

LEMMA PeersAreFinite == IsFiniteSet(Peers)
<1>. DEFINE all == {Dialogue[e] : e \in Updates}
            f == [e \in Updates |-> Dialogue[e]]
<1>1. LastUpdate \in Int /\ 1 \in Int
  BY UpdatesAssumption
<1>2. IsFiniteSet(Updates)
  BY <1>1, FS_Interval DEF Updates
<1>3. f \in Surjection(Updates, all)
  BY DEF Surjection
<1>4. IsFiniteSet(all)
  BY <1>2, <1>3, FS_Surjection
<1>5. Peers \in SUBSET all
  BY DEF Peers
<1>6. QED BY <1>4, <1>5, FS_Subset

(* No lock is dropped. *)
LEMMA LocksAreKept ==
  ASSUME EnoughLocks, TypeOK, NEW t \in DOMAIN tasks, NEW p \in Peers
  PROVE  LocksFor(t, p) = IF lockOf[p] # 0 THEN lockOf ELSE [lockOf EXCEPT ![p] = t]
<1>. DEFINE S == {r \in Peers : lockOf[r] # 0}
<1>1. S \in SUBSET Peers /\ LockLimit \in Nat
  BY UpdatesAssumption
<1>2. Cardinality(S) <= Cardinality(Peers) /\ IsFiniteSet(S)
  BY <1>1, PeersAreFinite, FS_Subset
<1>3. Cardinality(S) \in Nat /\ Cardinality(Peers) \in Nat
  BY <1>2, PeersAreFinite, FS_CardinalityType
<1>4. ~(Cardinality(S) > LockLimit)
  BY <1>1, <1>2, <1>3 DEF EnoughLocks
<1>5. lockOf \in [Peers -> 0..Len(tasks)]
  BY DEF TypeOK
<1>6. QED BY <1>4, <1>5 DEF LocksFor

LEMMA TypedTasks ==
  ASSUME TypeOK, NEW t \in DOMAIN tasks
  PROVE  /\ tasks[t] \in Task /\ t # 0 /\ t \in Nat
         /\ PeerOf(t) # NoPeer => PeerOf(t) \in Peers
<1>1. tasks \in Seq(Task) /\ t \in 1..Len(tasks) /\ Len(tasks) \in Nat
  BY TypeFacts
<1>2. tasks[t] \in Task
  BY <1>1, ElementOfSeq
<1>3. tasks[t].update \in Updates
  BY <1>2 DEF Task
<1>4. QED BY <1>1, <1>2, <1>3 DEF Peers, PeerOf

(* A task that ends, by itself or by cancellation, holds up no other one. *)
LEMMA EndingKeeps ==
  ASSUME TypeOK, LockInv, NEW t \in DOMAIN tasks, HandlerEnds(t) \/ Cancel(t)
  PROVE  LockInv'
<1>1. PICK pc \in {"done", "cancelled"} :
        tasks' = [tasks EXCEPT ![t].pc = pc] /\ (pc = "done" => tasks[t].pc = "running")
  BY DEF HandlerEnds, Cancel
<1>2. lockOf' = lockOf
  BY DEF HandlerEnds, Cancel
<1>3. /\ DOMAIN tasks' = DOMAIN tasks
      /\ \A u \in DOMAIN tasks : u # t => tasks'[u] = tasks[u]
      /\ tasks'[t] = [tasks[t] EXCEPT !.pc = pc]
  BY <1>1
<1>4. tasks'[t].pc = pc /\ tasks'[t].update = tasks[t].update /\ tasks'[t].lock = tasks[t].lock
  BY <1>3, TypedTasks DEF Task
<1>5. \A u \in DOMAIN tasks : PeerOf(u)' = PeerOf(u)
  BY <1>3, <1>4 DEF PeerOf
<1>6. ASSUME NEW u \in DOMAIN tasks, NEW w \in DOMAIN tasks, u < w, tasks'[u].pc = "new"
      PROVE  tasks'[w].pc \in {"new", "cancelled"}
  <2>1. u # t /\ tasks[u].pc = "new"
    BY <1>1, <1>3, <1>4, <1>6
  <2>2. tasks[w].pc \in {"new", "cancelled"}
    BY <1>6, <2>1 DEF LockInv
  <2>3. QED BY <1>1, <1>3, <1>4, <2>2
<1>7. ASSUME NEW u \in DOMAIN tasks, AtWork(u)', PeerOf(u)' # NoPeer
      PROVE  lockOf'[PeerOf(u)'] # 0 /\ tasks'[u].lock = lockOf'[PeerOf(u)']
  <2>1. u # t /\ AtWork(u)
    BY <1>1, <1>3, <1>4, <1>7 DEF AtWork
  <2>2. QED BY <1>2, <1>3, <1>5, <1>7, <2>1 DEF LockInv
<1>8. ASSUME NEW u \in DOMAIN tasks, NEW w \in DOMAIN tasks, u < w, PeerOf(u)' = PeerOf(w)',
             PeerOf(u)' # NoPeer, tasks'[w].pc \in {"running", "done"}
      PROVE  Ended(u)'
  <2>1. tasks[w].pc \in {"running", "done"}
    BY <1>1, <1>3, <1>4, <1>8
  <2>2. Ended(u)
    BY <1>5, <1>8, <2>1 DEF LockInv, DialogueOneByOne, PeerOf
  <2>3. QED BY <1>1, <1>3, <1>4, <2>2 DEF Ended
<1>9. DialogueOneByOne'
  BY <1>3, <1>8 DEF DialogueOneByOne, PeerOf
<1>10. QED BY <1>3, <1>6, <1>7, <1>9 DEF LockInv

(* A task that resumes was the first of those that wait for its lock. *)
LEMMA ResumeKeeps ==
  ASSUME TypeOK, LockInv, NEW t \in DOMAIN tasks, Resume(t)
  PROVE  LockInv'
<1>1. /\ tasks' = [tasks EXCEPT ![t].pc = "running"] /\ tasks[t].pc = "queued" /\ lockOf' = lockOf
      /\ ~Held(tasks[t].lock) /\ \A u \in Waiting(tasks[t].lock) : t <= u
  BY DEF Resume
<1>2. /\ DOMAIN tasks' = DOMAIN tasks
      /\ \A u \in DOMAIN tasks : u # t => tasks'[u] = tasks[u]
      /\ tasks'[t] = [tasks[t] EXCEPT !.pc = "running"]
  BY <1>1
<1>3. tasks'[t].pc = "running" /\ tasks'[t].update = tasks[t].update /\ tasks'[t].lock = tasks[t].lock
  BY <1>2, TypedTasks DEF Task
<1>4. \A u \in DOMAIN tasks : PeerOf(u)' = PeerOf(u)
  BY <1>2, <1>3 DEF PeerOf
<1>5. ASSUME NEW u \in DOMAIN tasks, NEW w \in DOMAIN tasks, u < w, tasks'[u].pc = "new"
      PROVE  tasks'[w].pc \in {"new", "cancelled"}
  <2>1. u # t /\ tasks[u].pc = "new"
    BY <1>2, <1>3, <1>5
  <2>2. tasks[w].pc \in {"new", "cancelled"}
    BY <1>5, <2>1 DEF LockInv
  <2>3. QED BY <1>1, <1>2, <2>2
<1>6. ASSUME NEW u \in DOMAIN tasks, AtWork(u)', PeerOf(u)' # NoPeer
      PROVE  lockOf'[PeerOf(u)'] # 0 /\ tasks'[u].lock = lockOf'[PeerOf(u)']
  <2>1. AtWork(u)
    BY <1>1, <1>2, <1>6 DEF AtWork
  <2>2. QED BY <1>1, <1>2, <1>3, <1>4, <1>6, <2>1 DEF LockInv
<1>7. ASSUME NEW u \in DOMAIN tasks, u < t, PeerOf(u) = PeerOf(t), PeerOf(u) # NoPeer, ~Ended(u)
      PROVE  FALSE
  <2>1. tasks[u].pc # "new"
    BY <1>1, <1>7 DEF LockInv
  <2>2. AtWork(u) /\ AtWork(t)
    BY <1>1, <1>7, <2>1, TypedTasks DEF AtWork, Ended, Task
  <2>3. tasks[u].lock = tasks[t].lock
    BY <1>7, <2>2 DEF LockInv
  <2>4. CASE tasks[u].pc = "running"
    BY <1>1, <2>3, <2>4 DEF Held
  <2>5. CASE tasks[u].pc = "queued"
    <3>1. t <= u
      BY <1>1, <2>3, <2>5 DEF Waiting
    <3>2. t \in Nat /\ u \in Nat
      BY TypedTasks
    <3>3. QED BY <1>7, <3>1, <3>2
  <2>6. QED BY <2>2, <2>4, <2>5 DEF AtWork
<1>8. ASSUME NEW u \in DOMAIN tasks, NEW w \in DOMAIN tasks, u < w, PeerOf(u)' = PeerOf(w)',
             PeerOf(u)' # NoPeer, tasks'[w].pc \in {"running", "done"}
      PROVE  Ended(u)'
  <2>1. Ended(u)
    <3>1. CASE w = t
      BY <1>4, <1>7, <1>8, <3>1
    <3>2. CASE w # t
      BY <1>2, <1>4, <1>8, <3>2 DEF LockInv, DialogueOneByOne, PeerOf
    <3>3. QED BY <3>1, <3>2
  <2>2. QED BY <1>1, <1>2, <2>1 DEF Ended
<1>9. DialogueOneByOne'
  BY <1>2, <1>8 DEF DialogueOneByOne, PeerOf
<1>10. QED BY <1>2, <1>5, <1>6, <1>9 DEF LockInv

(* A task that begins queues behind those of its dialogue. *)
LEMMA BeginKeeps ==
  ASSUME EnoughLocks, TypeOK, LockInv, NEW t \in DOMAIN tasks, Begin(t)
  PROVE  LockInv'
<1>. DEFINE p == PeerOf(t)
<1>1. tasks[t].pc = "new" /\ \A u \in 1..(t - 1) : tasks[u].pc # "new"
  BY DEF Begin
<1>2. /\ \A u \in DOMAIN tasks : u \in Nat /\ tasks[u] \in Task /\ (PeerOf(u) # NoPeer => PeerOf(u) \in Peers)
      /\ DOMAIN tasks = 1..Len(tasks) /\ Len(tasks) \in Nat
      /\ lockOf \in [Peers -> 0..Len(tasks)]
  BY TypedTasks, TypeFacts DEF TypeOK
<1>3. PICK to : /\ tasks' = [tasks EXCEPT ![t] = to] /\ to.update = tasks[t].update
                /\ to.pc \in {"running", "queued"}
                /\ p = NoPeer => lockOf' = lockOf
                /\ p # NoPeer =>
                     /\ lockOf' = LocksFor(t, p) /\ to.lock = LocksFor(t, p)[p]
                     /\ Held(to.lock) \/ Waiting(to.lock) # {} => to.pc = "queued"
  <2>1. CASE p = NoPeer
    <3>1. tasks' = [tasks EXCEPT ![t] = [tasks[t] EXCEPT !.pc = "running"]] /\ lockOf' = lockOf
      BY <2>1 DEF Begin, PeerOf
    <3>2. [tasks[t] EXCEPT !.pc = "running"].update = tasks[t].update /\ [tasks[t] EXCEPT !.pc = "running"].pc = "running"
      BY <1>2 DEF Task
    <3>3. QED BY <2>1, <3>1, <3>2
  <2>2. CASE p # NoPeer
    <3>. DEFINE lock == LocksFor(t, p)[p]
                pc == IF Held(lock) \/ Waiting(lock) # {} THEN "queued" ELSE "running"
    <3>1. lockOf' = LocksFor(t, p) /\ tasks' = [tasks EXCEPT ![t] = [tasks[t] EXCEPT !.lock = lock, !.pc = pc]]
      BY <2>2 DEF Begin, PeerOf
    <3>2. pc \in {"running", "queued"} /\ (Held(lock) \/ Waiting(lock) # {} => pc = "queued")
      OBVIOUS
    <3>3. ASSUME NEW l, NEW c
          PROVE  /\ [tasks[t] EXCEPT !.lock = l, !.pc = c].update = tasks[t].update
                 /\ [tasks[t] EXCEPT !.lock = l, !.pc = c].lock = l
                 /\ [tasks[t] EXCEPT !.lock = l, !.pc = c].pc = c
      BY <1>2 DEF Task
    <3>. DEFINE next == [tasks[t] EXCEPT !.lock = lock, !.pc = pc]
    <3>4. next.update = tasks[t].update /\ next.lock = lock /\ next.pc = pc
      BY <3>3
    <3>5. tasks' = [tasks EXCEPT ![t] = next]
      BY <3>1
    <3>. HIDE DEF next, pc
    <3>6. QED BY <2>2, <3>1, <3>2, <3>4, <3>5
  <2>3. QED BY <2>1, <2>2
<1>4. /\ DOMAIN tasks' = DOMAIN tasks /\ tasks'[t] = to
      /\ \A u \in DOMAIN tasks : u # t => tasks'[u] = tasks[u]
  BY <1>3
<1>5. \A u \in DOMAIN tasks : PeerOf(u)' = PeerOf(u)
  BY <1>3, <1>4 DEF PeerOf
<1>6. ASSUME NEW q \in Peers, lockOf[q] # 0
      PROVE  lockOf'[q] = lockOf[q]
  BY <1>2, <1>3, <1>6, LocksAreKept
<1>7. ASSUME p # NoPeer PROVE to.lock = lockOf'[p] /\ lockOf'[p] # 0
  <2>1. p \in Peers /\ t # 0
    BY <1>2, <1>7
  <2>2. LocksFor(t, p) = IF lockOf[p] # 0 THEN lockOf ELSE [lockOf EXCEPT ![p] = t]
    BY <2>1, LocksAreKept
  <2>3. LocksFor(t, p)[p] # 0
    BY <1>2, <2>1, <2>2
  <2>4. QED BY <1>3, <1>7, <2>3
<1>. HIDE DEF p
<1>8. ASSUME NEW u \in DOMAIN tasks, NEW w \in DOMAIN tasks, u < w, tasks'[u].pc = "new"
      PROVE  tasks'[w].pc \in {"new", "cancelled"}
  <2>1. u # t /\ tasks[u].pc = "new"
    BY <1>3, <1>4, <1>8
  <2>2. w # t
    BY <1>1, <1>2, <1>8, <2>1
  <2>3. QED BY <1>4, <1>8, <2>1, <2>2 DEF LockInv
<1>9. ASSUME NEW u \in DOMAIN tasks, AtWork(u)', PeerOf(u)' # NoPeer
      PROVE  lockOf'[PeerOf(u)'] # 0 /\ tasks'[u].lock = lockOf'[PeerOf(u)']
  <2>1. CASE u = t
    BY <1>4, <1>5, <1>7, <1>9, <2>1 DEF p
  <2>2. CASE u # t
    <3>1. AtWork(u) /\ PeerOf(u) # NoPeer /\ PeerOf(u) \in Peers /\ PeerOf(u)' = PeerOf(u) /\ tasks'[u] = tasks[u]
      BY <1>2, <1>4, <1>5, <1>9, <2>2 DEF AtWork
    <3>2. lockOf[PeerOf(u)] # 0 /\ tasks[u].lock = lockOf[PeerOf(u)]
      BY <3>1 DEF LockInv
    <3>3. QED BY <1>6, <3>1, <3>2
  <2>3. QED BY <2>1, <2>2
<1>10. ASSUME NEW u \in DOMAIN tasks, u < t, PeerOf(u) = p, p # NoPeer, ~Ended(u)
       PROVE  to.pc = "queued"
  <2>1. u \in 1..(t - 1)
    BY <1>2, <1>10
  <2>2. AtWork(u)
    BY <1>1, <1>2, <1>10, <2>1 DEF AtWork, Ended, Task
  <2>3. lockOf[p] # 0 /\ tasks[u].lock = lockOf[p] /\ p \in Peers
    BY <1>2, <1>10, <2>2 DEF LockInv
  <2>4. tasks[u].lock = to.lock
    BY <1>6, <1>7, <1>10, <2>3
  <2>5. Held(to.lock) \/ Waiting(to.lock) # {}
    BY <2>2, <2>4 DEF AtWork, Held, Waiting
  <2>6. QED BY <1>3, <1>10, <2>5
<1>11. ASSUME NEW u \in DOMAIN tasks, NEW w \in DOMAIN tasks, u < w, PeerOf(u)' = PeerOf(w)',
              PeerOf(u)' # NoPeer, tasks'[w].pc \in {"running", "done"}
       PROVE  Ended(u)'
  <2>1. Ended(u)
    <3>1. CASE w = t
      <4>1. SUFFICES ASSUME ~Ended(u) PROVE FALSE
        OBVIOUS
      <4>2. PeerOf(u) = p /\ p # NoPeer
        BY <1>5, <1>11, <3>1 DEF p
      <4>3. to.pc = "queued"
        BY <1>10, <1>11, <3>1, <4>1, <4>2
      <4>4. QED BY <1>4, <1>11, <3>1, <4>3
    <3>2. CASE w # t
      BY <1>4, <1>5, <1>11, <3>2 DEF LockInv, DialogueOneByOne, PeerOf
    <3>3. QED BY <3>1, <3>2
  <2>2. u # t
    BY <1>1, <2>1 DEF Ended
  <2>3. QED BY <1>4, <2>1, <2>2 DEF Ended
<1>12. DialogueOneByOne'
  BY <1>4, <1>11 DEF DialogueOneByOne, PeerOf
<1>13. QED BY <1>4, <1>8, <1>9, <1>12 DEF LockInv

(* The tasks of an answer have not begun. *)
LEMMA AnswerKeeps ==
  ASSUME PollInv, LockInv, NEW ts \in 0..newest, Receive(ts)
  PROVE  LockInv'
<1>1. /\ tasks' = Dispatched(ts).tasks /\ lockOf' = lockOf /\ position <= ts /\ position # NoPosition /\ TypeOK
      /\ WindowInv
  BY DEF Receive, PollInv
<1>2. ts \in Positions /\ position \in Nat
  BY <1>1, TypeFacts DEF TypeOK, Positions
<1>3. Continues(tasks, tasks') /\ tasks' \in Seq(Task)
  BY <1>1, <1>2, DispatchedBrings DEF WindowInv, Brought, Window
<1>4. /\ DOMAIN tasks = 1..Len(tasks) /\ Len(tasks) \in Nat /\ DOMAIN tasks' = 1..Len(tasks') /\ Len(tasks') \in Nat
      /\ Len(tasks) <= Len(tasks')
  BY <1>1, <1>3, TypeFacts DEF Continues
<1>5. ASSUME NEW t \in DOMAIN tasks'
      PROVE  \/ t \in DOMAIN tasks /\ tasks'[t] = tasks[t] /\ t <= Len(tasks)
             \/ t > Len(tasks) /\ tasks'[t].pc = "new" /\ t \notin DOMAIN tasks
  BY <1>3, <1>4 DEF Continues
<1>6. ASSUME NEW t \in DOMAIN tasks', NEW u \in DOMAIN tasks', t < u, u \in DOMAIN tasks
      PROVE  t \in DOMAIN tasks
  BY <1>4, <1>6
<1>7. \A t \in DOMAIN tasks : PeerOf(t)' = PeerOf(t)
  BY <1>3, <1>4 DEF Continues, PeerOf
<1>8. ASSUME NEW t \in DOMAIN tasks', NEW u \in DOMAIN tasks', t < u, tasks'[t].pc = "new"
      PROVE  tasks'[u].pc \in {"new", "cancelled"}
  BY <1>5, <1>6, <1>8 DEF LockInv
<1>9. ASSUME NEW t \in DOMAIN tasks', AtWork(t)', PeerOf(t)' # NoPeer
      PROVE  lockOf'[PeerOf(t)'] # 0 /\ tasks'[t].lock = lockOf'[PeerOf(t)']
  <2>1. t \in DOMAIN tasks /\ tasks'[t] = tasks[t]
    BY <1>5, <1>9 DEF AtWork
  <2>2. QED BY <1>1, <1>7, <1>9, <2>1 DEF AtWork, LockInv
<1>10. ASSUME NEW t \in DOMAIN tasks', NEW u \in DOMAIN tasks', t < u, PeerOf(t)' = PeerOf(u)',
              PeerOf(t)' # NoPeer, tasks'[u].pc \in {"running", "done"}
       PROVE  Ended(t)'
  <2>1. u \in DOMAIN tasks /\ tasks'[u] = tasks[u]
    BY <1>5, <1>10
  <2>2. t \in DOMAIN tasks /\ tasks'[t] = tasks[t]
    BY <1>5, <1>6, <1>10, <2>1
  <2>3. Ended(t)
    BY <1>7, <1>10, <2>1, <2>2 DEF LockInv, DialogueOneByOne, PeerOf
  <2>4. QED BY <2>2, <2>3 DEF Ended
<1>11. DialogueOneByOne'
  BY <1>10 DEF DialogueOneByOne, PeerOf
<1>12. QED BY <1>8, <1>9, <1>11 DEF LockInv

LEMMA NextLockInv == EnoughLocks /\ PollInv /\ LockInv /\ [Next]_vars => LockInv'
<1>. SUFFICES ASSUME EnoughLocks, PollInv, LockInv, [Next]_vars PROVE LockInv'
  OBVIOUS
<1>1. TypeOK
  BY DEF PollInv
<1>2. ASSUME UNCHANGED <<tasks, lockOf>> PROVE LockInv'
  BY <1>2 DEF LockInv, AtWork, PeerOf, DialogueOneByOne, Ended
<1>3. CASE Stopped \/ Crash
  <2>1. tasks' = <<>> /\ DOMAIN <<>> = {}
    BY <1>3 DEF Stopped, Crash, NoMemory
  <2>2. QED BY <2>1 DEF LockInv, DialogueOneByOne
<1>4. CASE Arrive \/ Connect \/ Disconnect \/ Stop \/ Start \/ HandlerDone \/ UNCHANGED vars
  BY <1>2, <1>4 DEF Arrive, Connect, Disconnect, Stop, Start, HandlerDone, vars
<1>5. ASSUME NEW ts \in 0..newest, HistoryLost(ts) PROVE LockInv'
  BY <1>2, <1>5 DEF HistoryLost
<1>6. CASE Handling
  BY <1>1, <1>6, BeginKeeps, ResumeKeeps, EndingKeeps DEF Handling
<1>7. CASE Polling
  BY <1>4, <1>5, <1>7, AnswerKeeps DEF Polling
<1>8. QED BY <1>3, <1>4, <1>6, <1>7 DEF Next

-----------------------------------------------------------------------------
(* Theorems *)

(* The variables have their types (vk_runtime.py). *)
THEOREM TypeCorrect == Spec => []TypeOK
<1>1. PollInv => TypeOK
  BY DEF PollInv
<1>2. QED BY <1>1, InitPollInv, NextPollInv, PTL DEF Spec

(* A restart loses no update: whatever lies before the position in the file *)
(* was handled to its end, or VK itself no longer had it (vk_runtime.py,    *)
(* advance_checkpoint and save_checkpoint).                                 *)
THEOREM RestartsSkipNothing == Spec => []NothingSkipped
<1>1. PollInv => NothingSkipped
  BY DEF PollInv, QueueInv
<1>2. QED BY <1>1, InitPollInv, NextPollInv, PTL DEF Spec

(* An update that VK gives again is handled again in the same process only *)
(* when dedup_size other tasks lie between (vk_runtime.py, is_duplicate).  *)
THEOREM RepeatsAreRare == Spec => []RepeatsFarApart
<1>1. PollInv => RepeatsFarApart
  BY DEF PollInv, WindowInv, FarApart, RepeatsFarApart
<1>2. QED BY <1>1, InitPollInv, NextPollInv, PTL DEF Spec

(* The updates of one dialogue are handled one after another in their      *)
(* order, as long as no lock is dropped (vk_runtime.py, _lock_for): with    *)
(* more dialogues than locks they are not, as a run shows.                 *)
THEOREM DialoguesInOrder ==
  ASSUME EnoughLocks
  PROVE  Spec => []DialogueOneByOne
<1>1. Init => LockInv
  <2>. SUFFICES ASSUME Init PROVE LockInv
    OBVIOUS
  <2>1. tasks = <<>> /\ DOMAIN <<>> = {}
    BY DEF Init
  <2>2. QED BY <2>1 DEF LockInv, DialogueOneByOne
<1>2. PollInv /\ LockInv /\ [Next]_vars => LockInv'
  BY NextLockInv
<1>3. LockInv => DialogueOneByOne
  BY DEF LockInv
<1>4. QED BY <1>1, <1>2, <1>3, InitPollInv, NextPollInv, PTL DEF Spec
=============================================================================
