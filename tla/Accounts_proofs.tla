--------------------------- MODULE Accounts_proofs ---------------------------
(***************************************************************************)
(* Proofs about accounts, for every number of users, sources and link      *)
(* requests.  LinkInv is about identities, accounts and requests, and      *)
(* FollowInv about subscriptions: what each account has, what the rows of  *)
(* `users` show of it, and what the requests of the mini app hold of what  *)
(* they read.                                                              *)
(***************************************************************************)
EXTENDS Accounts, WellFoundedInduction, FiniteSetTheorems, TLAPS

-----------------------------------------------------------------------------
(* Helpers of the model *)

LEMMA LeastExists ==
  ASSUME NEW S, S \subseteq Nat, S # {}
  PROVE  \E n \in S : \A m \in S : n <= m
<1>. DEFINE Less == OpToRel(<, Nat)
<1>1. IsWellFoundedOn(Less, Nat)
  BY NatLessThanWellFounded
<1>. HIDE DEF Less
<1>2. PICK n \in S : \A m \in S : <<m, n>> \notin Less
  BY <1>1, WFMin
<1>3. \A m \in S : ~(m < n)
  BY <1>2 DEF Less, OpToRel
<1>4. QED BY <1>3

(* The greatest number of a finite set: of the finite sets without one the *)
(* smallest would have a smaller one.                                      *)
LEMMA MostExists ==
  ASSUME NEW S, S \subseteq Nat, S # {}, IsFiniteSet(S)
  PROVE  Max(S) \in S
<1>. DEFINE Bad(T) == T # {} /\ ~\E n \in T : \A m \in T : n >= m
            Sizes == {Cardinality(T) : T \in {T \in SUBSET S : Bad(T)}}
<1>1. \A T \in SUBSET S : IsFiniteSet(T) /\ Cardinality(T) \in Nat
  BY FS_Subset, FS_CardinalityType
<1>2. SUFFICES ASSUME Bad(S) PROVE FALSE
  BY DEF Max
<1>3. Sizes \subseteq Nat /\ Sizes # {}
  BY <1>1, <1>2
<1>4. PICK T \in SUBSET S : Bad(T) /\ \A U \in SUBSET S : Bad(U) => Cardinality(T) <= Cardinality(U)
  <2>1. PICK c \in Sizes : \A d \in Sizes : c <= d
    BY <1>3, LeastExists
  <2>2. PICK T \in SUBSET S : Bad(T) /\ c = Cardinality(T)
    BY <2>1
  <2>3. \A U \in SUBSET S : Bad(U) => Cardinality(U) \in Sizes
    OBVIOUS
  <2>. HIDE DEF Bad, Sizes
  <2>4. QED BY <2>1, <2>2, <2>3
<1>5. PICK x \in T : TRUE
  BY <1>4
<1>6. PICK U : U = T \ {x}
  OBVIOUS
<1>7. Cardinality(U) = Cardinality(T) - 1 /\ U \in SUBSET S
  BY <1>1, <1>5, <1>6, FS_RemoveElement
<1>8. ~Bad(U)
  BY <1>1, <1>4, <1>7
<1>9. CASE U = {}
  <2>1. T = {x} /\ x \in Nat
    BY <1>5, <1>6, <1>9
  <2>2. QED BY <1>4, <2>1
<1>10. CASE U # {}
  <2>1. PICK n \in U : \A m \in U : n >= m
    BY <1>8, <1>10
  <2>2. n \in T /\ x \in Nat /\ n \in Nat /\ \A m \in T : m = x \/ n >= m
    BY <1>5, <1>6, <2>1
  <2>3. T \subseteq Nat
    OBVIOUS
  <2>4. CASE n >= x
    BY <1>4, <2>2, <2>4
  <2>5. CASE x > n
    <3>1. \A m \in T : x >= m
      BY <2>2, <2>3, <2>5
    <3>2. QED BY <1>4, <1>5, <3>1
  <2>6. QED BY <2>2, <2>4, <2>5
<1>11. QED BY <1>9, <1>10

Single(S) == \A x, y \in S : x = y

LEMMA SingleByCount ==
  ASSUME NEW S, IsFiniteSet(S)
  PROVE  Single(S) <=> Cardinality(S) <= 1
<1>1. CASE S = {}
  BY <1>1, FS_EmptySet DEF Single
<1>2. CASE S # {}
  <2>1. PICK x \in S : TRUE
    BY <1>2
  <2>2. PICK T : T = S \ {x}
    OBVIOUS
  <2>3. IsFiniteSet(T) /\ Cardinality(T) = Cardinality(S) - 1 /\ Cardinality(S) \in Nat /\ Cardinality(T) \in Nat
    BY <2>1, <2>2, FS_RemoveElement, FS_CardinalityType
  <2>4. Cardinality(S) <= 1 <=> Cardinality(T) = 0
    BY <2>3
  <2>5. Cardinality(T) = 0 <=> T = {}
    BY <2>3, FS_EmptySet
  <2>6. T = {} <=> Single(S)
    BY <2>1, <2>2 DEF Single
  <2>7. QED BY <2>4, <2>5, <2>6
<1>3. QED BY <1>1, <1>2

(* The subscriptions of an account. *)
Subs == UNION {[K -> Sub] : K \in SUBSET Keys}

LEMMA SubsAre ==
  ASSUME NEW s
  PROVE  s \in Subs <=> DOMAIN s \subseteq Keys /\ s \in [DOMAIN s -> Sub]
BY DEF Subs

LEMMA KeysAreFinite ==
  ASSUME NEW s \in Subs
  PROVE  /\ IsFiniteSet(DOMAIN s) /\ IsFiniteSet(Mains(s)) /\ IsFiniteSet(MainGroups(s))
         /\ Mains(s) \subseteq DOMAIN s /\ MainGroups(s) \subseteq Mains(s) /\ DOMAIN s \subseteq Keys
<1>1. Mains(s) \subseteq DOMAIN s /\ MainGroups(s) \subseteq Mains(s) /\ DOMAIN s \subseteq Keys
  BY SubsAre DEF Mains, MainGroups
<1>2. QED BY <1>1, AccountsAssumption, FS_Subset

LEMMA OldestIs ==
  ASSUME NEW s \in Subs, NEW keys \in SUBSET DOMAIN s, keys # {}
  PROVE  Oldest(s, keys) \in keys
<1>. DEFINE S == {s[k].id : k \in keys}
<1>1. S \subseteq Nat /\ S # {}
  BY SubsAre DEF Sub
<1>2. PICK n \in S : \A m \in S : n <= m
  BY <1>1, LeastExists
<1>3. PICK k \in keys : n = s[k].id
  BY <1>2
<1>4. \A l \in keys : s[k].id <= s[l].id
  BY <1>2, <1>3
<1>5. QED BY <1>4 DEF Oldest

LEMMA LastIdIs ==
  ASSUME NEW s \in Subs
  PROVE  LastId(s) \in Nat
<1>. DEFINE f == [k \in DOMAIN s |-> s[k].id]
            ids == {s[k].id : k \in DOMAIN s}
<1>1. ids \subseteq Nat
  BY SubsAre DEF Sub
<1>2. f \in Surjection(DOMAIN s, ids)
  BY DEF Surjection
<1>3. IsFiniteSet(ids)
  BY <1>2, KeysAreFinite, FS_Surjection
<1>4. IsFiniteSet(ids \union {0}) /\ ids \union {0} \subseteq Nat /\ ids \union {0} # {}
  BY <1>1, <1>3, FS_AddElement
<1>. HIDE DEF ids
<1>5. Max(ids \union {0}) \in Nat
  BY <1>4, MostExists
<1>6. QED BY <1>5 DEF LastId, ids

LEMMA ShownIs ==
  ASSUME NEW s \in Subs
  PROVE  /\ Mains(s) = {} => Shown(s) = "none"
         /\ Mains(s) # {} => Shown(s) \in Mains(s) /\ s[Shown(s)].half \in 0 .. 1
         /\ Shown(s) \in Keys \union {"none"}
<1>1. CASE Mains(s) = {}
  BY <1>1 DEF Shown
<1>2. CASE Mains(s) # {}
  <2>1. PICK k \in Mains(s) : k = Shown(s)
    BY <1>2, OldestIs, KeysAreFinite DEF Shown
  <2>2. k \in DOMAIN s /\ k \in Keys
    BY KeysAreFinite
  <2>3. s[k] \in Sub
    BY <2>2, SubsAre
  <2>4. s[k].half \in 0 .. 1
    BY <2>3 DEF Sub
  <2>5. QED BY <1>2, <2>1, <2>2, <2>4
<1>3. QED BY <1>1, <1>2

LEMMA ShownByMains ==
  ASSUME NEW s \in Subs, NEW t \in Subs, Mains(s) = Mains(t), Single(Mains(s))
  PROVE  Shown(s) = Shown(t)
BY ShownIs DEF Single

LEMMA DemotedIs ==
  ASSUME NEW s \in Subs, NEW key
  PROVE  /\ Demoted(s, key) \in Subs /\ DOMAIN Demoted(s, key) = DOMAIN s
         /\ Mains(Demoted(s, key)) = {k \in Mains(s) : ~SameType(k, key)}
<1>1. DOMAIN s \subseteq Keys /\ s \in [DOMAIN s -> Sub]
  BY SubsAre
<1>2. PICK t : t = Demoted(s, key)
  OBVIOUS
<1>3. DOMAIN t = DOMAIN s /\ t = [k \in DOMAIN s |-> t[k]]
      /\ \A k \in DOMAIN s : t[k] = IF SameType(k, key) THEN [s[k] EXCEPT !.main = FALSE] ELSE s[k]
  BY <1>2 DEF Demoted
<1>4. \A x \in Sub : [x EXCEPT !.main = FALSE] \in Sub /\ ~[x EXCEPT !.main = FALSE].main
  BY DEF Sub
<1>5. \A k \in DOMAIN s : t[k] \in Sub /\ (t[k].main <=> s[k].main /\ ~SameType(k, key))
  BY <1>1, <1>3, <1>4
<1>6. t \in Subs
  BY <1>1, <1>3, <1>5, SubsAre
<1>7. Mains(t) = {k \in Mains(s) : ~SameType(k, key)}
  BY <1>3, <1>5 DEF Mains
<1>8. QED BY <1>2, <1>3, <1>6, <1>7

-----------------------------------------------------------------------------
(* What a step leaves of the subscriptions of one account *)

LEMMA UpsertedIs ==
  ASSUME NEW s \in Subs, NEW key \in Keys, NEW main \in BOOLEAN
  PROVE  /\ Upserted(s, key, main) \in Subs
         /\ DOMAIN Upserted(s, key, main) = DOMAIN s \union {key}
         /\ Mains(Upserted(s, key, main)) = Mains(s) \union (IF main THEN {key} ELSE {})
<1>1. DOMAIN s \subseteq Keys /\ s \in [DOMAIN s -> Sub]
  BY SubsAre
<1>2. PICK last \in Nat : last = LastId(s)
  BY LastIdIs
<1>3. PICK new : new = IF key \in DOMAIN s THEN [s[key] EXCEPT !.main = @ \/ main, !.on = TRUE, !.half = 0]
                       ELSE [main |-> main, on |-> TRUE, half |-> 0, id |-> last + 1]
  OBVIOUS
<1>4. new \in Sub /\ (new.main <=> main \/ (key \in DOMAIN s /\ s[key].main))
  <2>1. CASE key \in DOMAIN s
    <3>1. s[key] \in Sub
      BY <1>1, <2>1
    <3>2. PICK b \in BOOLEAN : b = (s[key].main \/ main)
      OBVIOUS
    <3>3. s[key].id \in Nat /\ new = [main |-> b, on |-> TRUE, half |-> 0, id |-> s[key].id]
      BY <1>3, <2>1, <3>1, <3>2 DEF Sub
    <3>4. 0 \in 0 .. 1 /\ TRUE \in BOOLEAN
      OBVIOUS
    <3>5. new \in Sub /\ new.main = b
      BY <3>3, <3>4 DEF Sub
    <3>6. QED BY <2>1, <3>2, <3>5
  <2>2. CASE key \notin DOMAIN s
    <3>1. new = [main |-> main, on |-> TRUE, half |-> 0, id |-> last + 1]
      BY <1>3, <2>2
    <3>2. 0 \in 0 .. 1 /\ TRUE \in BOOLEAN /\ last + 1 \in Nat
      OBVIOUS
    <3>3. new \in Sub /\ new.main = main
      BY <3>1, <3>2 DEF Sub
    <3>4. QED BY <2>2, <3>3
  <2>3. QED BY <2>1, <2>2
<1>5. PICK t : t = Upserted(s, key, main)
  OBVIOUS
<1>6. /\ DOMAIN t = DOMAIN s \union {key} /\ t = [k \in DOMAIN t |-> t[k]]
      /\ \A k \in DOMAIN s \union {key} : t[k] = IF k # key THEN s[k] ELSE new
  BY <1>2, <1>3, <1>5 DEF Upserted
<1>7. t \in Subs
  <2>1. \A k \in DOMAIN t : t[k] \in Sub
    BY <1>1, <1>4, <1>6
  <2>2. QED BY <1>1, <1>6, <2>1, SubsAre
<1>8. \A k \in DOMAIN t : t[k].main <=> k \in Mains(s) \/ (k = key /\ main)
  BY <1>1, <1>4, <1>6 DEF Mains
<1>9. Mains(t) = Mains(s) \union (IF main THEN {key} ELSE {})
  <2>1. \A k : k \in Mains(t) <=> k \in DOMAIN t /\ t[k].main
    BY DEF Mains
  <2>2. Mains(s) \subseteq DOMAIN t /\ key \in DOMAIN t
    BY <1>6 DEF Mains
  <2>3. QED BY <1>8, <2>1, <2>2
<1>10. QED BY <1>5, <1>6, <1>7, <1>9

(* A subscription added as primary is the only one of its type, and the first *)
(* group is added as primary.                                                 *)
LEMMA AddedIs ==
  ASSUME NEW s \in Subs, NEW key \in Keys, NEW main \in BOOLEAN
  PROVE  /\ Added(s, key, main) \in Subs /\ DOMAIN Added(s, key, main) = DOMAIN s \union {key}
         /\ ~main => Mains(Added(s, key, main)) = Mains(s)
         /\ Single(MainGroups(s)) => Single(MainGroups(Added(s, key, main)))
<1>1. PICK t : t = IF main THEN Demoted(s, key) ELSE s
  OBVIOUS
<1>2. /\ t \in Subs /\ DOMAIN t = DOMAIN s
      /\ Mains(t) = IF main THEN {k \in Mains(s) : ~SameType(k, key)} ELSE Mains(s)
  BY <1>1, DemotedIs
<1>3. PICK r : r = Upserted(t, key, main) /\ r = Added(s, key, main)
  BY <1>1 DEF Added
<1>4. r \in Subs /\ DOMAIN r = DOMAIN t \union {key} /\ Mains(r) = Mains(t) \union (IF main THEN {key} ELSE {})
  <2>1. PICK r2 : r2 = Upserted(t, key, main)
    OBVIOUS
  <2>2. r2 \in Subs /\ DOMAIN r2 = DOMAIN t \union {key} /\ Mains(r2) = Mains(t) \union (IF main THEN {key} ELSE {})
    BY <1>2, <2>1, UpsertedIs
  <2>3. QED BY <1>3, <2>1, <2>2
<1>5. ASSUME Single(MainGroups(s)) PROVE Single(MainGroups(r))
  <2>1. CASE main
    BY <1>2, <1>4, <1>5, <2>1 DEF Single, MainGroups, SameType
  <2>2. CASE ~main
    <3>1. Mains(r) = Mains(s)
      BY <1>2, <1>4, <2>2
    <3>2. QED BY <1>5, <3>1 DEF MainGroups
  <2>3. QED BY <2>1, <2>2
<1>6. QED BY <1>2, <1>3, <1>4, <1>5

LEMMA MadeMainIs ==
  ASSUME NEW t \in Subs, NEW key \in DOMAIN t
  PROVE  /\ [t EXCEPT ![key].main = TRUE] \in Subs
         /\ DOMAIN [t EXCEPT ![key].main = TRUE] = DOMAIN t
         /\ Mains([t EXCEPT ![key].main = TRUE]) = Mains(t) \union {key}
<1>1. DOMAIN t \subseteq Keys /\ t \in [DOMAIN t -> Sub]
  BY SubsAre
<1>2. PICK new : new = [t[key] EXCEPT !.main = TRUE]
  OBVIOUS
<1>3. new \in Sub /\ new.main = TRUE
  BY <1>1, <1>2 DEF Sub
<1>4. PICK r : r = [t EXCEPT ![key].main = TRUE]
  OBVIOUS
<1>5. r = [t EXCEPT ![key] = new]
  BY <1>2, <1>4
<1>6. DOMAIN r = DOMAIN t /\ r \in [DOMAIN t -> Sub] /\ r[key] = new /\ \A k \in DOMAIN t \ {key} : r[k] = t[k]
  BY <1>1, <1>3, <1>5
<1>7. r \in Subs
  BY <1>1, <1>6, SubsAre
<1>8. Mains(r) = Mains(t) \union {key}
  BY <1>3, <1>6 DEF Mains
<1>9. QED BY <1>4, <1>6, <1>7, <1>8

LEMMA ChangedIs ==
  ASSUME NEW s \in Subs, NEW t, DOMAIN t = DOMAIN s, t = [k \in DOMAIN s |-> t[k]],
         \A k \in DOMAIN s : t[k] \in Sub /\ t[k].main = s[k].main
  PROVE  t \in Subs /\ Mains(t) = Mains(s)
<1>1. DOMAIN s \subseteq Keys
  BY SubsAre
<1>2. t \in [DOMAIN s -> Sub]
  OBVIOUS
<1>3. t \in Subs
  BY <1>1, <1>2, SubsAre
<1>4. QED BY <1>3 DEF Mains

LEMMA HalvedIs ==
  ASSUME NEW s \in Subs, NEW half \in 0 .. 1
  PROVE  Halved(s, half) \in Subs /\ Mains(Halved(s, half)) = Mains(s)
<1>1. PICK t, p : t = Halved(s, half) /\ p = Primary(s)
  OBVIOUS
<1>2. t = [s EXCEPT ![p].half = half]
  BY <1>1 DEF Halved
<1>3. s \in [DOMAIN s -> Sub]
  BY SubsAre
<1>4. \A x \in Sub : [x EXCEPT !.half = half] \in Sub /\ [x EXCEPT !.half = half].main = x.main
  BY DEF Sub
<1>5. DOMAIN t = DOMAIN s /\ t = [k \in DOMAIN s |-> t[k]]
      /\ \A k \in DOMAIN s : t[k] = IF k = p THEN [s[k] EXCEPT !.half = half] ELSE s[k]
  BY <1>2
<1>6. \A k \in DOMAIN s : t[k] \in Sub /\ t[k].main = s[k].main
  BY <1>3, <1>4, <1>5
<1>7. t \in Subs /\ Mains(t) = Mains(s)
  BY <1>5, <1>6, ChangedIs
<1>8. QED BY <1>1, <1>7

LEMMA MutedIs ==
  ASSUME NEW s \in Subs, NEW key, NEW on \in BOOLEAN
  PROVE  [s EXCEPT ![key].on = on] \in Subs /\ Mains([s EXCEPT ![key].on = on]) = Mains(s)
         /\ DOMAIN [s EXCEPT ![key].on = on] = DOMAIN s
<1>1. PICK t : t = [s EXCEPT ![key].on = on]
  OBVIOUS
<1>2. s \in [DOMAIN s -> Sub]
  BY SubsAre
<1>3. \A x \in Sub : [x EXCEPT !.on = on] \in Sub /\ [x EXCEPT !.on = on].main = x.main
  BY DEF Sub
<1>4. DOMAIN t = DOMAIN s /\ t = [k \in DOMAIN s |-> t[k]]
      /\ \A k \in DOMAIN s : t[k] = IF k = key THEN [s[k] EXCEPT !.on = on] ELSE s[k]
  BY <1>1
<1>5. \A k \in DOMAIN s : t[k] \in Sub /\ t[k].main = s[k].main
  BY <1>2, <1>3, <1>4
<1>6. t \in Subs /\ Mains(t) = Mains(s)
  BY <1>4, <1>5, ChangedIs
<1>7. QED BY <1>1, <1>4, <1>6

LEMMA CopiedIs ==
  ASSUME NEW s \in Subs
  PROVE  Copied(s) \in Subs /\ Mains(Copied(s)) = Mains(s) /\ DOMAIN Copied(s) = DOMAIN s
<1>1. PICK t : t = Copied(s)
  OBVIOUS
<1>2. s \in [DOMAIN s -> Sub]
  BY SubsAre
<1>3. DOMAIN t = DOMAIN s /\ t = [k \in DOMAIN s |-> t[k]]
      /\ \A k \in DOMAIN s : t[k] = [s[k] EXCEPT !.id = 1 + Cardinality({l \in DOMAIN s : Before(s, l, k)})]
  BY <1>1 DEF Copied
<1>4. \A x \in Sub : \A i \in Nat : [x EXCEPT !.id = i] \in Sub /\ [x EXCEPT !.id = i].main = x.main
  BY DEF Sub
<1>5. ASSUME NEW k \in DOMAIN s PROVE t[k] \in Sub /\ t[k].main = s[k].main
  <2>1. PICK L : L = {l \in DOMAIN s : Before(s, l, k)}
    OBVIOUS
  <2>2. Cardinality(L) \in Nat
    BY <2>1, KeysAreFinite, FS_Subset, FS_CardinalityType
  <2>3. PICK i \in Nat : i = 1 + Cardinality(L)
    BY <2>2
  <2>4. t[k] = [s[k] EXCEPT !.id = i]
    BY <1>3, <2>1, <2>3
  <2>5. QED BY <1>2, <1>4, <2>4
<1>6. t \in Subs /\ Mains(t) = Mains(s)
  BY <1>3, <1>5, ChangedIs
<1>7. QED BY <1>1, <1>3, <1>6

LEMMA MovedIs ==
  ASSUME NEW s \in Subs, NEW pending \in Keys, NEW key \in Keys
  PROVE  /\ Moved(s, pending, key) \in Subs
         /\ DOMAIN Moved(s, pending, key) =
              IF Moves(s, pending, key) THEN (DOMAIN s \ {pending}) \union {key} ELSE DOMAIN s
         /\ Mains(Moved(s, pending, key)) =
              IF Moves(s, pending, key) /\ pending \in Mains(s) THEN (Mains(s) \ {pending}) \union {key} ELSE Mains(s)
<1>1. DOMAIN s \subseteq Keys /\ s \in [DOMAIN s -> Sub]
  BY SubsAre
<1>2. CASE ~Moves(s, pending, key)
  BY <1>2 DEF Moved
<1>3. CASE Moves(s, pending, key)
  <2>1. pending \in DOMAIN s /\ key \notin DOMAIN s
    BY <1>3 DEF Moves
  <2>2. PICK t : t = Moved(s, pending, key)
    OBVIOUS
  <2>3. t = [k \in (DOMAIN s \ {pending}) \union {key} |-> IF k = key THEN s[pending] ELSE s[k]]
    BY <1>3, <2>2 DEF Moved
  <2>4. /\ DOMAIN t = (DOMAIN s \ {pending}) \union {key}
        /\ t \in [DOMAIN t -> Sub] /\ DOMAIN t \subseteq Keys
        /\ t[key] = s[pending] /\ \A k \in DOMAIN s \ {pending} : t[k] = s[k]
    BY <1>1, <2>1, <2>3
  <2>5. t \in Subs
    BY <2>4, SubsAre
  <2>6. \A k : k \in Mains(t) <=> \/ k \in Mains(s) \ {pending}
                                  \/ k = key /\ pending \in Mains(s)
    BY <2>1, <2>4 DEF Mains
  <2>7. Mains(t) = IF pending \in Mains(s) THEN (Mains(s) \ {pending}) \union {key} ELSE Mains(s)
    <3>1. CASE pending \in Mains(s)
      BY <2>6, <3>1
    <3>2. CASE pending \notin Mains(s)
      BY <2>6, <3>2
    <3>3. QED BY <3>1, <3>2
  <2>8. QED BY <1>3, <2>2, <2>4, <2>5, <2>7
<1>4. QED BY <1>2, <1>3

(* A group that was primary has one heir at most, the oldest of its type. *)
LEMMA RemovedIs ==
  ASSUME NEW s \in Subs, NEW keys, NEW mains
  PROVE  /\ Removed(s, keys, mains) \in Subs /\ DOMAIN Removed(s, keys, mains) = DOMAIN s \ keys
         /\ mains = {} => Mains(Removed(s, keys, mains)) = Mains(s) \ keys
         /\ Single(MainGroups(s)) /\ mains \subseteq keys \intersect Mains(s) =>
              Single(MainGroups(Removed(s, keys, mains)))
<1>. DEFINE rest == DOMAIN s \ keys
            same(m) == {l \in rest : SameType(l, m)}
            heir(k) == \E m \in mains : k \in same(m) /\ k = Oldest(s, same(m))
<1>1. DOMAIN s \subseteq Keys /\ s \in [DOMAIN s -> Sub]
  BY SubsAre
<1>2. PICK t : t = Removed(s, keys, mains)
  OBVIOUS
<1>3. t = [k \in rest |-> [s[k] EXCEPT !.main = @ \/ heir(k)]]
  BY <1>2 DEF Removed
<1>4. ASSUME NEW k \in rest
      PROVE  t[k] \in Sub /\ (t[k].main <=> s[k].main \/ heir(k))
  <2>1. PICK b \in BOOLEAN : b = (s[k].main \/ heir(k))
    OBVIOUS
  <2>2. PICK x \in Sub : x = s[k]
    BY <1>1
  <2>3. t[k] = [x EXCEPT !.main = b]
    BY <1>3, <2>1, <2>2
  <2>4. [x EXCEPT !.main = b] \in Sub /\ [x EXCEPT !.main = b].main = b
    BY DEF Sub
  <2>5. QED BY <2>1, <2>3, <2>4
<1>5. DOMAIN t = rest /\ t = [k \in rest |-> t[k]]
  BY <1>3
<1>. HIDE DEF heir
<1>6. t \in [rest -> Sub]
  BY <1>4, <1>5
<1>7. t \in Subs
  BY <1>1, <1>5, <1>6, SubsAre
<1>8. \A k : k \in Mains(t) <=> k \in rest /\ (k \in Mains(s) \/ heir(k))
  BY <1>4, <1>5 DEF Mains
<1>9. ASSUME mains = {} PROVE Mains(t) = Mains(s) \ keys
  <2>1. \A k : ~heir(k)
    BY <1>9 DEF heir
  <2>2. Mains(s) \subseteq DOMAIN s
    BY KeysAreFinite
  <2>3. QED BY <1>8, <2>1, <2>2
<1>10. ASSUME Single(MainGroups(s)), mains \subseteq keys \intersect Mains(s)
       PROVE  Single(MainGroups(t))
  <2>1. ASSUME NEW k \in MainGroups(t), k \notin Mains(s)
        PROVE  \E m \in MainGroups(s) : m \in keys /\ k = Oldest(s, {l \in rest : TypeOf[l] = "group"})
    <3>1. k \in Mains(t) /\ TypeOf[k] = "group"
      BY DEF MainGroups
    <3>2. heir(k)
      BY <1>8, <2>1, <3>1
    <3>3. PICK m \in mains : k \in same(m) /\ k = Oldest(s, same(m))
      BY <3>2 DEF heir
    <3>4. TypeOf[m] = "group"
      BY <3>1, <3>3 DEF SameType
    <3>5. same(m) = {l \in rest : TypeOf[l] = "group"}
      BY <3>4 DEF SameType
    <3>6. m \in MainGroups(s) /\ m \in keys
      BY <1>10, <3>4 DEF MainGroups
    <3>7. QED BY <3>3, <3>5, <3>6
  <2>2. ASSUME NEW k \in MainGroups(t), k \in Mains(s)
        PROVE  k \in MainGroups(s) /\ k \notin keys
    BY <1>8, <2>2 DEF MainGroups
  <2>3. ASSUME NEW k \in MainGroups(t), NEW l \in MainGroups(t) PROVE k = l
    <3>1. CASE k \in Mains(s) /\ l \in Mains(s)
      BY <1>10, <2>2, <3>1 DEF Single
    <3>2. CASE k \in Mains(s) /\ l \notin Mains(s)
      BY <1>10, <2>1, <2>2, <3>2 DEF Single
    <3>3. CASE k \notin Mains(s) /\ l \in Mains(s)
      BY <1>10, <2>1, <2>2, <3>3 DEF Single
    <3>4. CASE k \notin Mains(s) /\ l \notin Mains(s)
      BY <2>1, <3>4
    <3>5. QED BY <3>1, <3>2, <3>3, <3>4
  <2>4. QED BY <2>3 DEF Single
<1>11. QED BY <1>2, <1>5, <1>7, <1>9, <1>10

LEMMA JointIs ==
  ASSUME NEW mine \in Subs, NEW theirs \in Subs, NEW choice,
         NEW extra, extra = DOMAIN theirs \ DOMAIN mine
  PROVE  /\ Joint(mine, theirs, extra, choice) \in Subs
         /\ DOMAIN Joint(mine, theirs, extra, choice) = DOMAIN mine \union DOMAIN theirs
         /\ Mains(Joint(mine, theirs, extra, choice)) =
              Mains(mine) \union (IF choice = "target" THEN Mains(theirs) \ DOMAIN mine ELSE {})
<1>1. /\ DOMAIN mine \subseteq Keys /\ mine \in [DOMAIN mine -> Sub]
      /\ DOMAIN theirs \subseteq Keys /\ theirs \in [DOMAIN theirs -> Sub]
  BY SubsAre
<1>2. PICK last \in Nat : last = LastId(mine)
  BY LastIdIs
<1>3. PICK t : t = Joint(mine, theirs, extra, choice)
  OBVIOUS
<1>4. t = [k \in DOMAIN mine \union extra |->
            IF k \in extra THEN [theirs[k] EXCEPT !.main = @ /\ choice = "target", !.id = last + @] ELSE mine[k]]
  BY <1>2, <1>3 DEF Joint
<1>5. ASSUME NEW k \in extra
      PROVE  t[k] \in Sub /\ (t[k].main <=> theirs[k].main /\ choice = "target")
  <2>1. PICK x \in Sub : x = theirs[k]
    BY <1>1
  <2>2. PICK b \in BOOLEAN : b = (x.main /\ choice = "target")
    OBVIOUS
  <2>3. PICK i \in Nat : i = last + x.id
    BY DEF Sub
  <2>4. t[k] = [x EXCEPT !.main = b, !.id = i]
    BY <1>4, <2>1, <2>2, <2>3
  <2>5. [x EXCEPT !.main = b, !.id = i] \in Sub /\ [x EXCEPT !.main = b, !.id = i].main = b
    BY DEF Sub
  <2>6. QED BY <2>1, <2>2, <2>4, <2>5
<1>6. \A k \in DOMAIN mine : k \notin extra /\ t[k] = mine[k]
  BY <1>4
<1>7. DOMAIN t = DOMAIN mine \union DOMAIN theirs /\ t = [k \in DOMAIN t |-> t[k]]
  BY <1>4
<1>8. t \in [DOMAIN t -> Sub]
  BY <1>1, <1>5, <1>6, <1>7
<1>9. t \in Subs
  BY <1>1, <1>7, <1>8, SubsAre
<1>10. \A k : k \in Mains(t) <=> \/ k \in Mains(mine)
                                 \/ k \in Mains(theirs) \ DOMAIN mine /\ choice = "target"
  BY <1>5, <1>6, <1>7 DEF Mains
<1>11. Mains(t) = Mains(mine) \union (IF choice = "target" THEN Mains(theirs) \ DOMAIN mine ELSE {})
  <2>1. CASE choice = "target"
    BY <1>10, <2>1
  <2>2. CASE choice # "target"
    BY <1>10, <2>2
  <2>3. QED BY <2>1, <2>2
<1>12. QED BY <1>3, <1>7, <1>9, <1>11

LEMMA MergedIs ==
  ASSUME NEW mine \in Subs, NEW theirs \in Subs, NEW choice
  PROVE  /\ Merged(mine, theirs, choice) \in Subs
         /\ DOMAIN Merged(mine, theirs, choice) = DOMAIN mine \union DOMAIN theirs
         /\ Single(MainGroups(mine)) => Single(MainGroups(Merged(mine, theirs, choice)))
<1>1. PICK all : /\ all = Joint(mine, theirs, DOMAIN theirs \ DOMAIN mine, choice)
                 /\ all \in Subs /\ DOMAIN all = DOMAIN mine \union DOMAIN theirs
                 /\ Mains(all) = Mains(mine) \union (IF choice = "target" THEN Mains(theirs) \ DOMAIN mine ELSE {})
  BY JointIs
<1>2. PICK t, p : t = Merged(mine, theirs, choice) /\ p = Primary(theirs)
  OBVIOUS
<1>3. CASE choice = "target" /\ Mains(theirs) # {}
  <2>1. t = [k \in DOMAIN all |-> IF TypeOf[k] = "group" THEN [all[k] EXCEPT !.main = k = p] ELSE all[k]]
    BY <1>1, <1>2, <1>3 DEF Merged
  <2>2. DOMAIN all \subseteq Keys /\ all \in [DOMAIN all -> Sub]
    BY <1>1, SubsAre
  <2>3. ASSUME NEW k \in DOMAIN all
        PROVE  t[k] \in Sub /\ (TypeOf[k] = "group" => (t[k].main <=> k = p))
    <3>1. CASE TypeOf[k] = "group"
      <4>1. PICK b \in BOOLEAN : b = (k = p)
        OBVIOUS
      <4>2. PICK x \in Sub : x = all[k]
        BY <2>2
      <4>3. t[k] = [x EXCEPT !.main = b]
        BY <2>1, <3>1, <4>1, <4>2
      <4>4. [x EXCEPT !.main = b] \in Sub /\ [x EXCEPT !.main = b].main = b
        BY DEF Sub
      <4>5. QED BY <4>1, <4>3, <4>4
    <3>2. CASE TypeOf[k] # "group"
      BY <2>1, <2>2, <3>2
    <3>3. QED BY <3>1, <3>2
  <2>4. DOMAIN t = DOMAIN all /\ t = [k \in DOMAIN t |-> t[k]]
    BY <2>1
  <2>5. t \in Subs
    BY <2>2, <2>3, <2>4, SubsAre
  <2>6. Single(MainGroups(t))
    BY <2>3, <2>4 DEF Single, MainGroups, Mains
  <2>7. QED BY <1>1, <1>2, <2>4, <2>5, <2>6
<1>4. CASE ~(choice = "target" /\ Mains(theirs) # {})
  <2>1. t = all
    BY <1>1, <1>2, <1>4 DEF Merged
  <2>2. Mains(all) = Mains(mine)
    BY <1>1, <1>4
  <2>3. QED BY <1>1, <1>2, <2>1, <2>2 DEF MainGroups
<1>5. QED BY <1>3, <1>4

LEMMA FromRowIs ==
  ASSUME NEW r \in Row
  PROVE  /\ FromRow(r) \in Subs /\ Single(Mains(FromRow(r))) /\ Single(MainGroups(FromRow(r)))
         /\ r.known => Shown(FromRow(r)) = r.key
<1>1. PICK t : t = FromRow(r)
  OBVIOUS
<1>2. CASE r.known /\ r.key # "none"
  <2>1. PICK key \in Keys : key = r.key
    BY <1>2 DEF Row
  <2>2. PICK new : new = [main |-> TRUE, on |-> r.on, half |-> r.half, id |-> 1]
    OBVIOUS
  <2>3. r.on \in BOOLEAN /\ r.half \in 0 .. 1 /\ 1 \in Nat /\ TRUE \in BOOLEAN
    BY DEF Row
  <2>4. new \in Sub /\ new.main = TRUE
    BY <2>2, <2>3 DEF Sub
  <2>5. t = [k \in {key} |-> new]
    BY <1>1, <1>2, <2>1, <2>2 DEF FromRow
  <2>6. DOMAIN t = {key} /\ t \in [{key} -> Sub] /\ t[key] = new
    BY <2>4, <2>5
  <2>7. t \in Subs
    BY <2>6, SubsAre
  <2>8. Mains(t) = {key}
    BY <2>4, <2>6 DEF Mains
  <2>9. Shown(t) = key
    BY <2>7, <2>8, ShownIs
  <2>10. QED BY <1>1, <2>1, <2>7, <2>8, <2>9 DEF Single, MainGroups
<1>3. CASE ~(r.known /\ r.key # "none")
  <2>1. t = [k \in {} |-> TRUE]
    BY <1>1, <1>3 DEF FromRow, NoSubs
  <2>2. DOMAIN t = {} /\ t \in [{} -> Sub]
    BY <2>1
  <2>3. t \in Subs
    BY <2>2, SubsAre
  <2>4. Mains(t) = {}
    BY <2>2 DEF Mains
  <2>5. Shown(t) = "none"
    BY <2>3, <2>4, ShownIs
  <2>6. QED BY <1>1, <1>3, <2>3, <2>4, <2>5 DEF Single, MainGroups
<1>4. QED BY <1>2, <1>3

LEMMA MinIsMember ==
  ASSUME NEW S, S \subseteq Nat, S # {}
  PROVE  Min(S) \in S
<1>1. PICK n \in S : \A m \in S : n <= m
  BY LeastExists
<1>2. QED BY <1>1 DEF Min

(* A new account was never used before. *)
LEMMA FreshIsNew ==
  ASSUME CanCreate
  PROVE  Fresh \in Ids /\ accounts[Fresh] = "none"
<1>. DEFINE S == {a \in Ids : accounts[a] = "none"}
<1>1. S \subseteq Nat /\ S # {}
  BY DEF CanCreate, Ids
<1>2. Fresh \in S
  BY <1>1, MinIsMember DEF Fresh
<1>3. QED BY <1>2

-----------------------------------------------------------------------------
(* The inductive invariant *)

(* What a request of the mini app holds in its hands. *)
FlightOK(f) ==
  /\ "pc" \in DOMAIN f
  /\ f.pc = "authenticated" => f.account \in Ids /\ accounts[f.account] # "none"
  /\ f.pc = "linking" =>
       /\ f.token \in Tokens /\ f.account \in Ids
       /\ requests[f.token].state # "none" /\ requests[f.token].account # f.account
  /\ f.pc = "unlinking" => f.who \in Users /\ f.on \in {"on", "off"}

Shape ==
  /\ accounts \in [Ids -> {"none", "gone", "on", "off"}]
  /\ owner \in [Users -> Ids]
  /\ requests \in [Tokens -> [state : {"none", "open", "over"}, account : Ids \union {NoAccount}]]
  /\ DOMAIN joined = Tokens /\ DOMAIN flight = Users
  /\ \A u \in Users : FlightOK(flight[u])

(* A link request that was made has an account, one that joined is over. *)
RequestsOK ==
  \A t \in Tokens :
    /\ requests[t].state # "none" => requests[t].account \in Ids /\ accounts[requests[t].account] # "none"
    /\ joined[t] # {} => requests[t].state = "over"

Holds(u, t) == flight[u].pc = "linking" /\ flight[u].token = t

(* A request nobody contested is held by one confirmation, and by none once *)
(* it has joined its account.                                               *)
Used(t) ==
  /\ \A u, v \in Users : Holds(u, t) /\ Holds(v, t) => u = v
  /\ joined[t] # {} => (\E a \in Ids : joined[t] = {a}) /\ ~\E u \in Users : Holds(u, t)

UsedOnce == \A t \in Tokens \ contested : Used(t)

LinkInv == Shape /\ RequestsOK /\ UsedOnce /\ IdentityHasAccount

LEMMA InitLinkInv == Init => LinkInv
<1>. SUFFICES ASSUME Init PROVE LinkInv
  OBVIOUS
<1>1. Users \subseteq Ids
  BY AccountsAssumption DEF Ids
<1>2. \A u \in Users : flight[u] = Idle
  BY DEF Init
<1>3. ASSUME NEW u \in Users PROVE FlightOK(flight[u])
  BY <1>2 DEF FlightOK, Idle
<1>4. Shape
  BY <1>1, <1>3 DEF Init, Shape
<1>5. RequestsOK
  BY DEF Init, RequestsOK
<1>6. UsedOnce
  BY <1>2 DEF Init, UsedOnce, Used, Holds, Idle
<1>7. IdentityHasAccount
  BY <1>1 DEF Init, IdentityHasAccount, Exists
<1>8. QED BY <1>4, <1>5, <1>6, <1>7 DEF LinkInv

-----------------------------------------------------------------------------
(* Steps that leave links alone *)

(* No account comes or goes. *)
AccountsStay ==
  /\ accounts' \in [Ids -> {"none", "gone", "on", "off"}]
  /\ \A a \in Ids : (accounts'[a] = "none" <=> accounts[a] = "none")
                 /\ (accounts'[a] \in {"on", "off"} <=> accounts[a] \in {"on", "off"})
  /\ owner' = owner

(* What every request holds stays in order, and none takes up a link. *)
FlightsStay ==
  /\ DOMAIN flight' = Users
  /\ \A u \in Users :
       /\ FlightOK(flight[u])' \/ flight'[u] = flight[u]
       /\ flight'[u].pc # "linking" \/ flight'[u] = flight[u]

Steady == AccountsStay /\ FlightsStay /\ UNCHANGED <<requests, contested, joined>>

LEMMA SteadyKeeps ==
  ASSUME LinkInv, Steady
  PROVE  LinkInv'
<1>. USE DEF LinkInv, Steady
<1>1. ASSUME NEW u \in Users PROVE FlightOK(flight[u])'
  BY <1>1 DEF FlightsStay, AccountsStay, Shape, FlightOK
<1>2. Shape'
  BY <1>1 DEF FlightsStay, AccountsStay, Shape
<1>3. RequestsOK'
  BY DEF RequestsOK, AccountsStay
<1>4. \A t : \A u \in Users : Holds(u, t)' => Holds(u, t)
  BY DEF FlightsStay, Holds
<1>5. ASSUME NEW t \in Tokens \ contested PROVE Used(t)'
  <2>1. Used(t)
    BY DEF UsedOnce
  <2>2. QED BY <1>4, <2>1 DEF Used
<1>6. UsedOnce'
  BY <1>5 DEF UsedOnce
<1>8. ASSUME NEW u \in Users, ~Exists(owner[u])'
      PROVE  \E t \in Tokens : (joined[t] # {} /\ ~Exists(requests[t].account))'
  <2>1. owner[u] \in Ids /\ owner' = owner /\ owner[u] # NoAccount
    BY DEF Shape, AccountsStay, Ids, NoAccount
  <2>2. ~Exists(owner[u])
    BY <1>8, <2>1 DEF Exists, AccountsStay
  <2>3. PICK t \in Tokens : joined[t] # {} /\ ~Exists(requests[t].account)
    BY <2>1, <2>2 DEF IdentityHasAccount
  <2>4. requests[t].account \in Ids
    BY <2>3 DEF RequestsOK
  <2>5. QED BY <2>3, <2>4 DEF Exists, AccountsStay
<1>9. IdentityHasAccount'
  BY <1>8 DEF IdentityHasAccount
<1>10. QED BY <1>2, <1>3, <1>6, <1>9

LEMMA SameAccounts ==
  ASSUME Shape, UNCHANGED <<accounts, owner>>
  PROVE  AccountsStay
BY DEF Shape, AccountsStay

LEMMA ToggledAccount ==
  ASSUME Shape, NEW a, Exists(a), a \in Ids, NEW flag \in {"on", "off"},
         accounts' = [accounts EXCEPT ![a] = flag], owner' = owner
  PROVE  AccountsStay
BY DEF Shape, AccountsStay, Exists

LEMMA SameFlights ==
  ASSUME Shape, UNCHANGED flight
  PROVE  FlightsStay
BY DEF Shape, FlightsStay

LEMMA OneFlight ==
  ASSUME Shape, NEW u \in Users, NEW f, flight' = [flight EXCEPT ![u] = f],
         FlightOK(f)', f.pc # "linking"
  PROVE  FlightsStay
<1>1. ASSUME NEW v \in Users
      PROVE  (FlightOK(flight[v])' \/ flight'[v] = flight[v]) /\ (flight'[v].pc # "linking" \/ flight'[v] = flight[v])
  BY DEF Shape, FlightOK
<1>2. QED BY <1>1 DEF Shape, FlightsStay

LEMMA Answering ==
  ASSUME Shape, NEW u \in Users, Answered(u)
  PROVE  FlightsStay
<1>1. FlightOK(Idle)' /\ Idle.pc # "linking"
  BY DEF FlightOK, Idle
<1>2. QED BY <1>1, OneFlight DEF Answered

(* Requests whose row is deleted. *)
LEMMA Dropping ==
  ASSUME Shape, NEW a, NEW keys, NEW u \in Users,
         flight' = Dropped(flight, a, keys) \/ flight' = [Dropped(flight, a, keys) EXCEPT ![u] = Idle]
  PROVE  FlightsStay
<1>1. FlightOK(Idle)' /\ Idle.pc # "linking"
  BY DEF FlightOK, Idle
<1>2. /\ DOMAIN flight' = Users
      /\ \A v \in Users : \/ flight'[v] = flight[v] \/ flight'[v] = Idle
                          \/ flight[v].pc = "row" /\ flight'[v] = [flight[v] EXCEPT !.there = FALSE]
  BY DEF Dropped
<1>3. ASSUME NEW v \in Users, flight[v].pc = "row", flight'[v] = [flight[v] EXCEPT !.there = FALSE]
      PROVE  FlightOK(flight[v])' /\ flight'[v].pc # "linking"
  <2>1. "pc" \in DOMAIN flight[v]
    BY DEF Shape, FlightOK
  <2>2. "pc" \in DOMAIN flight'[v] /\ flight'[v].pc = "row"
    BY <1>3, <2>1
  <2>3. QED BY <2>2 DEF FlightOK
<1>4. QED BY <1>1, <1>2, <1>3 DEF FlightsStay

(* A bot's user has an account, so none is made. *)
LEMMA NoneIsMade ==
  ASSUME Shape, NEW u \in Users, NEW rs, CanGet(u)
  PROVE  /\ Exists(owner[u]) /\ owner[u] \in Ids
         /\ GetOrCreate(u, rs).owner = owner /\ GetOrCreate(u, rs).accounts = accounts
<1>1. owner[u] \in Ids /\ owner[u] # NoAccount
  BY DEF Shape, Ids, NoAccount
<1>2. QED BY <1>1 DEF CanGet, GetOrCreate

LEMMA PreferringStays ==
  ASSUME Shape, NEW a, a \in Ids, Exists(a), NEW rs, NEW on, Preferring(rs, a, on), owner' = owner
  PROVE  AccountsStay
<1>1. PICK flag \in {"on", "off"} : accounts' = [accounts EXCEPT ![a] = flag]
  BY DEF Preferring
<1>2. QED BY <1>1, ToggledAccount

LEMMA BotsAreSteady ==
  ASSUME Shape, NEW u \in Users, Bot(u)
  PROVE  Steady
<1>1. CASE Register(u)
  <2>1. PICK f : f.pc = "registering" /\ "pc" \in DOMAIN f /\ flight' = [flight EXCEPT ![u] = f]
    BY <1>1 DEF Register
  <2>2. FlightOK(f)' /\ f.pc # "linking"
    BY <2>1 DEF FlightOK
  <2>3. QED BY <1>1, <2>1, <2>2, OneFlight, SameAccounts DEF Steady, Register, history
<1>2. CASE Write(u)
  <2>1. Answered(u)
    BY <1>2 DEF Write, Answered
  <2>2. QED BY <1>2, <2>1, Answering, SameAccounts DEF Steady, Write
<1>3. CASE LeaveRoom(u)
  BY <1>3, SameFlights, Dropping, SameAccounts DEF Steady, LeaveRoom, Unsubscribe
<1>4. CASE Leave(u)
  BY <1>4, SameFlights, Dropping, SameAccounts DEF Steady, Leave, Unsubscribe
<1>5. CASE Undeliverable(u)
  BY <1>5, SameFlights, SameAccounts DEF Steady, Undeliverable, history
<1>6. ASSUME NEW rs, NEW key, NEW main, Subscribe(u, rs, key, main), UNCHANGED <<requests, flight, contested, joined>>
      PROVE  Steady
  <2>1. CanGet(u) /\ accounts' = GetOrCreate(u, rs).accounts /\ owner' = GetOrCreate(u, rs).owner
    BY <1>6 DEF Subscribe
  <2>2. UNCHANGED <<accounts, owner>>
    BY <2>1, NoneIsMade
  <2>3. QED BY <1>6, <2>2, SameFlights, SameAccounts DEF Steady
<1>7. ASSUME NEW k \in Keys, Choose(u, k) \/ ChooseRoom(u, k) PROVE Steady
  BY <1>6, <1>7 DEF Choose, ChooseRoom
<1>8. ASSUME NEW h \in 0 .. 1, SetHalf(u, h) PROVE Steady
  BY <1>8, SameFlights, SameAccounts DEF Steady, SetHalf
<1>9. ASSUME NEW on \in BOOLEAN, SetNotifications(u, on) PROVE Steady
  <2>1. owner' = owner /\ UNCHANGED <<requests, flight, contested, joined>> /\ owner[u] \in Ids
    BY <1>9 DEF SetNotifications, history, Shape
  <2>2. CASE Exists(owner[u])
    <3>1. PICK rs : Preferring(rs, owner[u], on)
      BY <1>9, <2>2 DEF SetNotifications
    <3>2. QED BY <2>1, <2>2, <3>1, PreferringStays, SameFlights DEF Steady
  <2>3. CASE ~Exists(owner[u])
    BY <1>9, <2>1, <2>3, SameFlights, SameAccounts DEF Steady, SetNotifications
  <2>4. QED BY <2>2, <2>3
<1>10. QED BY <1>1, <1>2, <1>3, <1>4, <1>5, <1>7, <1>8, <1>9 DEF Bot

LEMMA PromotionsAreSteady ==
  ASSUME Shape, Promotion
  PROVE  Steady
<1>1. ASSUME NEW pending, NEW key, PromoteGroup(pending, key) PROVE Steady
  <2>1. /\ DOMAIN flight' = Users
        /\ \A u \in Users : \/ flight'[u] = flight[u]
                            \/ flight[u].pc = "row" /\ flight'[u] = [flight[u] EXCEPT !.key = key]
    BY <1>1 DEF PromoteGroup
  <2>2. UNCHANGED <<accounts, owner, requests, contested, joined>>
    BY <1>1 DEF PromoteGroup
  <2>3. ASSUME NEW u \in Users, flight[u].pc = "row", flight'[u] = [flight[u] EXCEPT !.key = key]
        PROVE  FlightOK(flight[u])' /\ flight'[u].pc # "linking"
    <3>1. "pc" \in DOMAIN flight[u]
      BY DEF Shape, FlightOK
    <3>2. "pc" \in DOMAIN flight'[u] /\ flight'[u].pc = "row"
      BY <2>3, <3>1
    <3>3. QED BY <3>2 DEF FlightOK
  <2>4. FlightsStay
    BY <2>1, <2>3 DEF FlightsStay
  <2>5. QED BY <2>2, <2>4, SameAccounts DEF Steady
<1>2. ASSUME NEW pending, NEW key, PromoteTeacher(pending, key) PROVE Steady
  BY <1>2, SameFlights, SameAccounts DEF Steady, PromoteTeacher
<1>3. QED BY <1>1, <1>2 DEF Promotion

(* The requests of the mini app that are not about links. *)
Plain(u) ==
  \/ Login(u) \/ Authenticate(u) \/ Refused(u)
  \/ \E a \in Ids : SessionEnds(u, a)
  \/ \E on \in BOOLEAN : Preferences(u, on) \/ Mute(u, on)
  \/ \E k \in Keys : (\E main \in BOOLEAN : LookAdd(u, k, main)) \/ LookRow(u, k)
  \/ Add(u) \/ MakeMain(u) \/ RemoveSub(u)
  \/ ConfirmFails(u)
  \/ \E p \in Range(PlatformOf) : LookUnlink(u, p)

LEMMA PlainIsSteady ==
  ASSUME Shape, NEW u \in Users, Plain(u)
  PROVE  Steady
<1>1. CASE Login(u)
  <2>1. CanGet(u) /\ accounts' = GetOrCreate(u, rows).accounts /\ owner' = GetOrCreate(u, rows).owner
    BY <1>1 DEF Login
  <2>2. UNCHANGED <<accounts, owner>>
    BY <2>1, NoneIsMade
  <2>3. QED BY <1>1, <2>2, SameFlights, SameAccounts DEF Steady, Login, history
<1>2. CASE Authenticate(u)
  <2>1. PICK a \in Ids : Exists(a) /\ flight' = [flight EXCEPT ![u] = [pc |-> "authenticated", account |-> a]]
    BY <1>2 DEF Authenticate
  <2>2. UNCHANGED <<accounts, owner, requests, contested, joined>>
    BY <1>2 DEF Authenticate, history
  <2>. DEFINE f == [pc |-> "authenticated", account |-> a]
  <2>3. f.account = a /\ f.pc = "authenticated" /\ "pc" \in DOMAIN f
    OBVIOUS
  <2>4. FlightOK(f)'
    BY <2>1, <2>2, <2>3 DEF FlightOK, Exists
  <2>5. flight' = [flight EXCEPT ![u] = f]
    BY <2>1
  <2>. HIDE DEF f
  <2>6. QED BY <2>2, <2>3, <2>4, <2>5, OneFlight, SameAccounts DEF Steady
<1>3. CASE Refused(u) \/ ConfirmFails(u)
  BY <1>3, Answering, SameAccounts DEF Steady, Refused, ConfirmFails, history
<1>4. ASSUME NEW a \in Ids, SessionEnds(u, a) PROVE Steady
  BY <1>4, SameFlights, SameAccounts DEF Steady, SessionEnds, history
<1>5. ASSUME NEW on \in BOOLEAN, Preferences(u, on) PROVE Steady
  <2>1. owner' = owner /\ UNCHANGED <<requests, contested, joined>> /\ Answered(u)
    BY <1>5 DEF Preferences, history
  <2>2. flight[u].account \in Ids
    BY <1>5 DEF Preferences, At, Shape, FlightOK
  <2>3. CASE Exists(flight[u].account)
    BY <1>5, <2>1, <2>2, <2>3, PreferringStays, Answering DEF Steady, Preferences
  <2>4. CASE ~Exists(flight[u].account)
    BY <1>5, <2>1, <2>4, Answering, SameAccounts DEF Steady, Preferences
  <2>5. QED BY <2>3, <2>4
<1>6. ASSUME NEW on \in BOOLEAN, Mute(u, on) PROVE Steady
  BY <1>6, Answering, SameAccounts DEF Steady, Mute, history
<1>7. ASSUME NEW k \in Keys, NEW main \in BOOLEAN, LookAdd(u, k, main) PROVE Steady
  <2>1. PICK f : f.pc = "adding" /\ "pc" \in DOMAIN f /\ flight' = [flight EXCEPT ![u] = f]
    BY <1>7 DEF LookAdd
  <2>2. FlightOK(f)' /\ f.pc # "linking"
    BY <2>1 DEF FlightOK
  <2>3. QED BY <1>7, <2>1, <2>2, OneFlight, SameAccounts DEF Steady, LookAdd, history
<1>8. ASSUME NEW k \in Keys, LookRow(u, k) PROVE Steady
  <2>1. PICK f : f.pc = "row" /\ "pc" \in DOMAIN f /\ flight' = [flight EXCEPT ![u] = f]
    BY <1>8 DEF LookRow
  <2>2. FlightOK(f)' /\ f.pc # "linking"
    BY <2>1 DEF FlightOK
  <2>3. QED BY <1>8, <2>1, <2>2, OneFlight, SameAccounts DEF Steady, LookRow, history
<1>9. CASE Add(u) \/ MakeMain(u) \/ RemoveSub(u)
  BY <1>9, Answering, Dropping, SameAccounts DEF Steady, Add, MakeMain, RemoveSub
<1>10. ASSUME NEW p, LookUnlink(u, p) PROVE Steady
  <2>. DEFINE a == flight[u].account
              there == {v \in Users : owner[v] = a /\ PlatformOf[v] = p}
  <2>1. /\ there # {} /\ Exists(a)
        /\ flight' = [flight EXCEPT ![u] = [pc |-> "unlinking", account |-> a, who |-> Min(there),
                                            copy |-> Copied(subs[a]), on |-> accounts[a]]]
    BY <1>10 DEF LookUnlink
  <2>2. there \subseteq Nat
    <3>1. Users \subseteq 1 .. MaxAccounts /\ MaxAccounts \in Nat
      BY AccountsAssumption
    <3>2. 1 .. MaxAccounts \subseteq Nat
      BY <3>1
    <3>3. QED BY <3>1, <3>2
  <2>3. Min(there) \in there
    BY <2>1, <2>2, MinIsMember
  <2>4. PICK f : /\ f.pc = "unlinking" /\ "pc" \in DOMAIN f /\ f.who \in Users /\ f.on \in {"on", "off"}
                 /\ flight' = [flight EXCEPT ![u] = f]
    BY <2>1, <2>3 DEF Exists
  <2>5. FlightOK(f)' /\ f.pc # "linking"
    BY <2>4 DEF FlightOK
  <2>6. QED BY <1>10, <2>4, <2>5, OneFlight, SameAccounts DEF Steady, LookUnlink, history
<1>11. QED BY <1>1, <1>2, <1>3, <1>4, <1>5, <1>6, <1>7, <1>8, <1>9, <1>10 DEF Plain

-----------------------------------------------------------------------------
(* Steps about links *)

(* The new link request has the account of who made it. *)
LEMMA CreateLinkKeeps ==
  ASSUME LinkInv, NEW u \in Users, NEW t \in Tokens, CreateLink(u, t)
  PROVE  LinkInv'
<1>. DEFINE new == [state |-> "open", account |-> flight[u].account]
<1>1. /\ requests[t].state = "none" /\ requests' = [requests EXCEPT ![t] = new]
      /\ flight' = [flight EXCEPT ![u] = Idle] /\ flight[u].pc = "authenticated"
      /\ UNCHANGED <<accounts, owner, contested, joined>>
  BY DEF CreateLink, At, Answered, history
<1>2. Shape /\ RequestsOK /\ UsedOnce /\ IdentityHasAccount
  BY DEF LinkInv
<1>3. new.account \in Ids /\ accounts[new.account] # "none"
  BY <1>1, <1>2 DEF Shape, FlightOK
<1>4. joined[t] = {}
  BY <1>1, <1>2 DEF RequestsOK
<1>5. ASSUME NEW v \in Users PROVE FlightOK(flight[v])'
  <2>1. CASE v = u
    BY <1>1, <1>2, <2>1 DEF Shape, FlightOK, Idle
  <2>2. CASE v # u
    BY <1>1, <1>2, <2>2 DEF Shape, FlightOK
  <2>3. QED BY <2>1, <2>2
<1>6. Shape'
  BY <1>1, <1>2, <1>3, <1>5 DEF Shape
<1>7. RequestsOK'
  BY <1>1, <1>2, <1>3, <1>4 DEF RequestsOK, Shape
<1>8. \A s : \A v \in Users : Holds(v, s)' => Holds(v, s)
  BY <1>1, <1>2 DEF Holds, Shape, Idle
<1>9. UsedOnce'
  BY <1>1, <1>2, <1>8 DEF UsedOnce, Used
<1>10. IdentityHasAccount'
  BY <1>1, <1>2, <1>4 DEF IdentityHasAccount, Exists, Shape
<1>11. QED BY <1>6, <1>7, <1>9, <1>10 DEF LinkInv

LEMMA LinkExpiresKeeps ==
  ASSUME LinkInv, NEW t \in Tokens, LinkExpires(t)
  PROVE  LinkInv'
<1>1. /\ requests[t].state = "open" /\ requests' = [requests EXCEPT ![t].state = "over"]
      /\ UNCHANGED <<accounts, owner, flight, contested, joined>>
  BY DEF LinkExpires, history
<1>2. Shape /\ RequestsOK /\ UsedOnce /\ IdentityHasAccount
  BY DEF LinkInv
<1>3. /\ \A s \in Tokens : requests'[s].account = requests[s].account
      /\ \A s \in Tokens : requests'[s].state = IF s = t THEN "over" ELSE requests[s].state
      /\ requests' \in [Tokens -> [state : {"none", "open", "over"}, account : Ids \union {NoAccount}]]
  BY <1>1, <1>2 DEF Shape
<1>4. Shape'
  BY <1>1, <1>2, <1>3 DEF Shape, FlightOK
<1>5. RequestsOK'
  BY <1>1, <1>2, <1>3 DEF RequestsOK
<1>6. UsedOnce'
  BY <1>1, <1>2 DEF UsedOnce, Used, Holds
<1>7. IdentityHasAccount'
  BY <1>1, <1>2, <1>3 DEF IdentityHasAccount, Exists
<1>8. QED BY <1>4, <1>5, <1>6, <1>7 DEF LinkInv

(* Two confirmations that hold a request make it contested. *)
LEMMA LookLinkKeeps ==
  ASSUME LinkInv, NEW u \in Users, NEW t \in Tokens, LookLink(u, t)
  PROVE  LinkInv'
<1>1. /\ requests[t].state = "open" /\ owner[u] # requests[t].account
      /\ flight' = [flight EXCEPT ![u] = [pc |-> "linking", account |-> owner[u], token |-> t]]
      /\ contested' = IF \E v \in Users \ {u} : Holds(v, t) THEN contested \union {t} ELSE contested
      /\ UNCHANGED <<accounts, owner, requests, joined>>
  BY DEF LookLink, At, Holds
<1>2. Shape /\ RequestsOK /\ UsedOnce /\ IdentityHasAccount
  BY DEF LinkInv
<1>3. ASSUME NEW v \in Users PROVE FlightOK(flight[v])'
  <2>1. CASE v = u
    <3>1. /\ flight'[u].pc = "linking" /\ flight'[u].account = owner[u]
          /\ flight'[u].token = t /\ "pc" \in DOMAIN flight'[u]
      BY <1>1, <1>2 DEF Shape
    <3>2. QED BY <1>1, <1>2, <2>1, <3>1 DEF Shape, FlightOK
  <2>2. CASE v # u
    BY <1>1, <1>2, <2>2 DEF Shape, FlightOK
  <2>3. QED BY <2>1, <2>2
<1>4. Shape'
  BY <1>1, <1>2, <1>3 DEF Shape
<1>5. RequestsOK' /\ IdentityHasAccount'
  BY <1>1, <1>2 DEF RequestsOK, IdentityHasAccount, Exists
<1>6. ASSUME NEW s, NEW v \in Users PROVE Holds(v, s)' <=> IF v = u THEN s = t ELSE Holds(v, s)
  BY <1>1, <1>2 DEF Holds, Shape
<1>7. ASSUME NEW s \in Tokens \ contested' PROVE Used(s)'
  <2>1. s \notin contested
    BY <1>1, <1>7
  <2>2. Used(s)
    BY <1>2, <2>1 DEF UsedOnce
  <2>3. CASE s = t
    <3>1. \A v \in Users \ {u} : ~Holds(v, t)
      BY <1>1, <1>7, <2>3
    <3>2. joined[s] = {}
      BY <1>1, <1>2, <2>3 DEF RequestsOK
    <3>3. QED BY <1>1, <1>6, <2>3, <3>1, <3>2 DEF Used
  <2>4. CASE s # t
    <3>1. \A v \in Users : Holds(v, s)' => Holds(v, s)
      BY <1>6, <2>4
    <3>2. QED BY <1>1, <2>2, <3>1 DEF Used
  <2>5. QED BY <2>3, <2>4
<1>8. UsedOnce'
  BY <1>7 DEF UsedOnce
<1>9. QED BY <1>4, <1>5, <1>8 DEF LinkInv

(* The confirmation that joins two accounts was the only one to hold its *)
(* request, or the request is contested.                                 *)
LEMMA ConfirmKeeps ==
  ASSUME LinkInv, NEW u \in Users, NEW c, Confirm(u, c)
  PROVE  LinkInv'
<1>. DEFINE t == flight[u].token
            gone == flight[u].account
            a == requests[t].account
<1>1. Shape /\ RequestsOK /\ UsedOnce /\ IdentityHasAccount
  BY DEF LinkInv
<1>2. /\ flight[u].pc = "linking" /\ flight' = [flight EXCEPT ![u] = Idle] /\ Exists(gone)
      /\ owner' = [v \in Users |-> IF owner[v] = gone THEN a ELSE owner[v]]
      /\ requests' = [requests EXCEPT ![t].state = "over"]
      /\ accounts' = [accounts EXCEPT ![gone] = "gone"]
      /\ joined' = [joined EXCEPT ![t] = @ \union {gone}]
      /\ contested' = contested
  BY DEF Confirm, Join, At, Answered
<1>3. /\ t \in Tokens /\ gone \in Ids /\ a \in Ids /\ a # gone
      /\ accounts[a] # "none" /\ requests[t].state # "none"
  BY <1>1, <1>2 DEF Shape, FlightOK, RequestsOK
<1>4. /\ \A s \in Tokens : requests'[s].account = requests[s].account
      /\ \A s \in Tokens : requests'[s].state = IF s = t THEN "over" ELSE requests[s].state
      /\ requests' \in [Tokens -> [state : {"none", "open", "over"}, account : Ids \union {NoAccount}]]
  BY <1>1, <1>2, <1>3 DEF Shape
<1>5. /\ \A b \in Ids : accounts'[b] = IF b = gone THEN "gone" ELSE accounts[b]
      /\ accounts' \in [Ids -> {"none", "gone", "on", "off"}]
      /\ accounts[gone] # "none"
  BY <1>1, <1>2, <1>3 DEF Shape, Exists
<1>6. /\ \A s \in Tokens : joined'[s] = IF s = t THEN joined[t] \union {gone} ELSE joined[s]
      /\ DOMAIN joined' = Tokens
  BY <1>1, <1>2, <1>3 DEF Shape
<1>7. /\ \A v \in Users : flight'[v] = IF v = u THEN Idle ELSE flight[v]
      /\ DOMAIN flight' = Users
  BY <1>1, <1>2 DEF Shape
<1>8. owner' \in [Users -> Ids]
  BY <1>1, <1>2, <1>3 DEF Shape
<1>. HIDE DEF t, gone, a
<1>9. ASSUME NEW v \in Users PROVE FlightOK(flight[v])'
  <2>1. CASE v = u
    BY <1>7, <2>1 DEF FlightOK, Idle
  <2>2. CASE v # u
    <3>1. flight'[v] = flight[v] /\ FlightOK(flight[v])
      BY <1>1, <1>7, <2>2 DEF Shape
    <3>2. QED BY <1>4, <1>5, <3>1 DEF FlightOK
  <2>3. QED BY <2>1, <2>2
<1>10. Shape'
  BY <1>4, <1>5, <1>6, <1>7, <1>8, <1>9 DEF Shape
<1>11. RequestsOK'
  BY <1>1, <1>3, <1>4, <1>5, <1>6 DEF RequestsOK
<1>12. Holds(u, t)
  BY <1>2 DEF Holds, t
<1>13. ASSUME NEW s, NEW v \in Users PROVE Holds(v, s)' <=> (v # u /\ Holds(v, s))
  BY <1>7 DEF Holds, Idle
<1>14. ASSUME NEW s \in Tokens \ contested' PROVE Used(s)'
  <2>1. Used(s)
    BY <1>1, <1>2, <1>14 DEF UsedOnce
  <2>2. CASE s = t
    <3>1. joined[t] = {} /\ \A v \in Users : Holds(v, t) => v = u
      BY <1>12, <2>1, <2>2 DEF Used
    <3>2. joined'[s] = {gone} /\ \A v \in Users : ~Holds(v, s)'
      BY <1>3, <1>6, <1>13, <2>2, <3>1
    <3>3. QED BY <1>3, <3>2 DEF Used
  <2>3. CASE s # t
    BY <1>6, <1>13, <2>1, <2>3 DEF Used
  <2>4. QED BY <2>2, <2>3
<1>15. UsedOnce'
  BY <1>14 DEF UsedOnce
<1>16. ASSUME NEW b \in Ids, ~Exists(b)' PROVE b = gone \/ ~Exists(b)
  BY <1>5, <1>16 DEF Exists
<1>17. ASSUME NEW b \in Ids, ~Exists(b) PROVE ~Exists(b)'
  BY <1>5, <1>17 DEF Exists
<1>18. ASSUME NEW v \in Users, ~Exists(owner[v])'
       PROVE  \E s \in Tokens : (joined[s] # {} /\ ~Exists(requests[s].account))'
  <2>1. owner[v] \in Ids /\ owner'[v] \in Ids /\ owner[v] # NoAccount
    BY <1>1, <1>8 DEF Shape, Ids, NoAccount
  <2>2. CASE owner[v] = gone
    <3>1. owner'[v] = a
      BY <1>2, <2>2
    <3>2. joined'[t] # {} /\ requests'[t].account = a
      BY <1>3, <1>4, <1>6 DEF a
    <3>3. QED BY <1>3, <1>18, <3>1, <3>2 DEF Exists
  <2>3. CASE owner[v] # gone
    <3>1. owner'[v] = owner[v]
      BY <1>2, <2>3
    <3>2. ~Exists(owner[v])
      BY <1>5, <1>18, <2>1, <2>3, <3>1 DEF Exists
    <3>3. PICK s \in Tokens : joined[s] # {} /\ ~Exists(requests[s].account)
      BY <1>1, <2>1, <3>2 DEF IdentityHasAccount
    <3>4. requests[s].account \in Ids /\ requests'[s].account = requests[s].account /\ joined'[s] # {}
      BY <1>1, <1>4, <1>6, <3>3 DEF RequestsOK
    <3>5. QED BY <1>5, <3>3, <3>4 DEF Exists
  <2>4. QED BY <2>2, <2>3
<1>19. IdentityHasAccount'
  BY <1>18 DEF IdentityHasAccount
<1>20. QED BY <1>10, <1>11, <1>15, <1>19 DEF LinkInv

(* The identity that leaves gets an account that no link request knows. *)
LEMMA UnlinkKeeps ==
  ASSUME LinkInv, NEW u \in Users, Unlink(u)
  PROVE  LinkInv'
<1>1. Shape /\ RequestsOK /\ UsedOnce /\ IdentityHasAccount
  BY DEF LinkInv
<1>2. PICK new, on, who :
        /\ new \in Ids /\ accounts[new] = "none" /\ on \in {"on", "off"} /\ who \in Users
        /\ accounts' = [accounts EXCEPT ![new] = on] /\ owner' = [owner EXCEPT ![who] = new]
  BY <1>1, FreshIsNew DEF Unlink, At, Shape, FlightOK
<1>3. flight' = [flight EXCEPT ![u] = Idle] /\ UNCHANGED <<requests, contested, joined>>
  BY DEF Unlink, Answered
<1>4. /\ \A b \in Ids : accounts'[b] = IF b = new THEN on ELSE accounts[b]
      /\ accounts' \in [Ids -> {"none", "gone", "on", "off"}]
      /\ \A v \in Users : owner'[v] = IF v = who THEN new ELSE owner[v]
      /\ owner' \in [Users -> Ids]
  BY <1>1, <1>2 DEF Shape
<1>5. /\ \A v \in Users : flight'[v] = IF v = u THEN Idle ELSE flight[v]
      /\ DOMAIN flight' = Users
  BY <1>1, <1>3 DEF Shape
<1>6. ASSUME NEW v \in Users PROVE FlightOK(flight[v])'
  <2>1. CASE v = u
    BY <1>5, <2>1 DEF FlightOK, Idle
  <2>2. CASE v # u
    <3>1. flight'[v] = flight[v] /\ FlightOK(flight[v])
      BY <1>1, <1>5, <2>2 DEF Shape
    <3>2. QED BY <1>2, <1>3, <1>4, <3>1 DEF FlightOK
  <2>3. QED BY <2>1, <2>2
<1>7. Shape'
  BY <1>1, <1>3, <1>4, <1>5, <1>6 DEF Shape
<1>8. RequestsOK'
  BY <1>1, <1>2, <1>3, <1>4 DEF RequestsOK
<1>9. \A s : \A v \in Users : Holds(v, s)' => Holds(v, s)
  BY <1>5 DEF Holds, Idle
<1>10. UsedOnce'
  BY <1>1, <1>3, <1>9 DEF UsedOnce, Used
<1>11. ASSUME NEW v \in Users, ~Exists(owner[v])'
       PROVE  \E s \in Tokens : (joined[s] # {} /\ ~Exists(requests[s].account))'
  <2>1. owner[v] \in Ids /\ owner[v] # NoAccount /\ new # NoAccount
    BY <1>1, <1>2 DEF Shape, Ids, NoAccount
  <2>2. v # who
    BY <1>2, <1>4, <1>11, <2>1 DEF Exists
  <2>3. ~Exists(owner[v])
    BY <1>2, <1>4, <1>11, <2>1, <2>2 DEF Exists
  <2>4. PICK s \in Tokens : joined[s] # {} /\ ~Exists(requests[s].account)
    BY <1>1, <2>1, <2>3 DEF IdentityHasAccount
  <2>5. requests[s].account \in Ids /\ requests[s].account # new
    BY <1>1, <1>2, <2>4 DEF RequestsOK
  <2>6. QED BY <1>3, <1>4, <2>4, <2>5 DEF Exists
<1>12. IdentityHasAccount'
  BY <1>11 DEF IdentityHasAccount
<1>13. QED BY <1>7, <1>8, <1>10, <1>12 DEF LinkInv

LEMMA NextLinkInv == LinkInv /\ [Next]_vars => LinkInv'
<1>. SUFFICES ASSUME LinkInv, [Next]_vars PROVE LinkInv'
  OBVIOUS
<1>1. Shape
  BY DEF LinkInv
<1>2. ASSUME NEW u \in Users, Bot(u) PROVE LinkInv'
  BY <1>1, <1>2, BotsAreSteady, SteadyKeeps
<1>3. ASSUME NEW u \in Users, Plain(u) PROVE LinkInv'
  BY <1>1, <1>3, PlainIsSteady, SteadyKeeps
<1>4. ASSUME NEW u \in Users, MiniApp(u) PROVE LinkInv'
  <2>1. \/ Plain(u) \/ Unlink(u)
        \/ \E t \in Tokens : CreateLink(u, t) \/ LookLink(u, t)
        \/ \E c \in LinkChoices : Confirm(u, c)
    BY <1>4 DEF MiniApp, Plain
  <2>2. QED BY <1>3, <2>1, CreateLinkKeeps, LookLinkKeeps, ConfirmKeeps, UnlinkKeeps
<1>5. CASE Promotion
  BY <1>1, <1>5, PromotionsAreSteady, SteadyKeeps
<1>6. CASE UNCHANGED vars
  BY <1>1, <1>6, SameFlights, SameAccounts, SteadyKeeps DEF vars, Steady
<1>7. QED BY <1>2, <1>4, <1>5, <1>6, LinkExpiresKeeps DEF Next

-----------------------------------------------------------------------------
(* The account of an identity exists, whatever links, promotions, deletions *)
(* and logins come in between, unless it was merged into one that was       *)
(* itself gone when the other side confirmed (account_service.py,           *)
(* confirm_link).                                                           *)
THEOREM IdentitiesKeepAccounts == Spec => []IdentityHasAccount
<1>1. LinkInv => IdentityHasAccount
  BY DEF LinkInv
<1>2. QED BY <1>1, InitLinkInv, NextLinkInv, PTL DEF Spec

(* A link request that two confirmations never held at once joins one      *)
(* account at most, though marking it as used asks for nothing             *)
(* (account_service.py, confirm_link).                                     *)
THEOREM RequestsJoinOnce == Spec => []OneLinkPerToken
<1>1. LinkInv => OneLinkPerToken
  <2>. SUFFICES ASSUME LinkInv, NEW t \in Tokens \ contested PROVE Cardinality(joined[t]) <= 1
    BY DEF OneLinkPerToken
  <2>1. Used(t)
    BY DEF LinkInv, UsedOnce
  <2>2. CASE joined[t] = {}
    BY <2>2, FS_EmptySet
  <2>3. CASE joined[t] # {}
    <3>1. PICK a \in Ids : joined[t] = {a}
      BY <2>1, <2>3 DEF Used
    <3>2. Cardinality({a}) = 1
      BY FS_Singleton
    <3>3. QED BY <3>1, <3>2
  <2>4. QED BY <2>2, <2>3
<1>2. QED BY <1>1, InitLinkInv, NextLinkInv, PTL DEF Spec

(* What a request of the mini app or of a bot holds in its hands. *)
HandOK(f) ==
  /\ f.pc = "registering" => f.seen \in Keys \union {"none"}
  /\ f.pc = "adding" => f.account \in Ids /\ f.key \in Keys /\ f.main \in BOOLEAN
  /\ f.pc = "row" =>
       /\ f \in [pc : {"row"}, account : Ids, key : Keys, there : BOOLEAN, main : BOOLEAN]
       /\ accounts[f.account] # "none"
       /\ f.there => f.key \in DOMAIN subs[f.account]
  /\ f.pc = "unlinking" =>
       /\ f.account \in Ids /\ f.copy \in Subs
       /\ f.account \notin raced => Single(MainGroups(f.copy))
       /\ f.account \notin strayed => Single(Mains(f.copy))

HandsInv == \A u \in Users : HandOK(flight[u])

SubsInv ==
  /\ subs \in [Ids -> Subs]
  /\ \A a \in Ids : /\ a \notin raced => Single(MainGroups(subs[a]))
                    /\ a \notin strayed => Single(Mains(subs[a]))

(* The row shows the account's primary subscription. *)
Excused(u) == u \in late \/ owner[u] \in strayed \union raced \/ ~Exists(owner[u])
RowsInv ==
  /\ rows \in [Users -> Row]
  /\ \A u \in Users : rows[u].known => Excused(u) \/ rows[u].key = Shown(subs[owner[u]])

OwnersInv == \A u \in Users : accounts[owner[u]] # "none"

FollowInv == SubsInv /\ RowsInv /\ HandsInv /\ OwnersInv

-----------------------------------------------------------------------------
(* Steps on the subscriptions of one account *)

(* Nobody is forgotten, and nobody excused is called to account again. *)
Grows == strayed \subseteq strayed' /\ raced \subseteq raced'

LEMMA StrayMarks ==
  ASSUME NEW b \in Ids, NEW s \in Subs, subs \in [Ids -> Subs], subs' = [subs EXCEPT ![b] = s], Stray(subs')
  PROVE  strayed \subseteq strayed' /\ (b \notin strayed' => Single(Mains(s)))
<1>1. strayed' = strayed \union {a \in Ids : Cardinality(Mains(subs'[a])) > 1} /\ subs'[b] = s
  BY DEF Stray
<1>2. ASSUME b \notin strayed' PROVE Single(Mains(s))
  <2>1. IsFiniteSet(Mains(s)) /\ Cardinality(Mains(s)) \in Nat
    BY KeysAreFinite, FS_CardinalityType
  <2>2. Cardinality(Mains(s)) <= 1
    BY <1>1, <1>2, <2>1
  <2>3. QED BY <2>1, <2>2, SingleByCount
<1>3. QED BY <1>1, <1>2

(* A row after a synchronisation. *)
LEMMA ProjectedIs ==
  ASSUME NEW r \in Row, NEW s \in Subs
  PROVE  Projected(r, s) \in Row /\ Projected(r, s).known = r.known /\ Projected(r, s).key = Shown(s)
<1>1. PICK key \in Keys \union {"none"} : key = Shown(s)
  BY ShownIs
<1>2. PICK half \in 0 .. 1 :
        half = IF Mains(s) # {} /\ r.key = Shown(s) THEN s[Shown(s)].half ELSE 0
  BY ShownIs
<1>3. Projected(r, s) = [r EXCEPT !.key = key, !.half = half]
  BY <1>1, <1>2 DEF Projected
<1>4. [r EXCEPT !.key = key, !.half = half] \in Row
  BY DEF Row
<1>5. [r EXCEPT !.key = key, !.half = half].known = r.known /\ [r EXCEPT !.key = key, !.half = half].key = key
  BY DEF Row
<1>6. QED BY <1>1, <1>3, <1>4, <1>5

(* The rows rs are those of the table, or the handler has written into those *)
(* of its own account.                                                       *)
RowsOf(rs, b) ==
  /\ rs \in [Users -> Row]
  /\ \A u \in Users : rs[u].known = rows[u].known /\ (owner[u] # b => rs[u].key = rows[u].key)

LEMMA SyncedKeeps ==
  ASSUME Shape, SubsInv, RowsInv, Grows, NEW b \in Ids, NEW s \in Subs, NEW rs, RowsOf(rs, b),
         subs' = [subs EXCEPT ![b] = s], UNCHANGED <<owner, accounts>>,
         b \notin raced' => Single(MainGroups(s)), b \notin strayed' => Single(Mains(s)),
         rows' = Synced(rs, owner, s, b), late' = late \ {v \in Users : owner[v] = b}
  PROVE  SubsInv' /\ RowsInv'
<1>1. subs' \in [Ids -> Subs] /\ subs'[b] = s /\ \A a \in Ids \ {b} : subs'[a] = subs[a]
  BY DEF SubsInv
<1>2. SubsInv'
  BY <1>1 DEF SubsInv, Grows
<1>3. /\ rows' \in [Users -> Row]
      /\ \A u \in Users : /\ rows'[u].known = rs[u].known
                          /\ rs[u].known /\ owner[u] = b => rows'[u].key = Shown(s)
                          /\ owner[u] # b => rows'[u] = rs[u]
  <2>1. rs \in [Users -> Row]
    BY DEF RowsOf
  <2>2. rows' = [u \in Users |-> IF rs[u].known /\ owner[u] = b THEN Projected(rs[u], s) ELSE rs[u]]
    BY DEF Synced
  <2>3. \A u \in Users : rows'[u] = IF rs[u].known /\ owner[u] = b THEN Projected(rs[u], s) ELSE rs[u]
    BY <2>2
  <2>4. ASSUME NEW u \in Users
        PROVE  /\ rows'[u] \in Row /\ rows'[u].known = rs[u].known
               /\ rs[u].known /\ owner[u] = b => rows'[u].key = Shown(s)
               /\ owner[u] # b => rows'[u] = rs[u]
    <3>1. PICK r \in Row : r = rs[u]
      BY <2>1
    <3>2. QED BY <2>3, <3>1, ProjectedIs
  <2>5. QED BY <2>2, <2>4
<1>4. ASSUME NEW u \in Users, rows'[u].known
      PROVE  Excused(u)' \/ rows'[u].key = Shown(subs'[owner'[u]])
  <2>1. rows[u].known /\ rs[u].known
    BY <1>3, <1>4 DEF RowsOf
  <2>2. CASE owner[u] = b
    BY <1>1, <1>3, <2>1, <2>2
  <2>3. CASE owner[u] # b
    <3>1. owner[u] \in Ids /\ subs'[owner[u]] = subs[owner[u]]
      BY <1>1, <2>3 DEF Shape
    <3>2. rows'[u].key = rows[u].key
      BY <1>3, <2>3 DEF RowsOf
    <3>3. Excused(u) \/ rows[u].key = Shown(subs[owner[u]])
      BY <2>1 DEF RowsInv
    <3>4. Excused(u) => Excused(u)'
      BY <2>3 DEF Excused, Grows, Exists
    <3>5. QED BY <3>1, <3>2, <3>3, <3>4
  <2>4. QED BY <2>2, <2>3
<1>5. RowsInv'
  BY <1>3, <1>4 DEF RowsInv
<1>6. QED BY <1>2, <1>5

(* Without a synchronisation the primary subscription has to stay the same, or *)
(* the row was written to what it is now.                                      *)
LEMMA UnsyncedKeeps ==
  ASSUME Shape, SubsInv, RowsInv, Grows, NEW b \in Ids, NEW s \in Subs, NEW rs, RowsOf(rs, b),
         subs' = [subs EXCEPT ![b] = s], UNCHANGED <<owner, accounts>>,
         b \notin raced' => Single(MainGroups(s)), b \notin strayed' => Single(Mains(s)),
         rows' = rs, late' = late,
         \/ b \in raced'
         \/ Mains(s) = Mains(subs[b]) /\ \A u \in Users : rs[u].key = rows[u].key \/ rs[u].key = Shown(s)
  PROVE  SubsInv' /\ RowsInv'
<1>1. subs' \in [Ids -> Subs] /\ subs'[b] = s /\ \A a \in Ids \ {b} : subs'[a] = subs[a]
  BY DEF SubsInv
<1>2. SubsInv'
  BY <1>1 DEF SubsInv, Grows
<1>3. ASSUME NEW u \in Users, rows'[u].known
      PROVE  Excused(u)' \/ rows'[u].key = Shown(subs'[owner'[u]])
  <2>1. rows[u].known /\ rows'[u].key = rs[u].key
    BY <1>3 DEF RowsOf
  <2>2. Excused(u) \/ rows[u].key = Shown(subs[owner[u]])
    BY <2>1 DEF RowsInv
  <2>3. Excused(u) => Excused(u)'
    BY DEF Excused, Grows, Exists
  <2>4. CASE owner[u] = b
    <3>1. CASE b \in raced' \/ b \in strayed'
      BY <2>4, <3>1 DEF Excused
    <3>2. CASE b \notin raced' /\ b \notin strayed'
      <4>1. Shown(s) = Shown(subs[b])
        BY <3>2, ShownByMains DEF SubsInv
      <4>2. QED BY <1>1, <2>1, <2>2, <2>3, <2>4, <3>2, <4>1
    <3>3. QED BY <3>1, <3>2
  <2>5. CASE owner[u] # b
    <3>1. owner[u] \in Ids /\ subs'[owner[u]] = subs[owner[u]]
      BY <1>1, <2>5 DEF Shape
    <3>2. rows'[u].key = rows[u].key
      BY <2>1, <2>5 DEF RowsOf
    <3>3. QED BY <2>2, <2>3, <3>1, <3>2
  <2>6. QED BY <2>4, <2>5
<1>4. RowsInv'
  BY <1>3 DEF RowsInv, RowsOf
<1>5. QED BY <1>2, <1>4

(* Rows that a step leaves alone but for what it excuses. *)
LEMMA RowsKept ==
  ASSUME Shape, SubsInv, RowsInv, Grows, UNCHANGED <<subs, owner, raced>>, AccountsStay,
         late \subseteq late', rows' \in [Users -> Row],
         \A u \in Users : \/ rows'[u].known = rows[u].known /\ rows'[u].key = rows[u].key
                          \/ u \in late' \/ owner[u] \in strayed' \/ ~Exists(owner[u])
  PROVE  SubsInv' /\ RowsInv'
<1>1. SubsInv'
  BY DEF SubsInv, Grows
<1>2. ASSUME NEW u \in Users, rows'[u].known
      PROVE  Excused(u)' \/ rows'[u].key = Shown(subs'[owner'[u]])
  <2>1. Excused(u) => Excused(u)'
    BY DEF Excused, Grows, Exists, AccountsStay, Shape
  <2>2. CASE rows'[u].known = rows[u].known /\ rows'[u].key = rows[u].key
    BY <1>2, <2>1, <2>2 DEF RowsInv
  <2>3. CASE u \in late' \/ owner[u] \in strayed'
    BY <2>3 DEF Excused
  <2>4. CASE ~Exists(owner[u])
    BY <2>1, <2>4 DEF Excused
  <2>5. QED BY <2>2, <2>3, <2>4
<1>3. QED BY <1>1, <1>2 DEF RowsInv

-----------------------------------------------------------------------------
(* What requests hold *)

LEMMA HandsKept ==
  ASSUME Shape, HandsInv, Grows, \A a \in Ids : accounts[a] # "none" => accounts'[a] # "none",
         \A v \in Users : \/ HandOK(flight[v])'
                          \/ /\ flight'[v] = flight[v]
                             /\ flight[v].pc = "row" /\ flight[v].there => flight[v].key \in DOMAIN subs'[flight[v].account]
  PROVE  HandsInv'
<1>1. ASSUME NEW v \in Users, flight'[v] = flight[v],
             flight[v].pc = "row" /\ flight[v].there => flight[v].key \in DOMAIN subs'[flight[v].account]
      PROVE  HandOK(flight[v])'
  <2>1. PICK f : f = flight[v] /\ f = flight'[v]
    BY <1>1
  <2>2. HandOK(f)
    BY <2>1 DEF HandsInv
  <2>3. f.pc = "row" /\ f.there => f.key \in DOMAIN subs'[f.account]
    BY <1>1, <2>1
  <2>4. f.pc = "row" => accounts'[f.account] # "none"
    BY <2>2 DEF HandOK
  <2>5. HandOK(f)'
    BY <2>2, <2>3, <2>4 DEF HandOK, Grows
  <2>6. QED BY <2>1, <2>5
<1>2. QED BY <1>1 DEF HandsInv

(* No key is taken from an account. *)
LEMMA HandsByKeys ==
  ASSUME Shape, HandsInv, Grows, \A a \in Ids : accounts[a] # "none" => accounts'[a] # "none",
         \A a \in Ids : accounts[a] # "none" => DOMAIN subs[a] \subseteq DOMAIN subs'[a],
         \A v \in Users : HandOK(flight[v])' \/ flight'[v] = flight[v]
  PROVE  HandsInv'
<1>1. ASSUME NEW v \in Users, flight[v].pc = "row" /\ flight[v].there
      PROVE  flight[v].key \in DOMAIN subs'[flight[v].account]
  <2>1. HandOK(flight[v])
    BY DEF HandsInv
  <2>2. flight[v].account \in Ids
    BY <1>1, <2>1 DEF HandOK
  <2>3. QED BY <1>1, <2>1, <2>2 DEF HandOK
<1>2. QED BY <1>1, HandsKept

LEMMA HandsOne ==
  ASSUME Shape, HandsInv, Grows, \A a \in Ids : accounts[a] # "none" => accounts'[a] # "none",
         \A a \in Ids : accounts[a] # "none" => DOMAIN subs[a] \subseteq DOMAIN subs'[a],
         NEW u \in Users, NEW f, flight' = [flight EXCEPT ![u] = f], HandOK(f)'
  PROVE  HandsInv'
<1>1. \A v \in Users : flight'[v] = IF v = u THEN f ELSE flight[v]
  BY DEF Shape
<1>2. HandOK(flight[u])'
  BY <1>1 DEF HandOK
<1>3. QED BY <1>1, <1>2, HandsByKeys

LEMMA IdleHand == HandOK(Idle)'
BY DEF HandOK, Idle

LEMMA HandsDropped ==
  ASSUME Shape, HandsInv, Grows, UNCHANGED accounts, NEW b \in Ids, NEW s, NEW keys, NEW u \in Users,
         subs \in [Ids -> Subs], subs' = [subs EXCEPT ![b] = s], DOMAIN s = DOMAIN subs[b] \ keys,
         flight' = Dropped(flight, b, keys) \/ flight' = [Dropped(flight, b, keys) EXCEPT ![u] = Idle]
  PROVE  HandsInv'
<1>1. subs'[b] = s /\ \A a \in Ids \ {b} : subs'[a] = subs[a]
  OBVIOUS
<1>2. ASSUME NEW v \in Users
      PROVE  \/ HandOK(flight[v])'
             \/ /\ flight'[v] = flight[v]
                /\ flight[v].pc = "row" /\ flight[v].there => flight[v].key \in DOMAIN subs'[flight[v].account]
  <2>1. PICK f : f = flight[v]
    OBVIOUS
  <2>2. HandOK(f)
    BY <2>1 DEF HandsInv
  <2>3. CASE flight'[v] = Idle
    BY <2>3, IdleHand DEF HandOK, Idle
  <2>4. CASE f.pc = "row" /\ f.account = b /\ f.key \in keys /\ flight'[v] # Idle
    <3>1. flight'[v] = [f EXCEPT !.there = FALSE]
      BY <2>1, <2>4 DEF Dropped
    <3>2. f \in [pc : {"row"}, account : Ids, key : Keys, there : BOOLEAN, main : BOOLEAN]
      BY <2>2, <2>4 DEF HandOK
    <3>3. PICK g : g = [f EXCEPT !.there = FALSE]
      OBVIOUS
    <3>4. /\ g \in [pc : {"row"}, account : Ids, key : Keys, there : BOOLEAN, main : BOOLEAN]
          /\ ~g.there /\ g.account = b /\ g.pc = "row"
      BY <2>4, <3>2, <3>3
    <3>5. accounts'[b] # "none"
      BY <2>2, <2>4 DEF HandOK
    <3>6. HandOK(g)'
      BY <3>4, <3>5 DEF HandOK
    <3>7. g = flight'[v]
      BY <3>1, <3>3
    <3>8. QED BY <3>6, <3>7 DEF HandOK
  <2>5. CASE ~(f.pc = "row" /\ f.account = b /\ f.key \in keys) /\ flight'[v] # Idle
    <3>1. flight'[v] = flight[v]
      BY <2>1, <2>5 DEF Dropped
    <3>2. ASSUME f.pc = "row", f.there PROVE f.key \in DOMAIN subs'[f.account]
      <4>1. f.account \in Ids /\ f.key \in DOMAIN subs[f.account]
        BY <2>2, <3>2 DEF HandOK
      <4>2. QED BY <1>1, <2>5, <3>2, <4>1
    <3>3. QED BY <2>1, <3>1, <3>2
  <2>6. QED BY <2>3, <2>4, <2>5
<1>3. QED BY <1>2, HandsKept

-----------------------------------------------------------------------------
(* What the bots do *)

LEMMA OwnersStay ==
  ASSUME Shape, OwnersInv, AccountsStay
  PROVE  OwnersInv' /\ \A a \in Ids : accounts[a] # "none" => accounts'[a] # "none"
BY DEF Shape, OwnersInv, AccountsStay

(* A step that leaves the subscriptions alone. *)
LEMMA QuietKeeps ==
  ASSUME Shape, FollowInv, Grows, UNCHANGED <<subs, owner, raced>>, AccountsStay,
         late \subseteq late', rows' \in [Users -> Row],
         \A u \in Users : \/ rows'[u].known = rows[u].known /\ rows'[u].key = rows[u].key
                          \/ u \in late' \/ owner[u] \in strayed' \/ ~Exists(owner[u]),
         flight' = flight \/ \E u \in Users : \E f : flight' = [flight EXCEPT ![u] = f] /\ HandOK(f)'
  PROVE  FollowInv'
<1>1. SubsInv' /\ RowsInv'
  BY RowsKept DEF FollowInv
<1>2. OwnersInv' /\ \A a \in Ids : accounts[a] # "none" => accounts'[a] # "none"
  BY OwnersStay DEF FollowInv
<1>3. \A a \in Ids : DOMAIN subs[a] \subseteq DOMAIN subs'[a]
  OBVIOUS
<1>4. CASE flight' = flight
  <2>1. HandsInv'
    BY <1>2, <1>3, <1>4, HandsByKeys DEF FollowInv
  <2>2. QED BY <1>1, <1>2, <2>1 DEF FollowInv
<1>5. CASE \E u \in Users : \E f : flight' = [flight EXCEPT ![u] = f] /\ HandOK(f)'
  <2>1. HandsInv'
    BY <1>2, <1>3, <1>5, HandsOne DEF FollowInv
  <2>2. QED BY <1>1, <1>2, <2>1 DEF FollowInv
<1>6. QED BY <1>4, <1>5

LEMMA RegisterFollows ==
  ASSUME Shape, FollowInv, NEW u \in Users, Register(u)
  PROVE  FollowInv'
<1>1. rows \in [Users -> Row]
  BY DEF FollowInv, RowsInv
<1>2. PICK f : f = [pc |-> "registering", seen |-> rows[u].key]
  OBVIOUS
<1>3. f.pc = "registering" /\ f.seen \in Keys \union {"none"}
  BY <1>1, <1>2 DEF Row
<1>4. HandOK(f)'
  BY <1>3 DEF HandOK
<1>5. flight' = [flight EXCEPT ![u] = f] /\ Grows /\ UNCHANGED <<rows, accounts, subs, owner, raced, late>>
  BY <1>2 DEF Register, history, Grows
<1>6. AccountsStay
  BY <1>5, SameAccounts
<1>. HIDE DEF FollowInv
<1>7. QED BY <1>1, <1>4, <1>5, <1>6, QuietKeeps

LEMMA WriteFollows ==
  ASSUME Shape, FollowInv, NEW u \in Users, Write(u)
  PROVE  FollowInv'
<1>1. rows \in [Users -> Row] /\ HandOK(flight[u])
  BY DEF FollowInv, RowsInv, HandsInv
<1>2. PICK seen \in Keys \union {"none"} : seen = flight[u].seen
  BY <1>1 DEF HandOK, Write
<1>. DEFINE stale == seen \notin {"none", rows[u].key}
<1>3. PICK r : r = [rows[u] EXCEPT !.known = TRUE, !.on = rows[u].on \/ rows[u].auto, !.auto = FALSE,
                                   !.key = IF stale THEN seen ELSE rows[u].key,
                                   !.half = IF stale THEN 0 ELSE rows[u].half]
  OBVIOUS
<1>4. r \in Row /\ r.known = TRUE /\ (~stale => r.key = rows[u].key)
  <2>1. rows[u] \in Row
    BY <1>1
  <2>2. (rows[u].on \/ rows[u].auto) \in BOOLEAN
    OBVIOUS
  <2>3. PICK on \in BOOLEAN, key \in Keys \union {"none"}, half \in 0 .. 1 :
          /\ r = [rows[u] EXCEPT !.known = TRUE, !.on = on, !.auto = FALSE, !.key = key, !.half = half]
          /\ ~stale => key = rows[u].key
    <3>1. CASE stale
      <4>1. r = [rows[u] EXCEPT !.known = TRUE, !.on = rows[u].on \/ rows[u].auto, !.auto = FALSE, !.key = seen, !.half = 0]
        BY <1>3, <3>1
      <4>2. 0 \in 0 .. 1
        OBVIOUS
      <4>. HIDE DEF stale
      <4>3. QED BY <1>2, <2>2, <3>1, <4>1, <4>2
    <3>2. CASE ~stale
      BY <1>2, <1>3, <2>1, <2>2, <3>2 DEF Row
    <3>3. QED BY <3>1, <3>2
  <2>4. r = [known |-> TRUE, key |-> key, half |-> half, room |-> rows[u].room, on |-> on, auto |-> FALSE]
    BY <2>1, <2>3 DEF Row
  <2>5. rows[u].room \in Keys \union {"none"}
    BY <2>1 DEF Row
  <2>6. QED BY <2>3, <2>4, <2>5 DEF Row
<1>5. rows' = [rows EXCEPT ![u] = r]
  BY <1>2, <1>3 DEF Write
<1>6. late' = IF stale \/ (~rows[u].known /\ owner[u] # NoAccount) THEN late \union {u} ELSE late
  BY <1>2 DEF Write
<1>7. owner[u] # NoAccount /\ rows[u].known \in BOOLEAN
  BY <1>1 DEF Shape, Ids, NoAccount, Row
<1>8. rows'[u] = r /\ \A v \in Users \ {u} : rows'[v] = rows[v]
  BY <1>1, <1>5
<1>9. \A v \in Users : \/ rows'[v].known = rows[v].known /\ rows'[v].key = rows[v].key
                       \/ v \in late'
  <2>1. CASE stale \/ ~rows[u].known
    BY <1>6, <1>7, <1>8, <2>1
  <2>2. CASE ~stale /\ rows[u].known
    BY <1>4, <1>7, <1>8, <2>2
  <2>3. QED BY <2>1, <2>2
<1>10. rows' \in [Users -> Row]
  BY <1>1, <1>4, <1>5
<1>11. flight' = [flight EXCEPT ![u] = Idle] /\ Grows /\ UNCHANGED <<accounts, subs, owner, raced>> /\ late \subseteq late'
  BY <1>6 DEF Write, Grows
<1>12. AccountsStay
  BY <1>11, SameAccounts
<1>. HIDE DEF FollowInv, stale
<1>13. QED BY <1>9, <1>10, <1>11, <1>12, IdleHand, QuietKeeps

(* A bot's account is read as it is. *)
LEMMA Got ==
  ASSUME Shape, NEW u \in Users, NEW rs
  PROVE  GetOrCreate(u, rs) = [id |-> owner[u], subs |-> subs, owner |-> owner, accounts |-> accounts]
<1>1. owner[u] # NoAccount
  BY DEF Shape, Ids, NoAccount
<1>2. QED BY <1>1 DEF GetOrCreate

(* Rows in which the user's own is changed. *)
LEMMA OwnRow ==
  ASSUME rows \in [Users -> Row], NEW u \in Users, NEW r \in Row, r.known = rows[u].known
  PROVE  RowsOf([rows EXCEPT ![u] = r], owner[u]) /\ [rows EXCEPT ![u] = r][u] = r
         /\ \A v \in Users \ {u} : [rows EXCEPT ![u] = r][v] = rows[v]
BY DEF RowsOf

LEMMA SubscribeFollows ==
  ASSUME Shape, FollowInv, NEW u \in Users, NEW rs, RowsOf(rs, owner[u]), NEW key \in Keys, NEW asMain \in BOOLEAN,
         asMain \/ \A v \in Users : rs[v].key = rows[v].key,
         Subscribe(u, rs, key, asMain), UNCHANGED <<flight, raced>>
  PROVE  FollowInv'
<1>1. PICK b \in Ids : b = owner[u]
  BY DEF Shape
<1>2. PICK main \in BOOLEAN : main = BecomesMain(subs[b], key, asMain) /\ (asMain => main)
  BY DEF BecomesMain
<1>3. SubsInv /\ RowsInv /\ HandsInv /\ OwnersInv
  BY DEF FollowInv
<1>4. PICK s : s = Added(subs[b], key, main)
  OBVIOUS
<1>5. /\ accounts' = accounts /\ owner' = owner
      /\ subs' = [subs EXCEPT ![b] = s]
      /\ rows' = IF main THEN Synced(rs, owner, subs'[b], b) ELSE rs
      /\ late' = late \ (IF main THEN {v \in Users : owner[v] = b} ELSE {})
      /\ Stray(subs')
  BY <1>1, <1>2, <1>4, Got DEF Subscribe, NoLonger
<1>6. subs[b] \in Subs /\ subs \in [Ids -> Subs]
  BY <1>3 DEF SubsInv
<1>7. /\ s \in Subs /\ DOMAIN s = DOMAIN subs[b] \union {key}
      /\ ~main => Mains(s) = Mains(subs[b])
      /\ Single(MainGroups(subs[b])) => Single(MainGroups(s))
  BY <1>4, <1>6, AddedIs
<1>8. Grows /\ (b \notin strayed' => Single(Mains(s))) /\ subs'[b] = s
  BY <1>5, <1>6, <1>7, StrayMarks DEF Grows
<1>9. b \notin raced' => Single(MainGroups(s))
  BY <1>3, <1>7 DEF SubsInv
<1>10. SubsInv' /\ RowsInv'
  <2>1. CASE main
    BY <1>1, <1>3, <1>5, <1>7, <1>8, <1>9, <2>1, SyncedKeeps
  <2>2. CASE ~main
    BY <1>1, <1>2, <1>3, <1>5, <1>7, <1>8, <1>9, <2>2, UnsyncedKeeps
  <2>3. QED BY <2>1, <2>2
<1>11. \A a \in Ids : DOMAIN subs[a] \subseteq DOMAIN subs'[a]
  BY <1>5, <1>6, <1>7
<1>12. HandsInv'
  BY <1>3, <1>5, <1>8, <1>11, HandsByKeys
<1>13. OwnersInv'
  BY <1>3, <1>5 DEF OwnersInv
<1>14. QED BY <1>10, <1>12, <1>13 DEF FollowInv

LEMMA UnsubscribeFollows ==
  ASSUME Shape, FollowInv, NEW u \in Users, NEW rs, RowsOf(rs, owner[u]), NEW keys,
         \A v \in Users : \/ rs[v].key = rows[v].key
                          \/ v = u /\ rs[u].key = "none" /\ keys = Mains(subs[owner[u]]),
         Unsubscribe(u, rs, keys), Stray(subs'), UNCHANGED <<accounts, owner, raced>>
  PROVE  FollowInv'
<1>1. PICK b \in Ids : b = owner[u]
  BY DEF Shape
<1>2. SubsInv /\ RowsInv /\ HandsInv /\ OwnersInv
  BY DEF FollowInv
<1>3. subs[b] \in Subs /\ subs \in [Ids -> Subs]
  BY <1>2 DEF SubsInv
<1>4. CASE Exists(b)
  <2>1. PICK mains : mains = keys \intersect Mains(subs[b])
    OBVIOUS
  <2>2. PICK s : s = Removed(subs[b], keys, mains)
    OBVIOUS
  <2>3. /\ subs' = [subs EXCEPT ![b] = s]
        /\ flight' = Dropped(flight, b, keys)
        /\ rows' = IF mains # {} THEN Synced(rs, owner, s, b) ELSE rs
        /\ late' = late \ (IF mains # {} THEN {v \in Users : owner[v] = b} ELSE {})
    BY <1>1, <1>4, <2>1, <2>2 DEF Unsubscribe, NoLonger
  <2>4. /\ s \in Subs /\ DOMAIN s = DOMAIN subs[b] \ keys
        /\ mains = {} => Mains(s) = Mains(subs[b]) \ keys
        /\ Single(MainGroups(subs[b])) => Single(MainGroups(s))
    BY <1>3, <2>1, <2>2, RemovedIs
  <2>5. Grows /\ (b \notin strayed' => Single(Mains(s)))
    BY <1>3, <2>3, <2>4, StrayMarks DEF Grows
  <2>6. b \notin raced' => Single(MainGroups(s))
    BY <1>2, <2>4 DEF SubsInv
  <2>7. SubsInv' /\ RowsInv'
    <3>1. CASE mains # {}
      BY <1>1, <1>2, <2>3, <2>4, <2>5, <2>6, <3>1, SyncedKeeps
    <3>2. CASE mains = {}
      <4>1. Mains(s) = Mains(subs[b])
        BY <2>1, <2>4, <3>2
      <4>2. \A v \in Users : rs[v].key = rows[v].key \/ rs[v].key = Shown(s)
        <5>1. keys = Mains(subs[owner[u]]) => Shown(s) = "none"
          BY <1>1, <2>1, <2>4, <3>2, <4>1, ShownIs
        <5>2. QED BY <5>1
      <4>3. QED BY <1>1, <1>2, <2>3, <2>4, <2>5, <2>6, <3>2, <4>1, <4>2, UnsyncedKeeps
    <3>3. QED BY <3>1, <3>2
  <2>8. HandsInv'
    BY <1>2, <1>3, <2>3, <2>4, <2>5, HandsDropped
  <2>9. OwnersInv'
    BY <1>2 DEF OwnersInv
  <2>10. QED BY <2>7, <2>8, <2>9 DEF FollowInv
<1>5. CASE ~Exists(b)
  <2>1. subs' = subs /\ rows' = rs /\ late' = late /\ flight' = flight
    BY <1>1, <1>5 DEF Unsubscribe
  <2>2. Grows
    BY DEF Stray, Grows
  <2>3. rs \in [Users -> Row] /\ \A v \in Users : rs[v].known = rows[v].known
    BY DEF RowsOf
  <2>4. \A v \in Users : \/ rows'[v].known = rows[v].known /\ rows'[v].key = rows[v].key
                         \/ ~Exists(owner[v])
    BY <1>1, <1>5, <2>1, <2>3
  <2>5. AccountsStay
    BY SameAccounts
  <2>. HIDE DEF FollowInv
  <2>6. QED BY <2>1, <2>2, <2>3, <2>4, <2>5, QuietKeeps
<1>6. QED BY <1>4, <1>5

LEMMA ChooseFollows ==
  ASSUME Shape, FollowInv, NEW u \in Users, NEW key \in Keys, Choose(u, key) \/ ChooseRoom(u, key)
  PROVE  FollowInv'
<1>1. rows \in [Users -> Row] /\ rows[u] \in Row
  BY DEF FollowInv, RowsInv
<1>2. CASE Choose(u, key)
  <2>1. PICK half \in 0 .. 1 : half = IF rows[u].half = 1 /\ rows[u].key = key THEN 1 ELSE 0
    OBVIOUS
  <2>2. PICK r : r = [rows[u] EXCEPT !.key = key, !.half = half]
    OBVIOUS
  <2>3. r \in Row /\ r.known = rows[u].known
    BY <1>1, <2>2 DEF Row
  <2>4. PICK rs : rs = [rows EXCEPT ![u] = r]
    OBVIOUS
  <2>5. Subscribe(u, rs, key, TRUE) /\ UNCHANGED <<flight, raced>>
    BY <1>2, <2>1, <2>2, <2>4 DEF Choose
  <2>6. RowsOf(rs, owner[u])
    BY <1>1, <2>3, <2>4, OwnRow
  <2>. HIDE DEF FollowInv
  <2>7. QED BY <2>5, <2>6, SubscribeFollows
<1>3. CASE ChooseRoom(u, key)
  <2>1. PICK r : r = [rows[u] EXCEPT !.room = key]
    OBVIOUS
  <2>2. r \in Row /\ r.known = rows[u].known /\ r.key = rows[u].key
    BY <1>1, <2>1 DEF Row
  <2>3. PICK rs : rs = [rows EXCEPT ![u] = r]
    OBVIOUS
  <2>4. Subscribe(u, rs, key, FALSE) /\ UNCHANGED <<flight, raced>>
    BY <1>1, <1>3, <2>1, <2>3 DEF ChooseRoom
  <2>5. RowsOf(rs, owner[u])
    BY <1>1, <2>2, <2>3, OwnRow
  <2>6. \A v \in Users : rs[v].key = rows[v].key
    BY <1>1, <2>2, <2>3
  <2>. HIDE DEF FollowInv
  <2>7. QED BY <2>4, <2>5, <2>6, SubscribeFollows
<1>4. QED BY <1>2, <1>3

LEMMA LeaveFollows ==
  ASSUME Shape, FollowInv, NEW u \in Users, LeaveRoom(u) \/ Leave(u)
  PROVE  FollowInv'
<1>1. rows \in [Users -> Row] /\ rows[u] \in Row
  BY DEF FollowInv, RowsInv
<1>2. CASE LeaveRoom(u)
  <2>1. PICK r : r = [rows[u] EXCEPT !.room = "none"]
    OBVIOUS
  <2>2. r \in Row /\ r.known = rows[u].known /\ r.key = rows[u].key
    BY <1>1, <2>1 DEF Row
  <2>3. PICK rs : rs = [rows EXCEPT ![u] = r]
    OBVIOUS
  <2>4. PICK keys : keys = {k \in DOMAIN subs[owner[u]] : TypeOf[k] = "audience"}
    OBVIOUS
  <2>5. Unsubscribe(u, rs, keys) /\ Stray(subs') /\ UNCHANGED <<accounts, owner, raced>>
    BY <1>1, <1>2, <2>1, <2>3, <2>4 DEF LeaveRoom
  <2>6. RowsOf(rs, owner[u])
    BY <1>1, <2>2, <2>3, OwnRow
  <2>7. \A v \in Users : rs[v].key = rows[v].key
    BY <1>1, <2>2, <2>3
  <2>. HIDE DEF FollowInv
  <2>8. QED BY <2>5, <2>6, <2>7, UnsubscribeFollows
<1>3. CASE Leave(u)
  <2>1. PICK r : r = [rows[u] EXCEPT !.key = "none", !.half = 0, !.room = "none"]
    OBVIOUS
  <2>2. r \in Row /\ r.known = rows[u].known /\ r.key = "none"
    <3>1. "none" \in Keys \union {"none"} /\ 0 \in 0 .. 1
      OBVIOUS
    <3>2. r = [known |-> rows[u].known, key |-> "none", half |-> 0, room |-> "none",
               on |-> rows[u].on, auto |-> rows[u].auto]
      BY <1>1, <2>1 DEF Row
    <3>3. rows[u].known \in BOOLEAN /\ rows[u].on \in BOOLEAN /\ rows[u].auto \in BOOLEAN
      BY <1>1 DEF Row
    <3>4. QED BY <3>1, <3>2, <3>3 DEF Row
  <2>3. PICK rs : rs = [rows EXCEPT ![u] = r]
    OBVIOUS
  <2>4. PICK keys : keys = Mains(subs[owner[u]])
    OBVIOUS
  <2>5. Unsubscribe(u, rs, keys) /\ Stray(subs') /\ UNCHANGED <<accounts, owner, raced>>
    BY <1>1, <1>3, <2>1, <2>3, <2>4 DEF Leave
  <2>6. RowsOf(rs, owner[u])
    BY <1>1, <2>2, <2>3, OwnRow
  <2>7. \A v \in Users : \/ rs[v].key = rows[v].key
                         \/ v = u /\ rs[u].key = "none"
    BY <1>1, <2>2, <2>3
  <2>. HIDE DEF FollowInv
  <2>8. QED BY <2>4, <2>5, <2>6, <2>7, UnsubscribeFollows
<1>4. QED BY <1>2, <1>3

(* A change of an account's subscriptions that is written by a handler of *)
(* which everybody else's requests know nothing.                          *)
LEMMA EditKeeps ==
  ASSUME Shape, FollowInv, Grows, NEW b \in Ids, NEW s \in Subs, NEW rs, RowsOf(rs, b),
         subs' = [subs EXCEPT ![b] = s], DOMAIN subs[b] \subseteq DOMAIN s,
         UNCHANGED <<owner, accounts>>,
         b \notin raced' => Single(MainGroups(s)), b \notin strayed' => Single(Mains(s)),
         \/ rows' = Synced(rs, owner, s, b) /\ late' = late \ {v \in Users : owner[v] = b}
         \/ /\ rows' = rs /\ late' = late
            /\ Mains(s) = Mains(subs[b]) /\ \A u \in Users : rs[u].key = rows[u].key,
         flight' = flight \/ \E u \in Users : Answered(u)
  PROVE  FollowInv'
<1>1. SubsInv /\ RowsInv /\ HandsInv /\ OwnersInv
  BY DEF FollowInv
<1>2. SubsInv' /\ RowsInv'
  <2>1. CASE rows' = Synced(rs, owner, s, b) /\ late' = late \ {v \in Users : owner[v] = b}
    BY <1>1, <2>1, SyncedKeeps
  <2>2. CASE /\ rows' = rs /\ late' = late
             /\ Mains(s) = Mains(subs[b]) /\ \A u \in Users : rs[u].key = rows[u].key
    BY <1>1, <2>2, UnsyncedKeeps
  <2>3. QED BY <2>1, <2>2
<1>3. OwnersInv'
  BY <1>1 DEF OwnersInv
<1>4. \A a \in Ids : DOMAIN subs[a] \subseteq DOMAIN subs'[a]
  BY <1>1 DEF SubsInv
<1>5. HandsInv'
  <2>1. CASE flight' = flight
    BY <1>1, <1>4, <2>1, HandsByKeys
  <2>2. ASSUME NEW u \in Users, Answered(u) PROVE HandsInv'
    BY <1>1, <1>4, <2>2, IdleHand, HandsOne DEF Answered
  <2>3. QED BY <2>1, <2>2
<1>6. QED BY <1>2, <1>3, <1>5 DEF FollowInv

LEMMA SetHalfFollows ==
  ASSUME Shape, FollowInv, NEW u \in Users, NEW half \in 0 .. 1, SetHalf(u, half)
  PROVE  FollowInv'
<1>1. rows \in [Users -> Row] /\ rows[u] \in Row /\ subs \in [Ids -> Subs]
  BY DEF FollowInv, RowsInv, SubsInv
<1>2. PICK b \in Ids : b = owner[u]
  BY DEF Shape
<1>3. PICK r : r = [rows[u] EXCEPT !.half = half]
  OBVIOUS
<1>4. r \in Row /\ r.known = rows[u].known /\ r.key = rows[u].key
  BY <1>1, <1>3 DEF Row
<1>5. PICK rs : rs = [rows EXCEPT ![u] = r]
  OBVIOUS
<1>6. RowsOf(rs, b) /\ \A v \in Users : rs[v].key = rows[v].key /\ rs[v].known = rows[v].known
  BY <1>1, <1>2, <1>4, <1>5, OwnRow
<1>7. Grows /\ UNCHANGED <<accounts, owner, flight, strayed, raced>>
  BY DEF SetHalf, Grows
<1>8. CASE Exists(b) /\ Mains(subs[b]) # {}
  <2>1. PICK s : s = Halved(subs[b], half)
    OBVIOUS
  <2>2. s \in Subs /\ Mains(s) = Mains(subs[b])
    BY <1>1, <2>1, HalvedIs
  <2>3. subs' = [subs EXCEPT ![b] = s] /\ subs'[b] = s
    BY <1>1, <1>2, <1>8, <2>1 DEF SetHalf
  <2>4. rows' = Synced(rs, owner, s, b) /\ late' = late \ {v \in Users : owner[v] = b}
    BY <1>1, <1>2, <1>3, <1>5, <1>8, <2>3 DEF SetHalf, NoLonger
  <2>5. DOMAIN subs[b] \subseteq DOMAIN s
    BY <2>1 DEF Halved
  <2>6. b \notin raced' => Single(MainGroups(s))
    BY <1>7, <2>2 DEF FollowInv, SubsInv, MainGroups
  <2>7. b \notin strayed' => Single(Mains(s))
    BY <1>7, <2>2 DEF FollowInv, SubsInv
  <2>. HIDE DEF FollowInv
  <2>8. QED BY <1>6, <1>7, <2>2, <2>3, <2>4, <2>5, <2>6, <2>7, EditKeeps
<1>9. CASE ~(Exists(b) /\ Mains(subs[b]) # {})
  <2>1. subs' = subs /\ rows' = rs /\ late' = late
    BY <1>1, <1>2, <1>3, <1>5, <1>9 DEF SetHalf
  <2>2. AccountsStay /\ rs \in [Users -> Row]
    BY <1>6, <1>7, SameAccounts DEF RowsOf
  <2>. HIDE DEF FollowInv
  <2>3. QED BY <1>6, <1>7, <2>1, <2>2, QuietKeeps
<1>10. QED BY <1>8, <1>9

(* Switching notifications changes no key. *)
LEMMA PreferringRows ==
  ASSUME NEW rs \in [Users -> Row], NEW a, NEW on \in BOOLEAN, Preferring(rs, a, on)
  PROVE  rows' \in [Users -> Row] /\ \A u \in Users : rows'[u].known = rs[u].known /\ rows'[u].key = rs[u].key
<1>1. rows' = [u \in Users |-> IF rs[u].known /\ owner[u] = a THEN [rs[u] EXCEPT !.on = on] ELSE rs[u]]
  BY DEF Preferring
<1>2. ASSUME NEW r \in Row
      PROVE  [r EXCEPT !.on = on] \in Row /\ [r EXCEPT !.on = on].known = r.known /\ [r EXCEPT !.on = on].key = r.key
  BY DEF Row
<1>3. QED BY <1>1, <1>2

LEMMA SwitchesFollow ==
  ASSUME Shape, FollowInv, NEW u \in Users,
         Undeliverable(u) \/ \E on \in BOOLEAN : SetNotifications(u, on)
  PROVE  FollowInv'
<1>1. rows \in [Users -> Row] /\ rows[u] \in Row
  BY DEF FollowInv, RowsInv
<1>2. Grows /\ UNCHANGED <<subs, owner, raced, late, flight>>
  BY DEF Undeliverable, SetNotifications, history, Grows
<1>. HIDE DEF FollowInv
<1>3. CASE Undeliverable(u)
  <2>1. PICK r : r = [rows[u] EXCEPT !.on = FALSE, !.auto = TRUE]
    OBVIOUS
  <2>2. r \in Row /\ r.known = rows[u].known /\ r.key = rows[u].key
    BY <1>1, <2>1 DEF Row
  <2>3. rows' = [rows EXCEPT ![u] = r]
    BY <1>1, <1>3, <2>1 DEF Undeliverable
  <2>4. rows' \in [Users -> Row] /\ \A v \in Users : rows'[v].known = rows[v].known /\ rows'[v].key = rows[v].key
    BY <1>1, <2>2, <2>3
  <2>5. AccountsStay
    BY <1>2, <1>3, SameAccounts DEF Undeliverable
  <2>6. QED BY <1>2, <2>4, <2>5, QuietKeeps
<1>4. ASSUME NEW on \in BOOLEAN, SetNotifications(u, on) PROVE FollowInv'
  <2>1. PICK r : r = [rows[u] EXCEPT !.on = on, !.auto = rows[u].auto /\ ~on]
    OBVIOUS
  <2>2. r \in Row /\ r.known = rows[u].known /\ r.key = rows[u].key
    <3>1. PICK auto \in BOOLEAN : auto = (rows[u].auto /\ ~on)
      OBVIOUS
    <3>2. r = [rows[u] EXCEPT !.on = on, !.auto = auto]
      BY <2>1, <3>1
    <3>3. QED BY <1>1, <3>2 DEF Row
  <2>3. PICK rs : rs = [rows EXCEPT ![u] = r]
    OBVIOUS
  <2>4. rs \in [Users -> Row] /\ \A v \in Users : rs[v].known = rows[v].known /\ rs[v].key = rows[v].key
    BY <1>1, <2>2, <2>3
  <2>5. PICK b \in Ids : b = owner[u]
    BY DEF Shape
  <2>6. IF Exists(b) THEN Preferring(rs, b, on) ELSE accounts' = accounts /\ rows' = rs
    BY <1>1, <1>4, <2>1, <2>3, <2>5 DEF SetNotifications
  <2>7. rows' \in [Users -> Row] /\ \A v \in Users : rows'[v].known = rows[v].known /\ rows'[v].key = rows[v].key
    <3>1. CASE Exists(b)
      BY <2>4, <2>6, <3>1, PreferringRows
    <3>2. CASE ~Exists(b)
      BY <2>4, <2>6, <3>2
    <3>3. QED BY <3>1, <3>2
  <2>8. AccountsStay
    BY <1>2, <2>6, PreferringStays, SameAccounts
  <2>9. QED BY <1>2, <2>7, <2>8, QuietKeeps
<1>5. QED BY <1>3, <1>4

LEMMA BotFollows ==
  ASSUME Shape, FollowInv, NEW u \in Users, Bot(u)
  PROVE  FollowInv'
<1>. HIDE DEF FollowInv
<1>1. ASSUME NEW half \in 0 .. 1, SetHalf(u, half) PROVE FollowInv'
  BY <1>1, SetHalfFollows
<1>2. ASSUME NEW k \in Keys, Choose(u, k) \/ ChooseRoom(u, k) PROVE FollowInv'
  BY <1>2, ChooseFollows
<1>3. QED BY <1>1, <1>2, RegisterFollows, WriteFollows, LeaveFollows, SwitchesFollow DEF Bot

-----------------------------------------------------------------------------
(* Pending sources that have appeared on the site *)

LEMMA PromoteTeacherFollows ==
  ASSUME Shape, FollowInv, NEW pending \in Keys, NEW key \in Keys, PromoteTeacher(pending, key)
  PROVE  FollowInv'
<1>1. rows \in [Users -> Row]
  BY DEF FollowInv, RowsInv
<1>2. /\ rows' = [u \in Users |-> IF rows[u].key = pending THEN [rows[u] EXCEPT !.key = key] ELSE rows[u]]
      /\ strayed' = strayed \union {owner[u] : u \in {u \in Users : rows[u].key = pending}}
      /\ UNCHANGED <<accounts, owner, subs, flight, late, raced>>
  BY DEF PromoteTeacher
<1>3. \A r \in Row : [r EXCEPT !.key = key] \in Row
  BY DEF Row
<1>4. rows' \in [Users -> Row] /\ \A u \in Users : rows'[u] = rows[u] \/ owner[u] \in strayed'
  BY <1>1, <1>2, <1>3
<1>5. AccountsStay /\ Grows
  BY <1>2, SameAccounts DEF Grows
<1>. HIDE DEF FollowInv
<1>6. QED BY <1>2, <1>4, <1>5, QuietKeeps

(* Rows and subscriptions change together, unless the account has the site's *)
(* group already.                                                            *)
LEMMA PromoteGroupFollows ==
  ASSUME Shape, FollowInv, NEW pending \in Keys, NEW key \in Keys,
         TypeOf[pending] = "group", TypeOf[key] = "group", PromoteGroup(pending, key)
  PROVE  FollowInv'
<1>1. SubsInv /\ RowsInv /\ HandsInv /\ OwnersInv
  BY DEF FollowInv
<1>2. /\ rows' = [u \in Users |-> IF rows[u].key = pending THEN [rows[u] EXCEPT !.key = key] ELSE rows[u]]
      /\ subs' = [a \in Ids |-> Moved(subs[a], pending, key)]
      /\ strayed' = strayed \union {a \in Ids : {pending, key} \subseteq DOMAIN subs[a]}
      /\ UNCHANGED <<accounts, owner, late, raced>>
  BY DEF PromoteGroup
<1>3. ASSUME NEW u \in Users
      PROVE  flight'[u] = IF flight[u].pc = "row" /\ flight[u].key = pending /\ flight[u].there
                             /\ Moves(subs[flight[u].account], pending, key)
                          THEN [flight[u] EXCEPT !.key = key] ELSE flight[u]
  BY DEF PromoteGroup
<1>4. Grows
  BY <1>2 DEF Grows
<1>5. ASSUME NEW a \in Ids
      PROVE  /\ subs[a] \in Subs /\ subs'[a] \in Subs
             /\ DOMAIN subs'[a] = IF Moves(subs[a], pending, key) THEN (DOMAIN subs[a] \ {pending}) \union {key}
                                  ELSE DOMAIN subs[a]
             /\ Mains(subs'[a]) = IF Moves(subs[a], pending, key) /\ pending \in Mains(subs[a])
                                  THEN (Mains(subs[a]) \ {pending}) \union {key} ELSE Mains(subs[a])
  <2>1. PICK s \in Subs : s = subs[a]
    BY <1>1 DEF SubsInv
  <2>2. PICK t : t = Moved(s, pending, key) /\ t = subs'[a]
    BY <1>2, <2>1
  <2>3. /\ t \in Subs
        /\ DOMAIN t = IF Moves(s, pending, key) THEN (DOMAIN s \ {pending}) \union {key} ELSE DOMAIN s
        /\ Mains(t) = IF Moves(s, pending, key) /\ pending \in Mains(s)
                      THEN (Mains(s) \ {pending}) \union {key} ELSE Mains(s)
    <3>1. /\ Moved(s, pending, key) \in Subs
          /\ DOMAIN Moved(s, pending, key) =
               IF Moves(s, pending, key) THEN (DOMAIN s \ {pending}) \union {key} ELSE DOMAIN s
          /\ Mains(Moved(s, pending, key)) =
               IF Moves(s, pending, key) /\ pending \in Mains(s)
               THEN (Mains(s) \ {pending}) \union {key} ELSE Mains(s)
      BY MovedIs
    <3>2. QED BY <2>2, <3>1
  <2>4. QED BY <2>1, <2>2, <2>3
<1>6. SubsInv'
  <2>1. ASSUME NEW a \in Ids, a \notin strayed' PROVE Single(Mains(subs'[a]))
    <3>1. Single(Mains(subs[a]))
      BY <1>1, <1>4, <2>1 DEF SubsInv, Grows
    <3>2. QED BY <1>5, <3>1 DEF Single
  <2>2. ASSUME NEW a \in Ids, a \notin raced' PROVE Single(MainGroups(subs'[a]))
    <3>1. Single(MainGroups(subs[a]))
      BY <1>1, <1>2, <2>2 DEF SubsInv
    <3>2. \A k \in MainGroups(subs'[a]) : \/ k \in MainGroups(subs[a])
                                          \/ k = key /\ pending \in MainGroups(subs[a])
      BY <1>5 DEF MainGroups
    <3>3. key \in Mains(subs'[a]) \ Mains(subs[a]) => pending \notin Mains(subs'[a]) \/ pending = key
      BY <1>5
    <3>4. QED BY <1>5, <3>1, <3>2, <3>3 DEF Single, MainGroups
  <2>3. subs' \in [Ids -> Subs]
    BY <1>2, <1>5
  <2>4. QED BY <2>1, <2>2, <2>3 DEF SubsInv
<1>7. ASSUME NEW u \in Users, rows'[u].known, ~Excused(u)'
      PROVE  rows'[u].key = Shown(subs'[owner'[u]])
  <2>1. PICK a \in Ids : a = owner[u] /\ a = owner'[u]
    BY <1>2 DEF Shape
  <2>2. rows[u] \in Row /\ rows[u].known
    BY <1>1, <1>2, <1>7 DEF RowsInv, Row
  <2>3. rows[u].key = Shown(subs[a]) /\ a \notin strayed'
    BY <1>1, <1>2, <1>4, <1>7, <2>1, <2>2 DEF RowsInv, Excused, Exists, Grows
  <2>4. Single(Mains(subs[a]))
    BY <1>1, <1>4, <2>3 DEF SubsInv, Grows
  <2>5. pending # "none" /\ key # "none"
    BY AccountsAssumption
  <2>6. CASE rows[u].key = pending
    <3>1. pending \in Mains(subs[a]) /\ pending \in DOMAIN subs[a]
      BY <1>5, <2>3, <2>5, <2>6, ShownIs DEF Mains
    <3>2. Moves(subs[a], pending, key)
      BY <1>2, <2>3, <3>1 DEF Moves
    <3>3. Mains(subs'[a]) = {key}
      BY <1>5, <2>4, <3>1, <3>2 DEF Single
    <3>4. Shown(subs'[a]) = key
      BY <1>5, <3>3, ShownIs
    <3>5. rows'[u].key = key
      BY <1>2, <2>2, <2>6 DEF Row
    <3>6. QED BY <2>1, <3>4, <3>5
  <2>7. CASE rows[u].key # pending
    <3>1. pending \notin Mains(subs[a])
      BY <1>5, <2>3, <2>4, <2>7, ShownIs DEF Single
    <3>2. Shown(subs'[a]) = Shown(subs[a])
      BY <1>5, <2>4, <3>1, ShownByMains
    <3>3. QED BY <1>2, <2>1, <2>3, <2>7, <3>2
  <2>8. QED BY <2>6, <2>7
<1>8. RowsInv'
  <2>1. \A r \in Row : [r EXCEPT !.key = key] \in Row
    BY DEF Row
  <2>2. rows' \in [Users -> Row]
    BY <1>1, <1>2, <2>1 DEF RowsInv
  <2>3. QED BY <1>7, <2>2 DEF RowsInv
<1>9. ASSUME NEW v \in Users
      PROVE  \/ HandOK(flight[v])'
             \/ /\ flight'[v] = flight[v]
                /\ flight[v].pc = "row" /\ flight[v].there => flight[v].key \in DOMAIN subs'[flight[v].account]
  <2>1. PICK f : f = flight[v]
    OBVIOUS
  <2>2. HandOK(f)
    BY <1>1, <2>1 DEF HandsInv
  <2>3. CASE f.pc = "row" /\ f.key = pending /\ f.there /\ Moves(subs[f.account], pending, key)
    <3>1. PICK g : g = [f EXCEPT !.key = key]
      OBVIOUS
    <3>2. flight'[v] = g
      BY <1>3, <2>1, <2>3, <3>1
    <3>3. f \in [pc : {"row"}, account : Ids, key : Keys, there : BOOLEAN, main : BOOLEAN]
      BY <2>2, <2>3 DEF HandOK
    <3>4. /\ g \in [pc : {"row"}, account : Ids, key : Keys, there : BOOLEAN, main : BOOLEAN]
          /\ g.account = f.account /\ g.key = key /\ g.pc = "row" /\ f.account \in Ids
      BY <3>1, <3>3
    <3>5. accounts'[g.account] # "none" /\ key \in DOMAIN subs'[g.account]
      BY <1>2, <1>5, <2>2, <2>3, <3>4 DEF HandOK
    <3>6. HandOK(g)'
      BY <3>4, <3>5 DEF HandOK
    <3>7. QED BY <3>2, <3>6 DEF HandOK
  <2>4. CASE ~(f.pc = "row" /\ f.key = pending /\ f.there /\ Moves(subs[f.account], pending, key))
    <3>1. flight'[v] = flight[v]
      BY <1>3, <2>1, <2>4
    <3>2. ASSUME f.pc = "row", f.there PROVE f.key \in DOMAIN subs'[f.account]
      <4>1. f.account \in Ids /\ f.key \in DOMAIN subs[f.account]
        BY <2>2, <3>2 DEF HandOK
      <4>2. QED BY <1>5, <2>4, <3>2, <4>1
    <3>3. QED BY <2>1, <3>1, <3>2
  <2>5. QED BY <2>3, <2>4
<1>10. HandsInv'
  BY <1>1, <1>2, <1>4, <1>9, HandsKept
<1>11. OwnersInv'
  BY <1>1, <1>2 DEF OwnersInv
<1>12. QED BY <1>6, <1>8, <1>10, <1>11 DEF FollowInv

LEMMA PromotionFollows ==
  ASSUME Shape, FollowInv, Promotion
  PROVE  FollowInv'
<1>. HIDE DEF FollowInv
<1>1. ASSUME NEW p \in PendingGroup, PromoteGroup(p[1], p[2]) PROVE FollowInv'
  <2>1. p[1] \in Keys /\ p[2] \in Keys /\ TypeOf[p[1]] = "group" /\ TypeOf[p[2]] = "group"
    BY AccountsAssumption
  <2>2. QED BY <1>1, <2>1, PromoteGroupFollows
<1>2. ASSUME NEW p \in PendingTeacher, PromoteTeacher(p[1], p[2]) PROVE FollowInv'
  <2>1. p[1] \in Keys /\ p[2] \in Keys
    BY AccountsAssumption
  <2>2. QED BY <1>2, <2>1, PromoteTeacherFollows
<1>3. QED BY <1>1, <1>2 DEF Promotion

-----------------------------------------------------------------------------
(* What the mini app does *)

(* A step that changes what one request holds, and nothing of the subscriptions. *)
LEMMA LookKeeps ==
  ASSUME Shape, FollowInv, UNCHANGED <<subs, owner, raced, strayed, late, rows, accounts>>,
         \/ flight' = flight
         \/ \E u \in Users : Answered(u) \/ \E f : flight' = [flight EXCEPT ![u] = f] /\ HandOK(f)'
  PROVE  FollowInv'
<1>1. rows' \in [Users -> Row] /\ Grows /\ AccountsStay
  BY SameAccounts DEF FollowInv, RowsInv, Grows
<1>2. flight' = flight \/ \E u \in Users : \E f : flight' = [flight EXCEPT ![u] = f] /\ HandOK(f)'
  BY IdleHand DEF Answered
<1>. HIDE DEF FollowInv
<1>3. QED BY <1>1, <1>2, QuietKeeps

LEMMA LoginFollows ==
  ASSUME Shape, FollowInv, NEW u \in Users,
         Login(u) \/ Authenticate(u) \/ Refused(u) \/ ConfirmFails(u) \/ \E a \in Ids : SessionEnds(u, a)
  PROVE  FollowInv'
<1>. HIDE DEF FollowInv
<1>1. CASE Login(u)
  <2>1. UNCHANGED <<accounts, owner, subs>>
    BY <1>1, Got DEF Login
  <2>2. QED BY <1>1, <2>1, LookKeeps DEF Login, history
<1>2. CASE Authenticate(u)
  <2>1. PICK a \in Ids : flight' = [flight EXCEPT ![u] = [pc |-> "authenticated", account |-> a]]
    BY <1>2 DEF Authenticate
  <2>2. PICK f : f = [pc |-> "authenticated", account |-> a]
    OBVIOUS
  <2>3. f.pc = "authenticated"
    BY <2>2
  <2>4. HandOK(f)'
    BY <2>3 DEF HandOK
  <2>5. UNCHANGED <<subs, owner, raced, strayed, late, rows, accounts>>
    BY <1>2 DEF Authenticate, history
  <2>6. QED BY <2>1, <2>2, <2>4, <2>5, LookKeeps
<1>3. CASE Refused(u) \/ ConfirmFails(u)
  BY <1>3, LookKeeps DEF Refused, ConfirmFails, history
<1>4. ASSUME NEW a \in Ids, SessionEnds(u, a) PROVE FollowInv'
  BY <1>4, LookKeeps DEF SessionEnds, history
<1>5. QED BY <1>1, <1>2, <1>3, <1>4

LEMMA PreferencesFollow ==
  ASSUME Shape, FollowInv, NEW u \in Users, NEW on \in BOOLEAN, Preferences(u, on)
  PROVE  FollowInv'
<1>1. rows \in [Users -> Row] /\ FlightOK(flight[u])
  BY DEF FollowInv, RowsInv, Shape
<1>2. PICK a \in Ids : a = flight[u].account
  BY <1>1 DEF Preferences, At, FlightOK
<1>3. /\ IF Exists(a) THEN Preferring(rows, a, on) ELSE UNCHANGED <<rows, accounts>>
      /\ Answered(u) /\ Grows /\ UNCHANGED <<owner, subs, raced, late>>
  BY <1>2 DEF Preferences, history, Grows
<1>4. PICK rs : rs = rows
  OBVIOUS
<1>5. rs \in [Users -> Row] /\ (Exists(a) => Preferring(rs, a, on))
  BY <1>1, <1>3, <1>4
<1>6. rows' \in [Users -> Row] /\ \A v \in Users : rows'[v].known = rows[v].known /\ rows'[v].key = rows[v].key
  <2>1. CASE Exists(a)
    BY <1>4, <1>5, <2>1, PreferringRows
  <2>2. CASE ~Exists(a)
    BY <1>1, <1>3, <2>2
  <2>3. QED BY <2>1, <2>2
<1>7. AccountsStay
  BY <1>3, PreferringStays, SameAccounts
<1>8. \E v \in Users : \E f : flight' = [flight EXCEPT ![v] = f] /\ HandOK(f)'
  BY <1>3, IdleHand DEF Answered
<1>. HIDE DEF FollowInv
<1>9. QED BY <1>3, <1>6, <1>7, <1>8, QuietKeeps

LEMMA LooksFollow ==
  ASSUME Shape, FollowInv, NEW u \in Users,
         \/ \E k \in Keys : (\E main \in BOOLEAN : LookAdd(u, k, main)) \/ LookRow(u, k)
         \/ \E p \in Range(PlatformOf) : LookUnlink(u, p)
  PROVE  FollowInv'
<1>1. SubsInv /\ FlightOK(flight[u])
  BY DEF FollowInv, Shape
<1>. HIDE DEF FollowInv
<1>2. ASSUME NEW k \in Keys, NEW main \in BOOLEAN, LookAdd(u, k, main) PROVE FollowInv'
  <2>1. PICK b \in BOOLEAN : b = BecomesMain(subs[flight[u].account], k, main)
    BY DEF BecomesMain
  <2>2. PICK a \in Ids : a = flight[u].account
    BY <1>1, <1>2 DEF LookAdd, At, FlightOK
  <2>3. PICK f : f = [pc |-> "adding", account |-> a, key |-> k, main |-> b]
    OBVIOUS
  <2>4. f.pc = "adding" /\ f.account \in Ids /\ f.key \in Keys /\ f.main \in BOOLEAN
    BY <2>3
  <2>5. HandOK(f)'
    BY <2>4 DEF HandOK
  <2>6. flight' = [flight EXCEPT ![u] = f] /\ UNCHANGED <<subs, owner, raced, strayed, late, rows, accounts>>
    BY <1>2, <2>1, <2>2, <2>3 DEF LookAdd, history
  <2>7. QED BY <2>5, <2>6, LookKeeps
<1>3. ASSUME NEW k \in Keys, LookRow(u, k) PROVE FollowInv'
  <2>1. PICK a \in Ids : a = flight[u].account /\ accounts[a] # "none"
    BY <1>1, <1>3 DEF LookRow, At, FlightOK
  <2>2. PICK s \in Subs : s = subs[a]
    BY <1>1 DEF SubsInv
  <2>3. k \in DOMAIN s
    BY <1>3, <2>1, <2>2 DEF LookRow
  <2>4. PICK b \in BOOLEAN : b = s[k].main
    BY <2>3, SubsAre DEF Sub
  <2>5. PICK f : f = [pc |-> "row", account |-> a, key |-> k, there |-> TRUE, main |-> b]
    OBVIOUS
  <2>6. f \in [pc : {"row"}, account : Ids, key : Keys, there : BOOLEAN, main : BOOLEAN]
        /\ f.pc = "row" /\ f.account = a /\ f.key = k
    BY <2>5
  <2>7. flight' = [flight EXCEPT ![u] = f] /\ UNCHANGED <<subs, owner, raced, strayed, late, rows, accounts>>
    BY <1>3, <2>1, <2>2, <2>4, <2>5 DEF LookRow, history
  <2>8. HandOK(f)'
    BY <2>1, <2>2, <2>3, <2>6, <2>7 DEF HandOK
  <2>9. QED BY <2>7, <2>8, LookKeeps
<1>4. ASSUME NEW p, LookUnlink(u, p) PROVE FollowInv'
  <2>1. PICK a \in Ids : a = flight[u].account
    BY <1>1, <1>4 DEF LookUnlink, At, FlightOK
  <2>2. PICK s \in Subs : s = subs[a]
    BY <1>1 DEF SubsInv
  <2>3. PICK copy : copy = Copied(s)
    OBVIOUS
  <2>4. copy \in Subs /\ Mains(copy) = Mains(s)
    BY <2>3, CopiedIs
  <2>5. PICK who, on : who = Min({v \in Users : owner[v] = a /\ PlatformOf[v] = p}) /\ on = accounts[a]
    OBVIOUS
  <2>6. PICK f : f = [pc |-> "unlinking", account |-> a, who |-> who, copy |-> copy, on |-> on]
    OBVIOUS
  <2>7. f.pc = "unlinking" /\ f.account = a /\ f.copy = copy
    BY <2>6
  <2>8. flight' = [flight EXCEPT ![u] = f] /\ UNCHANGED <<subs, owner, raced, strayed, late, rows, accounts>>
    BY <1>4, <2>1, <2>2, <2>3, <2>5, <2>6 DEF LookUnlink, history
  <2>9. a \notin raced' => Single(MainGroups(copy))
    BY <1>1, <2>2, <2>4, <2>8 DEF SubsInv, MainGroups
  <2>10. a \notin strayed' => Single(Mains(copy))
    BY <1>1, <2>2, <2>4, <2>8 DEF SubsInv
  <2>11. HandOK(f)'
    BY <2>4, <2>7, <2>9, <2>10 DEF HandOK
  <2>12. QED BY <2>8, <2>11, LookKeeps
<1>5. QED BY <1>2, <1>3, <1>4

(* A subscription that is asked for as primary, or found the account without *)
(* a group when the request looked, and is added on that word.               *)
LEMMA AddFollows ==
  ASSUME Shape, FollowInv, NEW u \in Users, Add(u)
  PROVE  FollowInv'
<1>1. SubsInv /\ RowsInv /\ HandOK(flight[u])
  BY DEF FollowInv, HandsInv
<1>2. PICK f : f = flight[u]
  OBVIOUS
<1>3. PICK a \in Ids : a = f.account
  BY <1>1, <1>2 DEF HandOK, Add, At
<1>4. f.key \in Keys /\ f.main \in BOOLEAN
  BY <1>1, <1>2 DEF HandOK, Add, At
<1>5. /\ Answered(u) /\ Stray(subs') /\ UNCHANGED <<accounts, owner, raced>>
  BY DEF Add
<1>6. Grows
  BY <1>5 DEF Stray, Grows
<1>7. CASE Exists(a)
  <2>1. PICK old \in Subs : old = subs[a]
    BY <1>1 DEF SubsInv
  <2>2. PICK s : s = Added(old, f.key, f.main)
    OBVIOUS
  <2>3. /\ s \in Subs /\ DOMAIN old \subseteq DOMAIN s
        /\ ~f.main => Mains(s) = Mains(old)
        /\ Single(MainGroups(old)) => Single(MainGroups(s))
    <3>1. PICK key \in Keys, main \in BOOLEAN : key = f.key /\ main = f.main
      BY <1>4
    <3>2. QED BY <2>2, <3>1, AddedIs
  <2>4. subs' = [subs EXCEPT ![a] = s]
    BY <1>2, <1>3, <1>7, <2>1, <2>2 DEF Add, Synchronised
  <2>5. a \notin strayed' => Single(Mains(s))
    BY <1>1, <1>5, <2>3, <2>4, StrayMarks DEF SubsInv
  <2>6. a \notin raced' => Single(MainGroups(s))
    BY <1>1, <1>5, <2>1, <2>3 DEF SubsInv
  <2>7. PICK rs : rs = rows
    OBVIOUS
  <2>8. RowsOf(rs, a)
    BY <1>1, <2>7 DEF RowsOf, RowsInv
  <2>9. \/ rows' = Synced(rs, owner, s, a) /\ late' = late \ {v \in Users : owner[v] = a}
        \/ /\ rows' = rs /\ late' = late
           /\ Mains(s) = Mains(subs[a]) /\ \A v \in Users : rs[v].key = rows[v].key
    <3>1. CASE f.main
      BY <1>2, <1>3, <1>7, <2>1, <2>2, <2>7, <3>1 DEF Add, Synchronised, NoLonger
    <3>2. CASE ~f.main
      BY <1>2, <1>3, <1>7, <2>1, <2>3, <2>7, <3>2 DEF Add
    <3>3. QED BY <3>1, <3>2
  <2>. HIDE DEF FollowInv
  <2>10. QED BY <1>5, <1>6, <2>1, <2>3, <2>4, <2>5, <2>6, <2>8, <2>9, EditKeeps
<1>8. CASE ~Exists(a)
  <2>1. UNCHANGED <<rows, subs, late>>
    BY <1>2, <1>3, <1>8 DEF Add
  <2>2. rows' \in [Users -> Row]
    BY <1>1, <2>1 DEF RowsInv
  <2>3. AccountsStay /\ \E v \in Users : \E g : flight' = [flight EXCEPT ![v] = g] /\ HandOK(g)'
    BY <1>5, SameAccounts, IdleHand DEF Answered
  <2>. HIDE DEF FollowInv
  <2>4. QED BY <1>5, <1>6, <2>1, <2>2, <2>3, QuietKeeps
<1>9. QED BY <1>7, <1>8

(* The row a request has read, if it is there. *)
LEMMA HeldRow ==
  ASSUME Shape, FollowInv, NEW u \in Users, At(u, "row")
  PROVE  /\ flight[u] \in [pc : {"row"}, account : Ids, key : Keys, there : BOOLEAN, main : BOOLEAN]
         /\ subs[flight[u].account] \in Subs
         /\ flight[u].there => flight[u].key \in DOMAIN subs[flight[u].account]
<1>1. HandOK(flight[u])
  BY DEF FollowInv, HandsInv
<1>2. flight[u].pc = "row"
  BY DEF At
<1>3. flight[u] \in [pc : {"row"}, account : Ids, key : Keys, there : BOOLEAN, main : BOOLEAN]
  BY <1>1, <1>2 DEF HandOK
<1>4. subs \in [Ids -> Subs]
  BY DEF FollowInv, SubsInv
<1>5. QED BY <1>1, <1>2, <1>3, <1>4 DEF HandOK

(* Acting on an old word marks the account. *)
LEMMA OldWordMarks ==
  ASSUME NEW u \in Users, OldWord(u), flight[u].main \in BOOLEAN
  PROVE  /\ raced \subseteq raced'
         /\ flight[u].account \notin raced' =>
              ((flight[u].there /\ flight[u].key \in Mains(subs[flight[u].account])) <=> flight[u].main)
<1>1. PICK main \in BOOLEAN : main = (flight[u].there /\ flight[u].key \in Mains(subs[flight[u].account]))
  OBVIOUS
<1>2. raced' = IF main = flight[u].main THEN raced ELSE raced \union {flight[u].account}
  BY <1>1 DEF OldWord
<1>3. QED BY <1>1, <1>2

LEMMA MakeMainFollows ==
  ASSUME Shape, FollowInv, NEW u \in Users, MakeMain(u)
  PROVE  FollowInv'
<1>1. SubsInv /\ RowsInv
  BY DEF FollowInv
<1>2. PICK f \in [pc : {"row"}, account : Ids, key : Keys, there : BOOLEAN, main : BOOLEAN] : f = flight[u]
  BY HeldRow DEF MakeMain
<1>3. PICK a \in Ids : a = f.account
  OBVIOUS
<1>4. PICK old \in Subs : old = subs[a] /\ (f.there => f.key \in DOMAIN old)
  BY <1>2, <1>3, HeldRow DEF MakeMain
<1>5. /\ Answered(u) /\ Stray(subs') /\ UNCHANGED <<accounts, owner>> /\ OldWord(u)
  BY DEF MakeMain
<1>6. Grows /\ (a \notin raced' => ((f.there /\ f.key \in Mains(old)) <=> f.main))
  BY <1>2, <1>3, <1>4, <1>5, OldWordMarks DEF Stray, Grows
<1>7. PICK rs : rs = rows
  OBVIOUS
<1>8. RowsOf(rs, a)
  BY <1>1, <1>7 DEF RowsOf, RowsInv
<1>9. CASE Exists(a) /\ f.there
  <2>1. PICK t : t = IF f.main THEN old ELSE Demoted(old, f.key)
    OBVIOUS
  <2>2. /\ t \in Subs /\ DOMAIN t = DOMAIN old /\ f.key \in DOMAIN t
        /\ Mains(t) = IF f.main THEN Mains(old) ELSE {k \in Mains(old) : ~SameType(k, f.key)}
    BY <1>4, <1>9, <2>1, DemotedIs
  <2>3. PICK s : s = [t EXCEPT ![f.key].main = TRUE]
    OBVIOUS
  <2>4. s \in Subs /\ DOMAIN s = DOMAIN t /\ Mains(s) = Mains(t) \union {f.key}
    <3>1. PICK key \in DOMAIN t : key = f.key
      BY <2>2
    <3>2. QED BY <2>2, <2>3, <3>1, MadeMainIs
  <2>5. /\ subs' = [subs EXCEPT ![a] = s]
        /\ rows' = Synced(rs, owner, s, a)
        /\ late' = late \ {v \in Users : owner[v] = a}
    BY <1>2, <1>3, <1>4, <1>7, <1>9, <2>1, <2>3 DEF MakeMain, Synchronised, NoLonger
  <2>6. a \notin strayed' => Single(Mains(s))
    BY <1>1, <1>5, <2>4, <2>5, StrayMarks DEF SubsInv
  <2>7. a \notin raced' => Single(MainGroups(s))
    <3>1. SUFFICES ASSUME a \notin raced' PROVE Single(MainGroups(s))
      OBVIOUS
    <3>2. Single(MainGroups(old))
      BY <1>1, <1>4, <1>6, <3>1 DEF SubsInv, Grows
    <3>3. CASE f.main
      <4>1. Mains(s) = Mains(old)
        BY <1>6, <2>2, <2>4, <3>1, <3>3
      <4>2. QED BY <3>2, <4>1 DEF MainGroups
    <3>4. CASE ~f.main
      <4>1. Mains(s) = {k \in Mains(old) : ~SameType(k, f.key)} \union {f.key}
        BY <2>2, <2>4, <3>4
      <4>2. QED BY <3>2, <4>1 DEF Single, MainGroups, SameType
    <3>5. QED BY <1>2, <3>3, <3>4
  <2>. HIDE DEF FollowInv
  <2>8. QED BY <1>4, <1>5, <1>6, <1>8, <2>2, <2>4, <2>5, <2>6, <2>7, EditKeeps
<1>10. CASE ~(Exists(a) /\ f.there)
  <2>1. UNCHANGED <<rows, subs, late>>
    BY <1>2, <1>3, <1>10 DEF MakeMain
  <2>2. subs' = [subs EXCEPT ![a] = old]
    BY <1>1, <1>4, <2>1 DEF SubsInv
  <2>3. a \notin strayed' => Single(Mains(old))
    BY <1>1, <1>4, <1>6 DEF SubsInv, Grows
  <2>4. a \notin raced' => Single(MainGroups(old))
    BY <1>1, <1>4, <1>6 DEF SubsInv, Grows
  <2>. HIDE DEF FollowInv
  <2>5. QED BY <1>4, <1>5, <1>6, <1>7, <1>8, <2>1, <2>2, <2>3, <2>4, EditKeeps
<1>11. QED BY <1>9, <1>10

LEMMA MuteFollows ==
  ASSUME Shape, FollowInv, NEW u \in Users, NEW on \in BOOLEAN, Mute(u, on)
  PROVE  FollowInv'
<1>1. SubsInv /\ RowsInv
  BY DEF FollowInv
<1>2. PICK f \in [pc : {"row"}, account : Ids, key : Keys, there : BOOLEAN, main : BOOLEAN] : f = flight[u]
  BY HeldRow DEF Mute
<1>3. PICK a \in Ids : a = f.account
  OBVIOUS
<1>4. PICK old \in Subs : old = subs[a]
  BY <1>1 DEF SubsInv
<1>5. Answered(u) /\ Grows /\ UNCHANGED <<rows, accounts, owner, raced, strayed, late>>
  BY DEF Mute, history, Grows
<1>6. PICK s : s = IF Exists(a) /\ f.there THEN [old EXCEPT ![f.key].on = on] ELSE old
  OBVIOUS
<1>7. s \in Subs /\ Mains(s) = Mains(old) /\ DOMAIN s = DOMAIN old
  BY <1>6, MutedIs
<1>8. subs' = [subs EXCEPT ![a] = s]
  <2>1. CASE Exists(a) /\ f.there
    BY <1>2, <1>3, <1>4, <1>6, <2>1 DEF Mute
  <2>2. CASE ~(Exists(a) /\ f.there)
    <3>1. subs' = subs
      BY <1>2, <1>3, <2>2 DEF Mute
    <3>2. QED BY <1>1, <1>4, <1>6, <2>2, <3>1 DEF SubsInv
  <2>3. QED BY <2>1, <2>2
<1>9. PICK rs : rs = rows
  OBVIOUS
<1>10. RowsOf(rs, a)
  BY <1>1, <1>9 DEF RowsOf, RowsInv
<1>11. a \notin raced' => Single(MainGroups(s))
  BY <1>1, <1>4, <1>5, <1>7 DEF SubsInv, MainGroups
<1>12. a \notin strayed' => Single(Mains(s))
  BY <1>1, <1>4, <1>5, <1>7 DEF SubsInv
<1>. HIDE DEF FollowInv
<1>13. QED BY <1>4, <1>5, <1>7, <1>8, <1>9, <1>10, <1>11, <1>12, EditKeeps

LEMMA RemoveSubFollows ==
  ASSUME Shape, FollowInv, NEW u \in Users, RemoveSub(u)
  PROVE  FollowInv'
<1>1. SubsInv /\ RowsInv /\ HandsInv /\ OwnersInv
  BY DEF FollowInv
<1>2. PICK f \in [pc : {"row"}, account : Ids, key : Keys, there : BOOLEAN, main : BOOLEAN] : f = flight[u]
  BY HeldRow DEF RemoveSub
<1>3. PICK a \in Ids : a = f.account
  OBVIOUS
<1>4. PICK old \in Subs : old = subs[a] /\ (f.there => f.key \in DOMAIN old)
  BY <1>2, <1>3, HeldRow DEF RemoveSub
<1>5. Stray(subs') /\ UNCHANGED <<accounts, owner>> /\ OldWord(u)
  BY DEF RemoveSub
<1>6. Grows /\ (a \notin raced' => ((f.there /\ f.key \in Mains(old)) <=> f.main))
  BY <1>2, <1>3, <1>4, <1>5, OldWordMarks DEF Stray, Grows
<1>7. PICK keys : keys = IF f.there THEN {f.key} ELSE {}
  OBVIOUS
<1>8. PICK mains : mains = IF f.main THEN {f.key} ELSE {}
  OBVIOUS
<1>9. PICK s : s = Removed(old, keys, mains)
  OBVIOUS
<1>10. /\ s \in Subs /\ DOMAIN s = DOMAIN old \ keys
       /\ mains = {} => Mains(s) = Mains(old) \ keys
       /\ Single(MainGroups(old)) /\ mains \subseteq keys \intersect Mains(old) => Single(MainGroups(s))
  BY <1>9, RemovedIs
<1>11. /\ flight' = [Dropped(flight, a, keys) EXCEPT ![u] = Idle]
       /\ subs' = [subs EXCEPT ![a] = s]
       /\ IF f.main THEN rows' = Synced(rows, owner, s, a) /\ late' = late \ {v \in Users : owner[v] = a}
          ELSE UNCHANGED <<rows, late>>
  BY <1>2, <1>3, <1>4, <1>7, <1>8, <1>9 DEF RemoveSub, Synchronised, NoLonger
<1>12. a \notin strayed' => Single(Mains(s))
  BY <1>1, <1>5, <1>10, <1>11, StrayMarks DEF SubsInv
<1>13. a \notin raced' => Single(MainGroups(s))
  BY <1>1, <1>4, <1>6, <1>7, <1>8, <1>10 DEF SubsInv, Grows
<1>14. PICK rs : rs = rows
  OBVIOUS
<1>15. RowsOf(rs, a)
  BY <1>1, <1>14 DEF RowsOf, RowsInv
<1>16. SubsInv' /\ RowsInv'
  <2>1. CASE f.main
    <3>1. rows' = Synced(rs, owner, s, a) /\ late' = late \ {v \in Users : owner[v] = a}
      BY <1>11, <1>14, <2>1
    <3>2. QED BY <1>1, <1>5, <1>6, <1>10, <1>11, <1>12, <1>13, <1>15, <3>1, SyncedKeeps
  <2>2. CASE ~f.main
    <3>1. rows' = rs /\ late' = late
      BY <1>11, <1>14, <2>2
    <3>2. a \in raced' \/ Mains(s) = Mains(old)
      BY <1>6, <1>7, <1>8, <1>10, <2>2
    <3>3. \A v \in Users : rs[v].key = rows[v].key
      BY <1>14
    <3>4. QED BY <1>1, <1>4, <1>5, <1>6, <1>10, <1>11, <1>12, <1>13, <1>15, <3>1, <3>2, <3>3, UnsyncedKeeps
  <2>3. QED BY <1>2, <2>1, <2>2
<1>17. HandsInv'
  BY <1>1, <1>4, <1>5, <1>6, <1>10, <1>11, HandsDropped DEF SubsInv
<1>18. OwnersInv'
  BY <1>1, <1>5 DEF OwnersInv
<1>19. QED BY <1>16, <1>17, <1>18 DEF FollowInv

LEMMA PlainFollows ==
  ASSUME Shape, FollowInv, NEW u \in Users, Plain(u)
  PROVE  FollowInv'
<1>. HIDE DEF FollowInv
<1>1. ASSUME NEW on \in BOOLEAN, Preferences(u, on) \/ Mute(u, on) PROVE FollowInv'
  BY <1>1, PreferencesFollow, MuteFollows
<1>2. QED BY <1>1, LoginFollows, LooksFollow, AddFollows, MakeMainFollows, RemoveSubFollows DEF Plain

-----------------------------------------------------------------------------
(* Links *)

LEMMA LinkStepsFollow ==
  ASSUME Shape, FollowInv, NEW t \in Tokens,
         LinkExpires(t) \/ \E u \in Users : CreateLink(u, t) \/ LookLink(u, t)
  PROVE  FollowInv'
<1>. HIDE DEF FollowInv
<1>1. CASE LinkExpires(t)
  BY <1>1, LookKeeps DEF LinkExpires, history
<1>2. ASSUME NEW u \in Users, CreateLink(u, t) PROVE FollowInv'
  BY <1>2, LookKeeps DEF CreateLink, history
<1>3. ASSUME NEW u \in Users, LookLink(u, t) PROVE FollowInv'
  <2>1. PICK f : f = [pc |-> "linking", account |-> owner[u], token |-> t]
    OBVIOUS
  <2>2. f.pc = "linking"
    BY <2>1
  <2>3. HandOK(f)'
    BY <2>2 DEF HandOK
  <2>4. flight' = [flight EXCEPT ![u] = f] /\ UNCHANGED <<subs, owner, raced, strayed, late, rows, accounts>>
    BY <1>3, <2>1 DEF LookLink
  <2>5. QED BY <2>3, <2>4, LookKeeps
<1>4. QED BY <1>1, <1>2, <1>3

(* The identities that move get the row of the account they join; that has   *)
(* one primary group, the initiator's or the target's.                       *)
LEMMA ConfirmFollows ==
  ASSUME LinkInv, FollowInv, NEW u \in Users, NEW c, Confirm(u, c)
  PROVE  FollowInv'
<1>1. SubsInv /\ RowsInv /\ HandsInv /\ OwnersInv /\ Shape /\ RequestsOK
  BY DEF FollowInv, LinkInv
<1>2. flight[u].pc = "linking"
  BY DEF Confirm, Join, At
<1>3. PICK gone \in Ids : gone = flight[u].account
  BY <1>1, <1>2 DEF Shape, FlightOK
<1>4. PICK a \in Ids : a = requests[flight[u].token].account /\ a # gone /\ accounts[a] # "none"
  BY <1>1, <1>2, <1>3 DEF Shape, FlightOK, RequestsOK
<1>5. PICK mine \in Subs, theirs \in Subs : mine = subs[a] /\ theirs = subs[gone]
  BY <1>1 DEF SubsInv
<1>6. PICK s : s = Merged(mine, theirs, c)
  OBVIOUS
<1>7. /\ s \in Subs /\ DOMAIN mine \subseteq DOMAIN s
      /\ Single(MainGroups(mine)) => Single(MainGroups(s))
  <2>1. /\ Merged(mine, theirs, c) \in Subs
        /\ DOMAIN Merged(mine, theirs, c) = DOMAIN mine \union DOMAIN theirs
        /\ Single(MainGroups(mine)) => Single(MainGroups(Merged(mine, theirs, c)))
    BY MergedIs
  <2>2. QED BY <1>6, <2>1
<1>8. PICK ow : ow = [v \in Users |-> IF owner[v] = gone THEN a ELSE owner[v]]
  OBVIOUS
<1>9. /\ owner' = ow /\ subs' = [subs EXCEPT ![a] = s]
      /\ rows' = Synced(rows, ow, s, a)
      /\ late' = late \ {v \in Users : ow[v] = a}
      /\ accounts' = [accounts EXCEPT ![gone] = "gone"]
      /\ flight' = [flight EXCEPT ![u] = Idle]
      /\ Stray(subs') /\ raced' = raced
  BY <1>3, <1>4, <1>5, <1>6, <1>8 DEF Confirm, Join, NoLonger, Answered
<1>10. Grows /\ (a \notin strayed' => Single(Mains(s)))
  BY <1>1, <1>7, <1>9, StrayMarks DEF SubsInv, Grows
<1>11. subs' \in [Ids -> Subs] /\ subs'[a] = s /\ \A b \in Ids \ {a} : subs'[b] = subs[b]
  BY <1>1, <1>7, <1>9 DEF SubsInv
<1>12. SubsInv'
  BY <1>1, <1>5, <1>7, <1>9, <1>10, <1>11 DEF SubsInv, Grows
<1>13. \A b \in Ids : accounts'[b] = IF b = gone THEN "gone" ELSE accounts[b]
  BY <1>1, <1>9 DEF Shape
<1>14. PICK rs \in [Users -> Row] : rs = rows
  BY <1>1 DEF RowsInv
<1>15. rows' = [v \in Users |-> IF rs[v].known /\ ow[v] = a THEN Projected(rs[v], s) ELSE rs[v]]
  BY <1>9, <1>14 DEF Synced
<1>16. ASSUME NEW v \in Users
       PROVE  /\ rows'[v] \in Row /\ rows'[v].known = rs[v].known
              /\ rs[v].known /\ ow[v] = a => rows'[v].key = Shown(s)
              /\ ow[v] # a => rows'[v] = rs[v]
  <2>1. rows'[v] = IF rs[v].known /\ ow[v] = a THEN Projected(rs[v], s) ELSE rs[v]
    BY <1>15
  <2>2. PICK r \in Row : r = rs[v]
    OBVIOUS
  <2>3. QED BY <1>7, <2>1, <2>2, ProjectedIs
<1>17. rows' \in [Users -> Row]
  BY <1>15, <1>16
<1>18. ASSUME NEW v \in Users, rows'[v].known
       PROVE  Excused(v)' \/ rows'[v].key = Shown(subs'[owner'[v]])
  <2>1. rows[v].known
    BY <1>14, <1>16, <1>18
  <2>2. CASE ow[v] = a
    BY <1>9, <1>11, <1>14, <1>16, <2>1, <2>2
  <2>3. CASE ow[v] # a
    <3>1. owner[v] \in Ids /\ owner'[v] = owner[v] /\ owner[v] # gone /\ owner[v] # a
      BY <1>1, <1>8, <1>9, <2>3 DEF Shape
    <3>2. rows'[v] = rows[v] /\ subs'[owner[v]] = subs[owner[v]]
      BY <1>11, <1>14, <1>16, <2>3, <3>1
    <3>3. Excused(v) \/ rows[v].key = Shown(subs[owner[v]])
      BY <1>1, <2>1 DEF RowsInv
    <3>4. Excused(v) => Excused(v)'
      BY <1>9, <1>10, <1>13, <2>3, <3>1 DEF Excused, Grows, Exists
    <3>5. QED BY <3>1, <3>2, <3>3, <3>4
  <2>4. QED BY <2>2, <2>3
<1>19. RowsInv'
  BY <1>17, <1>18 DEF RowsInv
<1>20. \A b \in Ids : DOMAIN subs[b] \subseteq DOMAIN subs'[b]
  BY <1>5, <1>7, <1>11
<1>21. HandsInv'
  <2>1. PICK f : f = Idle /\ flight' = [flight EXCEPT ![u] = f]
    BY <1>9
  <2>2. HandOK(f)'
    BY <2>1, IdleHand DEF HandOK, Idle
  <2>3. \A b \in Ids : accounts[b] # "none" => accounts'[b] # "none"
    BY <1>13
  <2>4. QED BY <1>1, <1>10, <1>20, <2>1, <2>2, <2>3, HandsOne
<1>22. OwnersInv'
  BY <1>1, <1>4, <1>8, <1>9, <1>13 DEF OwnersInv, Shape
<1>23. QED BY <1>12, <1>19, <1>21, <1>22 DEF FollowInv

(* The identity that leaves takes with it the subscriptions that were read,  *)
(* which its row shows, unless the account has changed since.                *)
LEMMA UnlinkFollows ==
  ASSUME LinkInv, FollowInv, NEW u \in Users, Unlink(u)
  PROVE  FollowInv'
<1>1. SubsInv /\ RowsInv /\ HandsInv /\ OwnersInv /\ Shape
  BY DEF FollowInv, LinkInv
<1>2. flight[u].pc = "unlinking" /\ HandOK(flight[u]) /\ FlightOK(flight[u])
  BY <1>1 DEF Unlink, At, HandsInv, Shape
<1>3. PICK f : f = flight[u]
  OBVIOUS
<1>4. /\ f.who \in Users /\ f.on \in {"on", "off"} /\ f.account \in Ids /\ f.copy \in Subs
      /\ f.account \notin raced => Single(MainGroups(f.copy))
      /\ f.account \notin strayed => Single(Mains(f.copy))
  BY <1>2, <1>3 DEF HandOK, FlightOK
<1>5. PICK who \in Users, copy \in Subs, b \in Ids : who = f.who /\ copy = f.copy /\ b = f.account
  BY <1>4
<1>6. PICK new \in Ids : new = Fresh /\ accounts[new] = "none"
  BY FreshIsNew DEF Unlink
<1>7. /\ accounts' = [accounts EXCEPT ![new] = f.on]
      /\ owner' = [owner EXCEPT ![who] = new]
      /\ subs' = [subs EXCEPT ![new] = copy]
      /\ flight' = [flight EXCEPT ![u] = Idle]
      /\ UNCHANGED <<rows, late>>
  BY <1>3, <1>5, <1>6 DEF Unlink, Answered
<1>8. /\ raced' = IF AsCopied(f) /\ b \notin raced THEN raced ELSE raced \union {new}
      /\ strayed' = IF Cardinality(Mains(copy)) <= 1 /\ b \notin strayed THEN strayed ELSE strayed \union {new}
  BY <1>3, <1>5, <1>6 DEF Unlink
<1>9. AsCopied(f) <=> Exists(b) /\ owner[who] = b /\ Mains(copy) = Mains(subs[b])
  BY <1>5 DEF AsCopied
<1>10. Grows
  BY <1>8 DEF Grows
<1>11. subs' \in [Ids -> Subs] /\ subs'[new] = copy /\ \A d \in Ids \ {new} : subs'[d] = subs[d]
  BY <1>1, <1>7 DEF SubsInv
<1>12. new \notin raced' => Single(MainGroups(copy)) /\ b \notin raced /\ AsCopied(f)
  BY <1>4, <1>5, <1>8
<1>13. new \notin strayed' => Single(Mains(copy))
  BY <1>4, <1>5, <1>8
<1>14. SubsInv'
  BY <1>1, <1>10, <1>11, <1>12, <1>13 DEF SubsInv, Grows
<1>15. /\ \A d \in Ids : accounts'[d] = IF d = new THEN f.on ELSE accounts[d]
       /\ \A v \in Users : owner'[v] = IF v = who THEN new ELSE owner[v]
       /\ \A v \in Users : owner[v] \in Ids /\ owner[v] # new
  BY <1>1, <1>6, <1>7 DEF Shape, OwnersInv
<1>16. ASSUME NEW v \in Users, rows'[v].known
       PROVE  Excused(v)' \/ rows'[v].key = Shown(subs'[owner'[v]])
  <2>1. rows'[v] = rows[v] /\ rows[v].known
    BY <1>7, <1>16
  <2>2. Excused(v) \/ rows[v].key = Shown(subs[owner[v]])
    BY <1>1, <2>1 DEF RowsInv
  <2>3. CASE v # who
    <3>1. owner'[v] = owner[v] /\ subs'[owner[v]] = subs[owner[v]]
      BY <1>11, <1>15, <2>3
    <3>2. Excused(v) => Excused(v)'
      BY <1>7, <1>10, <1>15, <3>1 DEF Excused, Grows, Exists
    <3>3. QED BY <2>1, <2>2, <3>1, <3>2
  <2>4. CASE v = who
    <3>1. CASE new \in raced' \union strayed'
      BY <1>15, <2>4, <3>1 DEF Excused
    <3>2. CASE new \notin raced' \union strayed' /\ v \in late
      BY <1>7, <3>2 DEF Excused
    <3>3. CASE new \notin raced' \union strayed' /\ v \notin late
      <4>1. Exists(b) /\ owner[v] = b /\ Mains(copy) = Mains(subs[b]) /\ b \notin raced /\ b \notin strayed
        BY <1>8, <1>9, <1>12, <2>4, <3>3
      <4>2. ~Excused(v)
        BY <3>3, <4>1 DEF Excused
      <4>3. PICK old \in Subs : old = subs[b]
        BY <1>1 DEF SubsInv
      <4>4. Shown(copy) = Shown(old)
        BY <1>13, <3>3, <4>1, <4>3, ShownByMains
      <4>5. QED BY <1>11, <1>15, <2>1, <2>2, <2>4, <4>1, <4>2, <4>3, <4>4
    <3>4. QED BY <3>1, <3>2, <3>3
  <2>5. QED BY <2>3, <2>4
<1>17. RowsInv'
  BY <1>1, <1>7, <1>16 DEF RowsInv
<1>18. HandsInv'
  <2>1. \A d \in Ids : accounts[d] # "none" => accounts'[d] # "none" /\ DOMAIN subs[d] \subseteq DOMAIN subs'[d]
    BY <1>6, <1>11, <1>15
  <2>2. QED BY <1>1, <1>7, <1>10, <2>1, IdleHand, HandsOne
<1>19. OwnersInv'
  BY <1>1, <1>4, <1>15 DEF OwnersInv
<1>20. QED BY <1>14, <1>17, <1>18, <1>19 DEF FollowInv

-----------------------------------------------------------------------------
(* The inductive invariant *)

LEMMA InitFollows == Init => FollowInv
<1>. SUFFICES ASSUME Init PROVE FollowInv
  OBVIOUS
<1>1. Users \subseteq Ids
  BY AccountsAssumption DEF Ids
<1>2. NoRow \in Row
  BY DEF NoRow, Row
<1>3. PICK start : /\ start \in [Users -> Keys \union {"none", "new"}]
                   /\ rows = [v \in Users |-> IF start[v] = "new" THEN NoRow
                                              ELSE [NoRow EXCEPT !.known = TRUE, !.key = start[v]]]
  <2>1. PICK start \in Starts : rows = [v \in Users |-> IF start[v] = "new" THEN NoRow
                                              ELSE [NoRow EXCEPT !.known = TRUE, !.key = start[v]]]
    BY DEF Init
  <2>2. start \in [Users -> Keys \union {"none", "new"}]
    BY AccountsAssumption
  <2>3. QED BY <2>1, <2>2
<1>4. ASSUME NEW v \in Users PROVE rows[v] \in Row
  <2>1. CASE start[v] = "new"
    BY <1>2, <1>3, <2>1
  <2>2. CASE start[v] # "new"
    <3>1. start[v] \in Keys \union {"none"}
      BY <1>3, <2>2
    <3>2. rows[v] = [NoRow EXCEPT !.known = TRUE, !.key = start[v]]
      BY <1>3, <2>2
    <3>3. QED BY <1>2, <3>1, <3>2 DEF Row
  <2>3. QED BY <2>1, <2>2
<1>5. rows \in [Users -> Row]
  BY <1>3, <1>4
<1>6. NoSubs = FromRow(NoRow)
  BY DEF FromRow, NoRow
<1>7. subs = [b \in Ids |-> FromRow(IF b \in Users THEN rows[b] ELSE NoRow)]
  BY <1>6 DEF Init
<1>8. ASSUME NEW b \in Ids
      PROVE  subs[b] \in Subs /\ Single(Mains(subs[b])) /\ Single(MainGroups(subs[b]))
  <2>1. PICK r \in Row : r = IF b \in Users THEN rows[b] ELSE NoRow
    BY <1>2, <1>4
  <2>2. subs[b] = FromRow(r)
    BY <1>7, <2>1
  <2>3. QED BY <2>2, FromRowIs
<1>9. SubsInv
  <2>1. DOMAIN subs = Ids /\ subs = [b \in Ids |-> subs[b]]
    BY <1>7
  <2>2. QED BY <1>8, <2>1 DEF SubsInv
<1>10. ASSUME NEW v \in Users, rows[v].known
       PROVE  rows[v].key = Shown(subs[owner[v]])
  <2>1. PICK r \in Row : r = rows[v]
    BY <1>4
  <2>2. subs[owner[v]] = FromRow(r)
    BY <1>1, <1>7, <2>1 DEF Init
  <2>3. QED BY <1>10, <2>1, <2>2, FromRowIs
<1>11. RowsInv
  BY <1>5, <1>10 DEF RowsInv
<1>12. HandsInv
  BY DEF Init, HandsInv, HandOK, Idle
<1>13. OwnersInv
  BY <1>1 DEF Init, OwnersInv
<1>14. QED BY <1>9, <1>11, <1>12, <1>13 DEF FollowInv

LEMMA NextFollows == LinkInv /\ FollowInv /\ [Next]_vars => FollowInv'
<1>. SUFFICES ASSUME LinkInv, FollowInv, [Next]_vars PROVE FollowInv'
  OBVIOUS
<1>. HIDE DEF FollowInv
<1>1. Shape
  BY DEF LinkInv
<1>2. ASSUME NEW u \in Users, MiniApp(u) PROVE FollowInv'
  <2>1. \/ Plain(u) \/ Unlink(u)
        \/ \E t \in Tokens : CreateLink(u, t) \/ LookLink(u, t)
        \/ \E c \in LinkChoices : Confirm(u, c)
    BY <1>2 DEF MiniApp, Plain
  <2>2. QED BY <1>1, <2>1, PlainFollows, UnlinkFollows, LinkStepsFollow, ConfirmFollows
<1>3. CASE UNCHANGED vars
  BY <1>1, <1>3, LookKeeps DEF vars
<1>4. QED BY <1>1, <1>2, <1>3, BotFollows, PromotionFollows, LinkStepsFollow DEF Next

-----------------------------------------------------------------------------
(* One at most of an account's groups is its primary one, whatever the bots, *)
(* the mini app, links, unlinks and promotions do to it, unless a request    *)
(* acted on a subscription another one had changed since it was read         *)
(* (account_service.py, update_subscription and remove_subscription).        *)
THEOREM GroupsAreSingle == Spec => []OneMainGroup
<1>1. LinkInv /\ FollowInv => OneMainGroup
  <2>. SUFFICES ASSUME FollowInv, NEW a \in Ids \ raced PROVE Cardinality(MainGroups(subs[a])) <= 1
    BY DEF OneMainGroup
  <2>1. PICK s \in Subs : s = subs[a] /\ Single(MainGroups(s))
    BY DEF FollowInv, SubsInv
  <2>2. IsFiniteSet(MainGroups(s))
    BY KeysAreFinite
  <2>3. QED BY <2>1, <2>2, SingleByCount
<1>2. QED BY <1>1, InitLinkInv, NextLinkInv, InitFollows, NextFollows, PTL DEF Spec

(* Who can be reached is notified of the account's primary subscription and  *)
(* of its others that are not muted, and of nothing else: the row that       *)
(* list_users reads shows the primary subscription at every moment, for      *)
(* every identity of the account (_sync_primary_to_users), but for what the  *)
(* property excuses.                                                         *)
THEOREM RowsFollowAccounts == Spec => []NotifiedAsSubscribed
<1>1. LinkInv /\ FollowInv => NotifiedAsSubscribed
  <2>. SUFFICES ASSUME LinkInv, FollowInv, NEW u \in Users,
                       rows[u].known, rows[u].on, ~rows[u].auto, Active(owner[u]),
                       u \notin late, owner[u] \notin strayed \union raced
                PROVE  {k \in Keys : u \in Recipients(PlatformOf[u], k)} =
                         {k \in DOMAIN subs[owner[u]] : subs[owner[u]][k].main \/ subs[owner[u]][k].on}
    BY DEF NotifiedAsSubscribed
  <2>1. PICK s \in Subs : s = subs[owner[u]] /\ Single(Mains(s))
    BY DEF LinkInv, Shape, FollowInv, SubsInv
  <2>2. rows[u].key = Shown(s)
    BY <2>1 DEF FollowInv, RowsInv, Excused, Active
  <2>3. DOMAIN s \subseteq Keys /\ "none" \notin Keys
    BY KeysAreFinite, AccountsAssumption
  <2>4. ASSUME NEW k \in Keys
        PROVE  u \in Recipients(PlatformOf[u], k) <=>
                 rows[u].key = k \/ (k \in DOMAIN s /\ ~s[k].main /\ s[k].on)
    BY <2>1 DEF Recipients
  <2>5. ASSUME NEW k \in Keys
        PROVE  rows[u].key = k <=> k \in DOMAIN s /\ s[k].main
    <3>1. k \in Mains(s) <=> k \in DOMAIN s /\ s[k].main
      BY DEF Mains
    <3>2. Shown(s) = k <=> k \in Mains(s)
      BY <2>1, <2>3, ShownIs DEF Single
    <3>3. QED BY <2>2, <3>1, <3>2
  <2>6. \A k \in DOMAIN s : s[k].main \in BOOLEAN
    BY SubsAre DEF Sub
  <2>7. QED BY <2>1, <2>3, <2>4, <2>5, <2>6
<1>2. QED BY <1>1, InitLinkInv, NextLinkInv, InitFollows, NextFollows, PTL DEF Spec

(* Linking loses no subscription of either account, whichever side's primary *)
(* one is chosen (account_service.py, confirm_link).                         *)
THEOREM LinksLoseNothing == Spec => LinkKeepsAll
<1>. DEFINE Keeps ==
       \A u \in Users, c \in LinkChoices : Confirm(u, c) =>
         LET a == requests[flight[u].token].account IN
         DOMAIN subs[a] \union DOMAIN subs[flight[u].account] \subseteq DOMAIN subs'[a]
<1>1. LinkInv /\ FollowInv /\ [Next]_vars => [Keeps]_vars
  <2>. SUFFICES ASSUME LinkInv, FollowInv, NEW u \in Users, NEW c \in LinkChoices, Confirm(u, c),
                       NEW a, a = requests[flight[u].token].account
                PROVE  DOMAIN subs[a] \union DOMAIN subs[flight[u].account] \subseteq DOMAIN subs'[a]
    OBVIOUS
  <2>1. subs \in [Ids -> Subs]
    BY DEF FollowInv, SubsInv
  <2>2. a \in Ids /\ flight[u].account \in Ids
    BY DEF LinkInv, Shape, FlightOK, RequestsOK, Confirm, Join, At
  <2>3. PICK mine \in Subs, theirs \in Subs : mine = subs[a] /\ theirs = subs[flight[u].account]
    BY <2>1, <2>2
  <2>4. subs' = [subs EXCEPT ![a] = Merged(mine, theirs, c)]
    BY <2>3 DEF Confirm, Join
  <2>5. DOMAIN Merged(mine, theirs, c) = DOMAIN mine \union DOMAIN theirs
    BY MergedIs
  <2>6. QED BY <2>1, <2>2, <2>3, <2>4, <2>5
<1>. HIDE DEF Keeps
<1>2. [][Keeps]_vars => LinkKeepsAll
  BY PTL DEF Keeps, LinkKeepsAll
<1>3. QED BY <1>1, <1>2, InitLinkInv, NextLinkInv, InitFollows, NextFollows, PTL DEF Spec

-----------------------------------------------------------------------------
(* Types *)

(* A source is only kept for a user whose row is there, and a session is of  *)
(* an account that was made.                                                 *)
KnownRows == \A u \in Users : rows[u].key # "none" => rows[u].known
KnownInv == KnownRows /\ sessions \subseteq Users \X Ids

(* The rows a synchronisation or a switch starts from. *)
Known(rs) == rs \in [Users -> Row] /\ \A u \in Users : rs[u].key # "none" => rs[u].known

LEMMA SyncedIsKnown ==
  ASSUME NEW rs, Known(rs), NEW ow, NEW s, NEW b, rows' = rs \/ rows' = Synced(rs, ow, s, b)
  PROVE  KnownRows'
<1>1. CASE rows' = rs
  BY <1>1 DEF Known, KnownRows
<1>2. CASE rows' = Synced(rs, ow, s, b)
  <2>1. \A u \in Users : rows'[u] = IF rs[u].known /\ ow[u] = b THEN Projected(rs[u], s) ELSE rs[u]
    BY <1>2 DEF Synced
  <2>2. ASSUME NEW r \in Row PROVE Projected(r, s).known = r.known
    BY DEF Projected, Row
  <2>3. ASSUME NEW u \in Users, rows'[u].key # "none" PROVE rows'[u].known
    <3>1. PICK r \in Row : r = rs[u]
      BY DEF Known
    <3>2. rows'[u].known <=> r.known
      BY <2>1, <2>2, <3>1
    <3>3. r.key # "none" => r.known
      BY <3>1 DEF Known
    <3>4. QED BY <2>1, <2>3, <3>1, <3>2, <3>3
  <2>4. QED BY <2>3 DEF KnownRows
<1>3. QED BY <1>1, <1>2

LEMMA SubscribeKnows ==
  ASSUME NEW u \in Users, NEW rs, Known(rs), NEW key, NEW asMain, Subscribe(u, rs, key, asMain)
  PROVE  KnownRows'
<1>1. PICK ow, s, b : rows' = rs \/ rows' = Synced(rs, ow, s, b)
  BY DEF Subscribe
<1>2. QED BY <1>1, SyncedIsKnown

LEMMA UnsubscribeKnows ==
  ASSUME NEW u \in Users, NEW rs, Known(rs), NEW keys, Unsubscribe(u, rs, keys)
  PROVE  KnownRows'
<1>1. PICK ow, s, b : rows' = rs \/ rows' = Synced(rs, ow, s, b)
  BY DEF Unsubscribe
<1>2. QED BY <1>1, SyncedIsKnown

LEMMA PreferringKnows ==
  ASSUME NEW rs, Known(rs), NEW a, NEW on \in BOOLEAN, Preferring(rs, a, on)
  PROVE  KnownRows'
BY PreferringRows DEF Known, KnownRows

(* A row that a handler changes is there. *)
LEMMA OwnRowKnown ==
  ASSUME rows \in [Users -> Row], KnownRows, NEW u \in Users, NEW r \in Row, r.known,
         NEW rs, rs = [rows EXCEPT ![u] = r]
  PROVE  Known(rs)
BY DEF Known, KnownRows

LEMMA OneRowKnown ==
  ASSUME rows \in [Users -> Row], KnownRows, NEW u \in Users, NEW r, r.known,
         rows' = [rows EXCEPT ![u] = r]
  PROVE  KnownRows'
<1>1. rows'[u] = r /\ \A v \in Users \ {u} : rows'[v] = rows[v]
  OBVIOUS
<1>2. QED BY <1>1 DEF KnownRows

LEMMA BotKnows ==
  ASSUME LinkInv, FollowInv, KnownInv, NEW u \in Users, Bot(u)
  PROVE  KnownInv'
<1>1. rows \in [Users -> Row] /\ KnownRows /\ Shape /\ SubsInv
  BY DEF FollowInv, RowsInv, KnownInv, LinkInv
<1>2. sessions' = sessions
  BY DEF Bot, Register, Write, LeaveRoom, Leave, Undeliverable, Choose, ChooseRoom, SetHalf, SetNotifications
<1>3. rows[u] \in Row
  BY <1>1
<1>. SUFFICES KnownRows'
  BY <1>2 DEF KnownInv
<1>4. CASE Register(u)
  BY <1>1, <1>4 DEF Register, KnownRows
<1>5. CASE Write(u)
  <2>1. PICK r : r.known = TRUE /\ rows' = [rows EXCEPT ![u] = r]
    <3>1. PICK on, key, half : rows' = [rows EXCEPT ![u] = [rows[u] EXCEPT !.known = TRUE, !.on = on, !.auto = FALSE,
                                                                           !.key = key, !.half = half]]
      BY <1>5 DEF Write
    <3>2. [rows[u] EXCEPT !.known = TRUE, !.on = on, !.auto = FALSE, !.key = key, !.half = half].known = TRUE
      BY <1>3 DEF Row
    <3>3. QED BY <3>1, <3>2
  <2>2. QED BY <1>1, <2>1, OneRowKnown
<1>6. CASE LeaveRoom(u)
  <2>1. PICK r, rs, keys : /\ r = [rows[u] EXCEPT !.room = "none"] /\ rs = [rows EXCEPT ![u] = r]
                           /\ Unsubscribe(u, rs, keys)
    BY <1>6 DEF LeaveRoom
  <2>2. r \in Row /\ r.known
    BY <1>3, <1>6, <2>1 DEF LeaveRoom, Row
  <2>3. Known(rs)
    BY <1>1, <2>1, <2>2, OwnRowKnown
  <2>4. QED BY <2>1, <2>3, UnsubscribeKnows
<1>7. CASE Leave(u)
  <2>1. PICK r, rs, keys : /\ r = [rows[u] EXCEPT !.key = "none", !.half = 0, !.room = "none"]
                           /\ rs = [rows EXCEPT ![u] = r]
                           /\ Unsubscribe(u, rs, keys)
    BY <1>7 DEF Leave
  <2>2. r \in Row /\ r.known
    <3>1. 0 \in 0 .. 1
      OBVIOUS
    <3>2. QED BY <1>3, <1>7, <2>1, <3>1 DEF Leave, Row
  <2>3. Known(rs)
    BY <1>1, <2>1, <2>2, OwnRowKnown
  <2>4. QED BY <2>1, <2>3, UnsubscribeKnows
<1>8. CASE Undeliverable(u)
  <2>1. PICK r : r = [rows[u] EXCEPT !.on = FALSE, !.auto = TRUE] /\ rows' = [rows EXCEPT ![u] = r]
    BY <1>8 DEF Undeliverable
  <2>2. r \in Row /\ r.known
    BY <1>3, <1>8, <2>1 DEF Undeliverable, Row
  <2>3. QED BY <1>1, <2>1, <2>2, OneRowKnown
<1>9. ASSUME NEW k \in Keys, Choose(u, k) PROVE KnownRows'
  <2>1. PICK half \in 0 .. 1 : half = IF rows[u].half = 1 /\ rows[u].key = k THEN 1 ELSE 0
    OBVIOUS
  <2>2. PICK r, rs : /\ r = [rows[u] EXCEPT !.key = k, !.half = half] /\ rs = [rows EXCEPT ![u] = r]
                     /\ Subscribe(u, rs, k, TRUE)
    BY <1>9, <2>1 DEF Choose
  <2>3. r \in Row /\ r.known
    BY <1>3, <1>9, <2>2 DEF Choose, Row
  <2>4. Known(rs)
    BY <1>1, <2>2, <2>3, OwnRowKnown
  <2>5. QED BY <1>1, <2>2, <2>4, SubscribeKnows
<1>10. ASSUME NEW k \in Keys, ChooseRoom(u, k) PROVE KnownRows'
  <2>1. PICK r, rs : /\ r = [rows[u] EXCEPT !.room = k] /\ rs = [rows EXCEPT ![u] = r]
                     /\ Subscribe(u, rs, k, FALSE)
    BY <1>10 DEF ChooseRoom
  <2>2. r \in Row /\ r.known
    BY <1>3, <1>10, <2>1 DEF ChooseRoom, Row
  <2>3. Known(rs)
    BY <1>1, <2>1, <2>2, OwnRowKnown
  <2>4. QED BY <1>1, <2>1, <2>3, SubscribeKnows
<1>11. ASSUME NEW half \in 0 .. 1, SetHalf(u, half) PROVE KnownRows'
  <2>1. PICK r : r = [rows[u] EXCEPT !.half = half]
    OBVIOUS
  <2>2. r \in Row /\ r.known
    <3>1. rows[u].key # "none"
      BY <1>11, AccountsAssumption DEF SetHalf
    <3>2. QED BY <1>1, <1>3, <2>1, <3>1 DEF KnownRows, Row
  <2>3. PICK rs, ow, s, b : rs = [rows EXCEPT ![u] = r] /\ (rows' = rs \/ rows' = Synced(rs, ow, s, b))
    BY <1>11, <2>1 DEF SetHalf
  <2>4. Known(rs)
    BY <1>1, <2>2, <2>3, OwnRowKnown
  <2>5. QED BY <2>3, <2>4, SyncedIsKnown
<1>12. ASSUME NEW on \in BOOLEAN, SetNotifications(u, on) PROVE KnownRows'
  <2>1. PICK auto \in BOOLEAN : auto = (rows[u].auto /\ ~on)
    OBVIOUS
  <2>2. PICK r : r = [rows[u] EXCEPT !.on = on, !.auto = auto]
    OBVIOUS
  <2>3. r \in Row /\ r.known
    BY <1>3, <1>12, <2>2 DEF SetNotifications, Row
  <2>4. PICK rs : rs = [rows EXCEPT ![u] = r]
    OBVIOUS
  <2>5. Known(rs)
    BY <1>1, <2>3, <2>4, OwnRowKnown
  <2>6. PICK a : rows' = rs \/ Preferring(rs, a, on)
    BY <1>12, <2>1, <2>2, <2>4 DEF SetNotifications
  <2>7. CASE rows' = rs
    BY <2>5, <2>7 DEF Known, KnownRows
  <2>8. CASE Preferring(rs, a, on)
    BY <2>5, <2>8, PreferringKnows
  <2>9. QED BY <2>6, <2>7, <2>8
<1>13. QED BY <1>4, <1>5, <1>6, <1>7, <1>8, <1>9, <1>10, <1>11, <1>12 DEF Bot

LEMMA MiniAppKnows ==
  ASSUME LinkInv, FollowInv, KnownInv, NEW u \in Users, MiniApp(u)
  PROVE  KnownInv'
<1>1. rows \in [Users -> Row] /\ KnownRows /\ Shape /\ sessions \subseteq Users \X Ids
  BY DEF FollowInv, RowsInv, KnownInv, LinkInv
<1>2. sessions' \subseteq Users \X Ids
  <2>1. CASE Login(u)
    <3>1. PICK a \in Ids : a = owner[u] /\ sessions' = sessions \union {<<u, a>>}
      BY <1>1, <2>1, Got DEF Login, Shape
    <3>2. QED BY <1>1, <3>1
  <2>2. CASE ~Login(u)
    <3>1. sessions' \subseteq sessions
      BY <2>2 DEF MiniApp, Authenticate, Refused, SessionEnds, Preferences, Mute, LookAdd, LookRow, Add, MakeMain,
                  RemoveSub, CreateLink, LookLink, Confirm, Join, ConfirmFails, LookUnlink, Unlink
    <3>2. QED BY <1>1, <3>1
  <2>3. QED BY <2>1, <2>2
<1>3. KnownRows'
  <2>1. PICK rs : rs = rows
    OBVIOUS
  <2>2. Known(rs)
    BY <1>1, <2>1 DEF Known, KnownRows
  <2>3. \/ rows' = rs
        \/ \E ow, s, b : rows' = Synced(rs, ow, s, b)
        \/ \E a : \E on \in BOOLEAN : Preferring(rs, a, on)
    BY <2>1 DEF MiniApp, Login, Authenticate, Refused, SessionEnds, Preferences, Mute, LookAdd, LookRow, Add, MakeMain,
                RemoveSub, CreateLink, LookLink, Confirm, Join, ConfirmFails, LookUnlink, Unlink, Synchronised
  <2>4. QED BY <2>2, <2>3, SyncedIsKnown, PreferringKnows
<1>4. QED BY <1>2, <1>3 DEF KnownInv

LEMMA PromotionKnows ==
  ASSUME FollowInv, KnownInv, Promotion
  PROVE  KnownInv'
<1>1. rows \in [Users -> Row]
  BY DEF FollowInv, RowsInv
<1>2. PICK pending \in Keys, key \in Keys : PromoteGroup(pending, key) \/ PromoteTeacher(pending, key)
  BY AccountsAssumption DEF Promotion
<1>3. /\ rows' = [u \in Users |-> IF rows[u].key = pending THEN [rows[u] EXCEPT !.key = key] ELSE rows[u]]
      /\ sessions' = sessions
  BY <1>2 DEF PromoteGroup, PromoteTeacher
<1>4. ASSUME NEW u \in Users, rows'[u].key # "none" PROVE rows'[u].known
  <2>1. rows[u].key # "none"
    BY <1>3, <1>4, AccountsAssumption
  <2>2. rows'[u].known = rows[u].known
    BY <1>1, <1>3 DEF Row
  <2>3. QED BY <2>1, <2>2 DEF KnownInv, KnownRows
<1>5. QED BY <1>3, <1>4 DEF KnownInv, KnownRows

(* Rows, accounts, owners, subscriptions, link requests and sessions have    *)
(* their types, and a source is only kept for a user whose row is there.     *)
THEOREM TypeCorrect == Spec => []TypeOK
<1>1. Init => KnownInv
  <2>. SUFFICES ASSUME Init PROVE KnownInv
    OBVIOUS
  <2>1. \A u \in Users : rows[u].key # "none" => rows[u].known
    <3>1. PICK start \in Starts : rows = [v \in Users |-> IF start[v] = "new" THEN NoRow
                                              ELSE [NoRow EXCEPT !.known = TRUE, !.key = start[v]]]
      BY DEF Init
    <3>2. NoRow.key = "none" /\ \A key : [NoRow EXCEPT !.known = TRUE, !.key = key].known = TRUE
      BY DEF NoRow
    <3>3. QED BY <3>1, <3>2
  <2>2. Users \subseteq Ids
    BY AccountsAssumption DEF Ids
  <2>3. sessions \subseteq Users \X Ids
    <3>1. ASSUME NEW s \in sessions PROVE s \in Users \X Ids
      <4>1. PICK u \in Users : s = <<u, u>>
        BY DEF Init
      <4>2. QED BY <2>2, <4>1
    <3>2. QED BY <3>1
  <2>4. QED BY <2>1, <2>3 DEF KnownInv, KnownRows
<1>2. LinkInv /\ FollowInv /\ KnownInv /\ [Next]_vars => KnownInv'
  <2>. SUFFICES ASSUME LinkInv, FollowInv, KnownInv, [Next]_vars PROVE KnownInv'
    OBVIOUS
  <2>1. ASSUME NEW t \in Tokens, LinkExpires(t) PROVE KnownInv'
    BY <2>1 DEF LinkExpires, KnownInv, KnownRows
  <2>2. CASE UNCHANGED vars
    BY <2>2 DEF vars, KnownInv, KnownRows
  <2>. HIDE DEF FollowInv, KnownInv
  <2>3. QED BY <2>1, <2>2, BotKnows, MiniAppKnows, PromotionKnows DEF Next
<1>3. LinkInv /\ FollowInv /\ KnownInv => TypeOK
  <2>. SUFFICES ASSUME LinkInv, FollowInv, KnownInv PROVE TypeOK
    OBVIOUS
  <2>1. DOMAIN subs = Ids /\ \A a \in Ids : DOMAIN subs[a] \subseteq Keys /\ subs[a] \in [DOMAIN subs[a] -> Sub]
    BY SubsAre DEF FollowInv, SubsInv
  <2>2. \A t \in Tokens : requests[t].state \in {"none", "open", "over"}
    BY DEF LinkInv, Shape
  <2>3. /\ rows \in [Users -> Row] /\ accounts \in [Ids -> {"none", "gone", "on", "off"}]
        /\ owner \in [Users -> Ids \union {NoAccount}]
    BY DEF LinkInv, Shape, FollowInv, RowsInv
  <2>4. QED BY <2>1, <2>2, <2>3 DEF TypeOK, KnownInv, KnownRows
<1>4. QED BY <1>1, <1>2, <1>3, InitLinkInv, NextLinkInv, InitFollows, NextFollows, PTL DEF Spec
=============================================================================
