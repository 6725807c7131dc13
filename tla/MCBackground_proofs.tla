------------------------- MODULE MCBackground_proofs -------------------------
(***************************************************************************)
(* What MCBackground checks of its parts, for every value of its           *)
(* constants: published jobs are kept, outages are confirmed and told,     *)
(* errors are told once and within their budget, the archive has the       *)
(* newest observation of a day, a group the site showed is not lost, a     *)
(* site that is away loses nobody, a name moves nobody to a namesake.      *)
(***************************************************************************)
EXTENDS MCBackground, FiniteSetTheorems, SequenceTheorems, NaturalsInduction, WellFoundedInduction, TLAPS

(* The parts stand still or take a step of their own. *)
LEMMA EachPart ==
  ASSUME [BackgroundNext]_allVars
  PROVE  /\ [Queues!Next]_queueVars /\ [Outages!Next]_alertVars /\ [Reporter!Next]_reporterVars
         /\ [Archive!Next]_archiveVars
         /\ [Catalogue!Next]_catalogueVars /\ [Directory!Next]_directoryVars /\ [Photos!Next]_photoVars
  BY DEF BackgroundNext, allVars

LEMMA EachStart ==
  ASSUME BackgroundInit
  PROVE  /\ Queues!Init /\ Outages!Init /\ Reporter!Init /\ Archive!Init
         /\ Catalogue!Init /\ Directory!Init /\ Photos!Init
  BY DEF BackgroundInit

-----------------------------------------------------------------------------
(* The catalogue of groups *)

CatalogueInv ==
  /\ published \subseteq Names /\ known \subseteq Names /\ table.known \subseteq Names /\ sitePage \subseteq Names
  /\ subs \in [Names -> SUBSET {"pending", "real"}]
  /\ shown \subseteq published
  /\ pc # "promoting" => due = {}
  /\ Catalogue!MissingIsRetried /\ Catalogue!PendingAreFollowed

LEMMA FetchedIs ==
  ASSUME CatalogueInv, NEW cached \in SUBSET Names, NEW lost, NEW out \in BOOLEAN, NEW uni \in BOOLEAN
  PROVE  /\ Catalogue!Fetched(cached, out, lost, uni) \subseteq Names
         /\ ~out /\ ~uni => \A q \in published \ Catalogue!Fetched(cached, out, lost, uni) : HomeOf[q] \in lost
  BY DEF CatalogueInv, Catalogue!Fetched, Catalogue!College

(* A site is read anew: what it lacks is on the list, whoever waits is followed. *)
LEMMA ReadSiteKeeps ==
  ASSUME CatalogueInv, NEW out \in BOOLEAN, NEW uni \in BOOLEAN, NEW lost,
         NEW cause \in {"start", "plan", "origins"}, Catalogue!ReadSite(out, lost, uni, cause),
         pc # "promoting", UNCHANGED <<published, due, table, sitePage, subs>>
  PROVE  CatalogueInv'
<1>1. PICK cached, seen : cached = known \cup table.known /\ seen = Catalogue!Fetched(cached, out, lost, uni)
  OBVIOUS
<1>2. seen \subseteq Names /\ (~out /\ ~uni => \A q \in published \ seen : HomeOf[q] \in lost)
  BY <1>1, FetchedIs DEF CatalogueInv
<1>3. /\ shown' = published /\ origins' = (out \/ uni)
      /\ forgotten' = IF cause = "start" THEN {q \in Names : "pending" \in subs[q]} ELSE forgotten
  BY DEF Catalogue!ReadSite
<1>4. CASE out /\ uni /\ seen = {}
  <2>1. /\ known' = IF table.guessed # {} THEN {} ELSE Catalogue!Subscribed
        /\ pc' = IF table.guessed = {} /\ Catalogue!Subscribed # {} THEN "saving" ELSE "idle"
    BY <1>1, <1>4 DEF Catalogue!ReadSite
  <2>2. origins' /\ known' \subseteq Names /\ pc' # "promoting"
    BY <1>3, <1>4, <2>1 DEF Catalogue!Subscribed
  <2>3. QED BY <1>3, <2>2 DEF CatalogueInv, Catalogue!MissingIsRetried, Catalogue!PendingAreFollowed
<1>5. CASE ~(out /\ uni /\ seen = {})
  <2>1. /\ known' = seen /\ failed' = lost /\ pc' = "saving"
        /\ follows' = (cause = "plan" \/ (cause = "origins" /\ ~out /\ ~uni))
    BY <1>1, <1>5 DEF Catalogue!ReadSite
  <2>2. Catalogue!MissingIsRetried'
    BY <1>2, <1>3, <2>1 DEF Catalogue!MissingIsRetried
  <2>3. Catalogue!PendingAreFollowed'
    BY <1>2, <1>3, <2>1 DEF Catalogue!PendingAreFollowed
  <2>4. QED BY <1>2, <1>3, <2>1, <2>2, <2>3 DEF CatalogueInv
<1>6. QED BY <1>4, <1>5

LEMMA CatalogueStep == CatalogueInv /\ [Catalogue!Next]_catalogueVars => CatalogueInv'
<1>. SUFFICES ASSUME CatalogueInv, [Catalogue!Next]_catalogueVars PROVE CatalogueInv'
  OBVIOUS
<1>. USE DEF CatalogueInv, Catalogue!MissingIsRetried, Catalogue!PendingAreFollowed
<1>1. CASE Catalogue!Refresh
  <2>1. PICK out \in BOOLEAN, uni \in BOOLEAN, lost \in SUBSET Departments, cause \in {"start", "plan", "origins"} :
          Catalogue!ReadSite(out, lost, uni, cause) /\ pc = IF cause = "start" THEN "starting" ELSE "idle"
    BY <1>1 DEF Catalogue!Refresh
  <2>2. QED BY <1>1, <2>1, ReadSiteKeeps DEF Catalogue!Refresh
<1>2. CASE Catalogue!RefreshEmpty
  <2>1. PICK out \in BOOLEAN, uni \in BOOLEAN, lost \in SUBSET Departments : Catalogue!ReadSite(out, lost, uni, "start")
    BY <1>2 DEF Catalogue!RefreshEmpty
  <2>2. QED BY <1>2, <2>1, ReadSiteKeeps DEF Catalogue!RefreshEmpty
<1>3. CASE Catalogue!RetryDepartments
  <2>1. PICK again, found :
          /\ again \subseteq failed /\ found = {q \in published : HomeOf[q] \in again} /\ failed' = failed \ again
          /\ known' = known \cup found /\ shown' = shown \cup found
          /\ pc' = (IF again # {} THEN "saving" ELSE "idle") /\ follows' = (again # {})
    BY <1>3 DEF Catalogue!RetryDepartments, Catalogue!StillFailed
  <2>2. pc = "idle" /\ ~origins /\ UNCHANGED <<published, origins, due, table, sitePage, subs, forgotten>>
    BY <1>3 DEF Catalogue!RetryDepartments
  <2>3. Catalogue!MissingIsRetried'
    BY <2>1, <2>2
  <2>4. Catalogue!PendingAreFollowed'
    BY <2>1, <2>2
  <2>5. QED BY <2>1, <2>2, <2>3, <2>4
<1>4. CASE Catalogue!Save
  <2>1. /\ pc = "saving" /\ pc' = (IF follows THEN "promoting" ELSE "idle")
        /\ due' = IF follows THEN {q \in Names : "pending" \in subs[q]} ELSE {}
        /\ UNCHANGED <<published, known, failed, origins, sitePage, subs, shown, forgotten>>
        /\ table' = table \/ table'.known = known
    BY <1>4 DEF Catalogue!Save
  <2>2. Catalogue!PendingAreFollowed'
    BY <2>1
  <2>3. QED BY <2>1, <2>2
<1>5. CASE Catalogue!PromotionEnds
  BY <1>5 DEF Catalogue!PromotionEnds
<1>6. CASE Catalogue!Restart
  BY <1>6 DEF Catalogue!Restart
<1>7. CASE Catalogue!PageReads
  <2>1. PICK out \in BOOLEAN, uni \in BOOLEAN, lost \in SUBSET Departments :
          sitePage' = Catalogue!Fetched(table.known, out, lost, uni)
    BY <1>7 DEF Catalogue!PageReads
  <2>2. sitePage' \subseteq Names
    BY <2>1, FetchedIs
  <2>3. QED BY <1>7, <2>2 DEF Catalogue!PageReads, Catalogue!catalogue
<1>8. CASE Catalogue!PageSaves
  BY <1>8 DEF Catalogue!PageSaves, Catalogue!catalogue
<1>9. ASSUME NEW q \in Names, Catalogue!Publish(q) PROVE CatalogueInv'
  BY <1>9 DEF Catalogue!Publish, Catalogue!catalogue
<1>10. ASSUME NEW q \in Names, Catalogue!Promote(q) PROVE CatalogueInv'
  <2>1. /\ pc = "promoting" /\ due' = due \ {q}
        /\ UNCHANGED <<published, known, failed, origins, pc, follows, table, sitePage, shown>>
    BY <1>10 DEF Catalogue!Promote
  <2>2. /\ subs' \in [Names -> SUBSET {"pending", "real"}]
        /\ \A p \in Names \ {q} : subs'[p] = subs[p] /\ (p \in forgotten => p \in forgotten')
        /\ q \in known => "pending" \notin subs'[q]
    BY <1>10 DEF Catalogue!Promote, Catalogue!Moves
  <2>3. Catalogue!PendingAreFollowed'
    BY <2>1, <2>2
  <2>4. QED BY <2>1, <2>2, <2>3
<1>11. ASSUME NEW q \in Names, Catalogue!Subscribe(q) PROVE CatalogueInv'
  <2>1. UNCHANGED <<published, known, failed, origins, pc, follows, due, shown, forgotten, table, sitePage>>
    BY <1>11 DEF Catalogue!Subscribe, Catalogue!catalogue
  <2>2. /\ subs' \in [Names -> SUBSET {"pending", "real"}]
        /\ \A p \in known : "pending" \in subs'[p] => "pending" \in subs[p]
    BY <1>11 DEF Catalogue!Subscribe
  <2>3. QED BY <2>1, <2>2
<1>12. ASSUME NEW q \in Imported, Catalogue!Import(q) PROVE CatalogueInv'
  <2>1. table'.known = table.known
    BY <1>12 DEF Catalogue!Import
  <2>2. QED BY <1>12, <2>1 DEF Catalogue!Import
<1>13. CASE UNCHANGED catalogueVars
  BY <1>13 DEF catalogueVars
<1>14. QED BY <1>1, <1>2, <1>3, <1>4, <1>5, <1>6, <1>7, <1>8, <1>9, <1>10, <1>11, <1>12, <1>13 DEF Catalogue!Next

LEMMA CatalogueStart == Catalogue!Init => CatalogueInv
  BY DEF Catalogue!Init, Catalogue!College, CatalogueInv, Catalogue!MissingIsRetried, Catalogue!PendingAreFollowed

-----------------------------------------------------------------------------
(* Outages of the system's parts *)

(* The last reports, at most as many as needed; the series at their end was bad. *)
Series(S, bad, seq, streak, need) ==
  /\ seq \in Seq(S) /\ Len(seq) <= need /\ streak \in 0..need /\ streak <= Len(seq)
  /\ \A i \in (Len(seq) - streak + 1)..Len(seq) : seq[i] = bad

(* Of a component, and of every alert under way: what was thought and seen before. *)
Judgement(c) ==
  /\ states[c].ok \in BOOLEAN /\ told[c] \in BOOLEAN
  /\ Series(BOOLEAN, FALSE, recent[c], states[c].streak, Needed[c])
  /\ states[c].ok = FALSE => states[c].streak = Needed[c]
  /\ c \notin unsure => told[c] = states[c].ok \/ \E m \in alerts : m.component = c

AlertIs(m) ==
  /\ m.step \in {"recording", "telling"} /\ m.component \in Watched /\ m.ok \in BOOLEAN
  /\ m.ok = states[m.component].ok
  /\ m = [step |-> m.step, component |-> m.component, ok |-> m.ok]

OutagesInv ==
  /\ DOMAIN states = Watched /\ DOMAIN recent = Watched /\ DOMAIN told = Watched
  /\ reports \in Seq([component : Watched, ok : BOOLEAN])
  /\ \A c \in Watched : Judgement(c)
  /\ \A m \in alerts : AlertIs(m)
  /\ \A m, n \in alerts : m = n

(* The reports from the first or the second on. *)
LEMMA LastReports ==
  ASSUME NEW S, NEW seq \in Seq(S), NEW m \in {1, 2}, NEW n \in Nat, Len(seq) = n + 1, m <= n + 1
  PROVE  /\ SubSeq(seq, m, n + 1) \in Seq(S) /\ Len(SubSeq(seq, m, n + 1)) = n + 2 - m
         /\ \A i \in 1..(n + 2 - m) : SubSeq(seq, m, n + 1)[i] = seq[m + i - 1]
<1>1. \A i \in m..(n + 1) : seq[i] \in S
  OBVIOUS
<1>2. m \in Int /\ n + 1 \in Int /\ (n + 1) - m + 1 = n + 2 - m
  OBVIOUS
<1>. HIDE <1>2
<1>3. QED BY <1>1, <1>2, SubSeqProperties

(* One more of the same makes the end of what is remembered longer. *)
LEMMA StreakGrows ==
  ASSUME NEW S, NEW seq \in Seq(S), NEW elt \in S, NEW bad \in S, NEW need \in Nat \ {0}, NEW old,
         Series(S, bad, seq, old, need),
         NEW all, all = Append(seq, elt),
         NEW new, new = SubSeq(all, (IF Len(all) > need THEN 2 ELSE 1), Len(all)),
         NEW streak, streak = IF old < need THEN old + 1 ELSE need
  PROVE  Series(S, bad, new, 0, need) /\ (elt = bad => Series(S, bad, new, streak, need))
<1>1. PICK n, first : n = Len(seq) /\ first = (IF n + 1 > need THEN 2 ELSE 1)
  OBVIOUS
<1>2. /\ n \in Nat /\ old \in 0..need /\ old <= n /\ n <= need
      /\ \A i \in (n - old + 1)..n : seq[i] = bad
  BY <1>1 DEF Series
<1>3. /\ all \in Seq(S) /\ Len(all) = n + 1 /\ all[n + 1] = elt
      /\ \A i \in 1..n : all[i] = seq[i]
  BY <1>1, AppendProperties
<1>4. /\ first \in {1, 2} /\ first <= n + 1 /\ n + 2 - first <= need
      /\ n < need => first = 1
      /\ n = need => first = 2
  <2>1. CASE n < need
    <3>1. first = 1
      BY <1>1, <1>2, <2>1
    <3>2. QED BY <1>2, <2>1, <3>1
  <2>2. CASE n = need
    <3>1. first = 2
      BY <1>1, <1>2, <2>2
    <3>2. QED BY <1>2, <2>2, <3>1
  <2>3. QED BY <1>1, <1>2, <2>1, <2>2
<1>5. new = SubSeq(all, first, n + 1)
  BY <1>1, <1>3
<1>6. PICK m : m = n + 2 - first
  OBVIOUS
<1>7. m \in Nat /\ m <= need
  BY <1>2, <1>4, <1>6
<1>8. new \in Seq(S) /\ Len(new) = m /\ \A i \in 1..m : new[i] = all[first + i - 1]
  BY <1>2, <1>3, <1>4, <1>5, <1>6, LastReports
<1>9. streak \in 1..need
  BY <1>2
<1>10. ASSUME elt = bad
       PROVE  streak <= m /\ \A i \in (m - streak + 1)..m : new[i] = bad
  <2>1. streak <= old + 1 /\ streak <= m
    BY <1>1, <1>2, <1>4, <1>6
  <2>2. ASSUME NEW i \in (m - streak + 1)..m PROVE new[i] = bad
    <3>1. i \in 1..m /\ first + i - 1 \in 1..(n + 1)
      BY <1>2, <1>4, <1>6, <1>7, <1>9, <2>1
    <3>2. CASE first + i - 1 = n + 1
      BY <1>3, <1>8, <1>10, <3>1, <3>2
    <3>3. CASE first + i - 1 # n + 1
      <4>1. first + i - 1 \in (n - old + 1)..n /\ first + i - 1 \in 1..n
        BY <1>2, <1>4, <1>6, <1>7, <1>9, <2>1, <3>1, <3>3
      <4>2. seq[first + i - 1] = bad
        BY <1>2, <4>1
      <4>3. all[first + i - 1] = bad
        BY <1>3, <4>1, <4>2
      <4>4. QED BY <1>8, <3>1, <4>3
    <3>4. QED BY <3>2, <3>3
  <2>3. QED BY <2>1, <2>2
<1>11. QED BY <1>7, <1>8, <1>9, <1>10 DEF Series

(* What the next report makes of the state and of the reports before it. *)
LEMMA JudgedIs ==
  ASSUME NEW c \in Watched, Judgement(c), NEW ok \in BOOLEAN, NEW state, NEW all, NEW new,
         state = Outages!Judged(states[c], ok, Needed[c]), all = Append(recent[c], ok),
         new = SubSeq(all, (IF Len(all) > Needed[c] THEN 2 ELSE 1), Len(all))
  PROVE  /\ state.ok \in BOOLEAN /\ Series(BOOLEAN, FALSE, new, state.streak, Needed[c])
         /\ state.ok = FALSE => state.streak = Needed[c]
         /\ state.ok = states[c].ok \/ state.ok = ok
<1>1. Needed[c] \in Nat \ {0}
  BY BackgroundAssumption
<1>2. PICK old, streak : old = states[c].streak /\ streak = IF old < Needed[c] THEN old + 1 ELSE Needed[c]
  OBVIOUS
<1>3. PICK S, bad : S = BOOLEAN /\ bad = FALSE
  OBVIOUS
<1>4. Series(S, bad, new, 0, Needed[c]) /\ (ok = bad => Series(S, bad, new, streak, Needed[c]))
  <2>1. /\ recent[c] \in Seq(S) /\ Series(S, bad, recent[c], old, Needed[c])
    BY <1>2, <1>3 DEF Judgement, Series
  <2>2. bad \in S /\ ok \in S
    BY <1>3
  <2>3. QED BY <1>1, <1>2, <2>1, <2>2, StreakGrows
<1>5. states[c].ok \in BOOLEAN /\ (states[c].ok = FALSE => old = Needed[c]) /\ old \in 0..Needed[c]
  BY <1>2 DEF Judgement, Series
<1>6. CASE ok
  <2>1. state = [ok |-> TRUE, streak |-> 0]
    BY <1>6 DEF Outages!Judged, Outages!Fresh
  <2>2. state.ok = TRUE /\ state.streak = 0
    BY <2>1
  <2>3. Series(BOOLEAN, FALSE, new, state.streak, Needed[c])
    BY <1>3, <1>4, <2>2
  <2>4. QED BY <1>6, <2>2, <2>3
<1>7. CASE ~ok
  <2>1. state = [ok |-> states[c].ok /\ old + 1 < Needed[c], streak |-> streak]
    BY <1>2, <1>7 DEF Outages!Judged
  <2>2. /\ state.ok = (states[c].ok /\ old + 1 < Needed[c]) /\ state.streak = streak
    BY <2>1
  <2>3. state.ok = FALSE => streak = Needed[c]
    BY <1>1, <1>2, <1>5, <2>2
  <2>4. /\ state.ok \in BOOLEAN /\ (state.ok = states[c].ok \/ state.ok = ok)
    BY <1>5, <1>7, <2>2
  <2>5. Series(BOOLEAN, FALSE, new, state.streak, Needed[c])
    BY <1>3, <1>4, <1>7, <2>2
  <2>6. QED BY <2>2, <2>3, <2>4, <2>5
<1>8. QED BY <1>6, <1>7

(* While nothing is judged, the thoughts stay as they are. *)
LEMMA AlertGoes ==
  ASSUME OutagesInv, NEW m \in alerts, UNCHANGED <<states, reports, recent>>,
         \/ alerts' = {} /\ unsure' = unsure \cup {m.component} /\ told' = told
         \/ alerts' = {} /\ unsure' = unsure \ {m.component} /\ told' = [told EXCEPT ![m.component] = m.ok]
         \/ alerts' = {[m EXCEPT !.step = "telling"]} /\ UNCHANGED <<told, unsure>>
  PROVE  OutagesInv'
<1>1. AlertIs(m) /\ \A n \in alerts : n = m
  BY DEF OutagesInv
<1>2. ASSUME NEW c \in Watched PROVE Judgement(c)'
  <2>1. Judgement(c) /\ DOMAIN told = Watched
    BY DEF OutagesInv
  <2>2. CASE alerts' = {} /\ unsure' = unsure \cup {m.component} /\ told' = told
    BY <1>1, <2>1, <2>2 DEF Judgement
  <2>3. CASE alerts' = {} /\ unsure' = unsure \ {m.component} /\ told' = [told EXCEPT ![m.component] = m.ok]
    <3>1. CASE c = m.component
      <4>1. told'[c] = m.ok /\ m.ok \in BOOLEAN /\ m.ok = states[c].ok
        BY <1>1, <2>1, <2>3, <3>1 DEF AlertIs
      <4>2. QED BY <2>1, <4>1 DEF Judgement
    <3>2. CASE c # m.component
      <4>1. told'[c] = told[c] /\ (c \in unsure' <=> c \in unsure) /\ \A n \in alerts : n.component # c
        BY <1>1, <2>1, <2>3, <3>2
      <4>2. QED BY <2>1, <4>1 DEF Judgement
    <3>3. QED BY <3>1, <3>2
  <2>4. CASE alerts' = {[m EXCEPT !.step = "telling"]} /\ UNCHANGED <<told, unsure>>
    <3>1. [m EXCEPT !.step = "telling"].component = m.component
      BY <1>1 DEF AlertIs
    <3>2. QED BY <1>1, <2>1, <2>4, <3>1 DEF Judgement
  <2>5. QED BY <2>2, <2>3, <2>4
<1>3. DOMAIN told' = Watched
  BY DEF OutagesInv
<1>4. ASSUME NEW n \in alerts' PROVE AlertIs(n)' /\ alerts' = {n}
  <2>1. n = [m EXCEPT !.step = "telling"] /\ alerts' = {n}
    BY <1>4
  <2>2. n = [step |-> "telling", component |-> m.component, ok |-> m.ok]
    BY <1>1, <2>1 DEF AlertIs
  <2>3. QED BY <1>1, <2>1, <2>2 DEF AlertIs
<1>5. QED BY <1>2, <1>3, <1>4 DEF OutagesInv

(* The next report is judged; a new state has its alert. *)
LEMMA ConsiderKeeps ==
  ASSUME OutagesInv, Outages!Consider
  PROVE  OutagesInv'
<1>1. PICK c, ok : c = Head(reports).component /\ ok = Head(reports).ok
  OBVIOUS
<1>2. /\ reports # <<>> /\ alerts = {} /\ reports' = Tail(reports) /\ UNCHANGED <<told, unsure>>
  BY DEF Outages!Consider, Outages!LockFree
<1>3. c \in Watched /\ ok \in BOOLEAN /\ reports' \in Seq([component : Watched, ok : BOOLEAN])
  <2>1. Head(reports) \in [component : Watched, ok : BOOLEAN] /\ Tail(reports) \in Seq([component : Watched, ok : BOOLEAN])
    BY <1>2, HeadTailProperties DEF OutagesInv
  <2>2. QED BY <1>1, <1>2, <2>1
<1>4. PICK state, all : state = Outages!Judged(states[c], ok, Needed[c]) /\ all = Append(recent[c], ok)
  OBVIOUS
<1>5. PICK new : new = SubSeq(all, (IF Len(all) > Needed[c] THEN 2 ELSE 1), Len(all))
  OBVIOUS
<1>6. /\ states' = [states EXCEPT ![c] = state] /\ recent' = [recent EXCEPT ![c] = new]
      /\ alerts' = alerts \cup
                 IF state.ok = states[c].ok THEN {}
                 ELSE {[step |-> IF ok THEN "telling" ELSE "recording", component |-> c, ok |-> ok]}
  BY <1>1, <1>4, <1>5 DEF Outages!Consider
<1>7. Judgement(c) /\ DOMAIN states = Watched /\ DOMAIN recent = Watched /\ DOMAIN told = Watched
  BY <1>3 DEF OutagesInv
<1>8. /\ state.ok \in BOOLEAN /\ Series(BOOLEAN, FALSE, new, state.streak, Needed[c])
      /\ state.ok = FALSE => state.streak = Needed[c]
      /\ state.ok = states[c].ok \/ state.ok = ok
  BY <1>3, <1>4, <1>5, <1>7, JudgedIs
<1>9. states'[c] = state /\ recent'[c] = new
  BY <1>3, <1>6, <1>7
<1>10. c \notin unsure => told[c] = states[c].ok
  BY <1>2, <1>7 DEF Judgement
<1>11. c \notin unsure' => told'[c] = states'[c].ok \/ \E m \in alerts' : m.component = c
  <2>1. CASE state.ok = states[c].ok
    BY <1>2, <1>9, <1>10, <2>1
  <2>2. CASE state.ok # states[c].ok
    <3>1. PICK m : m = [step |-> IF ok THEN "telling" ELSE "recording", component |-> c, ok |-> ok]
      OBVIOUS
    <3>2. m \in alerts' /\ m.component = c
      BY <1>6, <2>2, <3>1
    <3>3. QED BY <3>2
  <2>3. QED BY <2>1, <2>2
<1>12. told'[c] \in BOOLEAN
  BY <1>2, <1>7 DEF Judgement
<1>13. Judgement(c)'
  BY <1>8, <1>9, <1>11, <1>12 DEF Judgement
<1>14. ASSUME NEW b \in Watched PROVE Judgement(b)'
  <2>1. CASE b = c
    BY <1>13, <2>1
  <2>2. CASE b # c
    <3>1. states'[b] = states[b] /\ recent'[b] = recent[b] /\ (b \notin unsure => told[b] = states[b].ok) /\ Judgement(b)
      BY <1>2, <1>6, <1>7, <2>2 DEF OutagesInv, Judgement
    <3>2. QED BY <1>2, <3>1 DEF Judgement
  <2>3. QED BY <2>1, <2>2
<1>15. ASSUME NEW m \in alerts' PROVE AlertIs(m)' /\ alerts' = {m}
  <2>1. state.ok # states[c].ok /\ m = [step |-> IF ok THEN "telling" ELSE "recording", component |-> c, ok |-> ok]
    BY <1>2, <1>6, <1>15
  <2>2. alerts' = {m}
    BY <1>2, <1>6, <2>1
  <2>3. m.component = c /\ m.ok = ok /\ m.step \in {"telling", "recording"} /\ state.ok = ok
    BY <1>8, <2>1
  <2>4. m = [step |-> m.step, component |-> m.component, ok |-> m.ok]
    BY <2>1, <2>3
  <2>5. QED BY <1>3, <1>9, <2>2, <2>3, <2>4 DEF AlertIs
<1>16. DOMAIN states' = Watched /\ DOMAIN recent' = Watched /\ DOMAIN told' = Watched
  BY <1>2, <1>6, <1>7
<1>17. QED BY <1>3, <1>14, <1>15, <1>16 DEF OutagesInv

(* Every component is taken for sound. *)
LEMMA RestartForgets ==
  ASSUME OutagesInv, Outages!Restart
  PROVE  OutagesInv'
<1>1. /\ states' = [c \in Watched |-> Outages!Fresh] /\ recent' = [c \in Watched |-> <<>>]
      /\ reports' = <<>> /\ alerts' = {} /\ told' = told
      /\ unsure' = unsure \cup {c \in Watched : ~states[c].ok \/ ~told[c]}
  BY DEF Outages!Restart
<1>2. ASSUME NEW c \in Watched PROVE Judgement(c)'
  <2>1. states'[c] = [ok |-> TRUE, streak |-> 0] /\ recent'[c] = <<>> /\ told'[c] = told[c]
    BY <1>1 DEF Outages!Fresh
  <2>2. told[c] \in BOOLEAN
    BY DEF OutagesInv, Judgement
  <2>3. c \notin unsure' => told[c] = TRUE
    BY <1>1, <2>2
  <2>4. PICK S, bad : S = BOOLEAN /\ bad = FALSE
    OBVIOUS
  <2>5. Series(S, bad, <<>>, 0, Needed[c])
    BY BackgroundAssumption DEF Series
  <2>6. states'[c].ok = TRUE /\ states'[c].streak = 0
    BY <2>1
  <2>7. Series(BOOLEAN, FALSE, recent'[c], states'[c].streak, Needed[c])
    BY <2>1, <2>4, <2>5, <2>6
  <2>8. QED BY <2>1, <2>2, <2>3, <2>6, <2>7 DEF Judgement
<1>3. QED BY <1>1, <1>2 DEF OutagesInv

LEMMA OutagesStep == OutagesInv /\ [Outages!Next]_alertVars => OutagesInv'
<1>. SUFFICES ASSUME OutagesInv, [Outages!Next]_alertVars PROVE OutagesInv'
  OBVIOUS
<1>1. ASSUME NEW c \in Watched, NEW ok \in BOOLEAN, Outages!Report(c, ok) PROVE OutagesInv'
  <2>1. [component |-> c, ok |-> ok] \in [component : Watched, ok : BOOLEAN]
    OBVIOUS
  <2>2. reports' \in Seq([component : Watched, ok : BOOLEAN])
    BY <1>1, <2>1, AppendProperties DEF Outages!Report, OutagesInv
  <2>3. QED BY <1>1, <2>2 DEF Outages!Report, OutagesInv, Judgement, AlertIs
<1>2. CASE Outages!Consider
  BY <1>2, ConsiderKeeps
<1>3. CASE Outages!Restart
  BY <1>3, RestartForgets
<1>4. ASSUME NEW m \in alerts,
             Outages!Record(m) \/ Outages!RecordFails(m) \/ Outages!Tell(m) \/ Outages!TellFails(m)
      PROVE  OutagesInv'
  <2>1. alerts \ {m} = {}
    BY DEF OutagesInv
  <2>2. QED BY <1>4, <2>1, AlertGoes
             DEF Outages!Record, Outages!RecordFails, Outages!Tell, Outages!TellFails
<1>5. CASE UNCHANGED alertVars
  BY <1>5 DEF alertVars, OutagesInv, Judgement, AlertIs
<1>6. QED BY <1>1, <1>2, <1>3, <1>4, <1>5 DEF Outages!Next

LEMMA OutagesStart == Outages!Init => OutagesInv
<1>. SUFFICES ASSUME Outages!Init PROVE OutagesInv
  OBVIOUS
<1>1. ASSUME NEW c \in Watched PROVE Judgement(c)
  <2>1. states[c] = [ok |-> TRUE, streak |-> 0] /\ recent[c] = <<>> /\ told[c] = TRUE
    BY DEF Outages!Init, Outages!Fresh
  <2>2. PICK S, bad : S = BOOLEAN /\ bad = FALSE
    OBVIOUS
  <2>3. Series(S, bad, <<>>, 0, Needed[c])
    BY BackgroundAssumption DEF Series
  <2>4. states[c].ok = TRUE /\ states[c].streak = 0
    BY <2>1
  <2>5. QED BY <2>1, <2>2, <2>3, <2>4 DEF Judgement
<1>2. QED BY <1>1 DEF Outages!Init, OutagesInv

LEMMA OutagesSafe == OutagesInv => Outages!AdminsKnow
  BY DEF OutagesInv, Judgement, Outages!AdminsKnow

(* An alert of an outage has its series of failures behind it. *)
LEMMA ConfirmedBefore ==
  ASSUME OutagesInv, NEW m \in alerts, m.ok = FALSE
  PROVE  /\ Len(recent[m.component]) = Needed[m.component]
         /\ \A i \in DOMAIN recent[m.component] : recent[m.component][i] = FALSE
<1>1. PICK c, seq, need : c = m.component /\ seq = recent[c] /\ need = Needed[c]
  OBVIOUS
<1>2. c \in Watched /\ states[c].ok = FALSE
  BY <1>1 DEF OutagesInv, AlertIs
<1>3. need \in Nat \ {0} /\ Series(BOOLEAN, FALSE, seq, need, need)
  BY <1>1, <1>2, BackgroundAssumption DEF OutagesInv, Judgement
<1>4. PICK S, bad : S = BOOLEAN /\ bad = FALSE
  OBVIOUS
<1>5. Len(seq) = need /\ \A i \in DOMAIN seq : seq[i] = bad
  <2>1. Series(S, bad, seq, need, need)
    BY <1>3, <1>4
  <2>2. seq \in Seq(S) /\ Len(seq) = need /\ \A i \in (Len(seq) - need + 1)..Len(seq) : seq[i] = bad
    BY <1>3, <2>1 DEF Series
  <2>3. DOMAIN seq = (Len(seq) - need + 1)..Len(seq)
    BY <1>3, <2>2
  <2>4. QED BY <2>2, <2>3
<1>6. QED BY <1>1, <1>4, <1>5

LEMMA OutageStep ==
  OutagesInv /\ [Outages!Next]_alertVars =>
    [\A c \in Watched : (told[c] /\ ~told'[c]) =>
        Len(recent[c]) = Needed[c] /\ \A i \in DOMAIN recent[c] : ~recent[c][i]]_Outages!vars
<1>. SUFFICES ASSUME OutagesInv, [Outages!Next]_alertVars, NEW c \in Watched, told[c], ~told'[c]
              PROVE  Len(recent[c]) = Needed[c] /\ \A i \in DOMAIN recent[c] : ~recent[c][i]
  OBVIOUS
<1>1. told' # told
  OBVIOUS
<1>2. PICK m \in alerts : Outages!Tell(m)
  BY <1>1 DEF Outages!Next, Outages!Report, Outages!Consider, Outages!Restart, Outages!Record,
              Outages!RecordFails, Outages!TellFails, alertVars
<1>3. c = m.component /\ m.ok = FALSE
  <2>1. m.component \in Watched /\ DOMAIN told = Watched /\ m.ok \in BOOLEAN
    BY DEF OutagesInv, AlertIs
  <2>2. told' = [told EXCEPT ![m.component] = m.ok]
    BY <1>2 DEF Outages!Tell
  <2>3. QED BY <2>1, <2>2
<1>4. QED BY <1>3, ConfirmedBefore

-----------------------------------------------------------------------------
(* Job queues *)

Contents(seq) == {seq[i] : i \in DOMAIN seq}

LEMMA ContentsOfAppend ==
  ASSUME NEW S, NEW seq \in Seq(S), NEW m \in S
  PROVE  Append(seq, m) \in Seq(S) /\ Contents(Append(seq, m)) = Contents(seq) \cup {m}
<1>1. PICK n, all : n = Len(seq) /\ all = Append(seq, m)
  OBVIOUS
<1>2. /\ n \in Nat /\ all \in Seq(S) /\ Len(all) = n + 1 /\ all[n + 1] = m
      /\ \A i \in 1..n : all[i] = seq[i]
  BY <1>1, AppendProperties
<1>3. DOMAIN seq = 1..n /\ DOMAIN all = 1..(n + 1)
  BY <1>1, <1>2
<1>4. 1..(n + 1) = (1..n) \cup {n + 1}
  BY <1>2
<1>5. Contents(all) = Contents(seq) \cup {m}
  BY <1>2, <1>3, <1>4 DEF Contents
<1>6. QED BY <1>1, <1>2, <1>5

LEMMA ContentsOfConcat ==
  ASSUME NEW S, NEW s \in Seq(S), NEW seq \in Seq(S)
  PROVE  s \o seq \in Seq(S) /\ Contents(s \o seq) = Contents(s) \cup Contents(seq)
<1>1. PICK n, k, all : n = Len(s) /\ k = Len(seq) /\ all = s \o seq
  OBVIOUS
<1>2. /\ n \in Nat /\ k \in Nat /\ all \in Seq(S) /\ Len(all) = n + k
      /\ \A i \in 1..(n + k) : all[i] = IF i <= n THEN s[i] ELSE seq[i - n]
  BY <1>1, ConcatProperties
<1>3. DOMAIN s = 1..n /\ DOMAIN seq = 1..k /\ DOMAIN all = 1..(n + k)
  BY <1>1, <1>2
<1>4. ASSUME NEW i \in DOMAIN all PROVE all[i] \in Contents(s) \cup Contents(seq)
  <2>1. CASE i <= n
    <3>1. i \in DOMAIN s /\ all[i] = s[i]
      BY <1>2, <1>3, <2>1
    <3>2. QED BY <3>1 DEF Contents
  <2>2. CASE ~(i <= n)
    <3>1. i - n \in DOMAIN seq /\ all[i] = seq[i - n]
      BY <1>2, <1>3, <2>2
    <3>2. QED BY <3>1 DEF Contents
  <2>3. QED BY <2>1, <2>2
<1>5. ASSUME NEW i \in DOMAIN s PROVE s[i] \in Contents(all)
  <2>1. i \in DOMAIN all /\ all[i] = s[i]
    BY <1>2, <1>3
  <2>2. QED BY <2>1 DEF Contents
<1>6. ASSUME NEW i \in DOMAIN seq PROVE seq[i] \in Contents(all)
  <2>1. i + n \in DOMAIN all /\ all[i + n] = seq[(i + n) - n] /\ (i + n) - n = i
    BY <1>2, <1>3
  <2>2. QED BY <2>1 DEF Contents
<1>7. Contents(all) = Contents(s) \cup Contents(seq)
  BY <1>4, <1>5, <1>6 DEF Contents
<1>8. QED BY <1>1, <1>2, <1>7

LEMMA ContentsOfTail ==
  ASSUME NEW S, NEW seq \in Seq(S), seq # <<>>
  PROVE  /\ Head(seq) \in S /\ Tail(seq) \in Seq(S)
         /\ Contents(seq) = Contents(Tail(seq)) \cup {Head(seq)}
<1>1. PICK n, rest : n = Len(seq) /\ rest = Tail(seq)
  OBVIOUS
<1>2. /\ Head(seq) \in S /\ rest \in Seq(S) /\ n \in Nat /\ n # 0 /\ Len(rest) = n - 1 /\ Head(seq) = seq[1]
      /\ \A i \in 1..(n - 1) : rest[i] = seq[i + 1]
  <2>1. /\ Head(seq) \in S /\ rest \in Seq(S) /\ Len(rest) = n - 1
        /\ \A i \in 1..Len(rest) : rest[i] = seq[i + 1]
    BY <1>1, HeadTailProperties
  <2>2. n \in Nat /\ n # 0 /\ Head(seq) = seq[1]
    BY <1>1
  <2>3. QED BY <2>1, <2>2
<1>3. DOMAIN seq = 1..n /\ DOMAIN rest = 1..(n - 1)
  BY <1>1, <1>2
<1>4. \A i \in 1..n : i = 1 \/ (i - 1 \in 1..(n - 1) /\ rest[i - 1] = seq[(i - 1) + 1] /\ (i - 1) + 1 = i)
  BY <1>2
<1>5. \A i \in 1..(n - 1) : i + 1 \in 1..n
  BY <1>2
<1>6. 1 \in 1..n
  BY <1>2
<1>7. Contents(seq) \subseteq Contents(rest) \cup {Head(seq)}
  <2>1. SUFFICES ASSUME NEW i \in 1..n, i # 1 PROVE seq[i] \in Contents(rest)
    BY <1>2, <1>3 DEF Contents
  <2>2. i - 1 \in DOMAIN rest /\ rest[i - 1] = seq[i]
    BY <1>3, <1>4, <2>1
  <2>3. QED BY <2>2 DEF Contents
<1>8. Contents(rest) \cup {Head(seq)} \subseteq Contents(seq)
  BY <1>2, <1>3, <1>5, <1>6 DEF Contents
<1>9. QED BY <1>1, <1>2, <1>7, <1>8

(* A set of one message at most comes back as it is. *)
LEMMA SetToSeqOfOne ==
  ASSUME NEW S, NEW T, T \subseteq S, \A m, n \in T : m = n
  PROVE  Queues!SetToSeq(T) \in Seq(S) /\ Contents(Queues!SetToSeq(T)) = T
<1>1. \A R : Queues!Cardinality(R) = Cardinality(R)
  BY DEF Queues!Cardinality, Cardinality
<1>2. PICK k : k = Cardinality(T)
  OBVIOUS
<1>3. /\ k \in 0..1
      /\ k = 0 => T = {}
      /\ k = 1 => \E m : T = {m}
  <2>1. CASE T = {}
    BY <1>2, <2>1, FS_EmptySet
  <2>2. CASE T # {}
    <3>1. PICK m : T = {m}
      BY <2>2
    <3>2. k = 1
      BY <1>2, <3>1, FS_Singleton
    <3>3. QED BY <3>1, <3>2
  <2>3. QED BY <2>1, <2>2
<1>4. PICK all : all = Queues!SetToSeq(T)
  OBVIOUS
<1>5. all = CHOOSE f \in [1..k -> T] : Queues!IsInjective(f)
  BY <1>1, <1>2, <1>4 DEF Queues!SetToSeq
<1>6. \E f \in [1..k -> T] : Queues!IsInjective(f)
  <2>1. CASE k = 0
    <3>1. [i \in 1..k |-> 0] \in [1..k -> T]
      BY <2>1
    <3>2. Queues!IsInjective([i \in 1..k |-> 0])
      BY <2>1 DEF Queues!IsInjective
    <3>3. QED BY <3>1, <3>2
  <2>2. CASE k = 1
    <3>1. PICK m : T = {m}
      BY <1>3, <2>2
    <3>2. [i \in 1..k |-> m] \in [1..k -> T]
      BY <3>1
    <3>3. Queues!IsInjective([i \in 1..k |-> m])
      BY <2>2 DEF Queues!IsInjective
    <3>4. QED BY <3>2, <3>3
  <2>3. QED BY <1>3, <2>1, <2>2
<1>7. all \in [1..k -> T]
  BY <1>5, <1>6
<1>8. all \in Seq(S)
  BY <1>3, <1>7
<1>9. Contents(all) = T
  <2>1. CASE k = 0
    BY <1>3, <1>7, <2>1 DEF Contents
  <2>2. CASE k = 1
    <3>1. PICK m : T = {m}
      BY <1>3, <2>2
    <3>2. DOMAIN all = {1} /\ all[1] = m
      BY <1>7, <2>2, <3>1
    <3>3. QED BY <3>1, <3>2 DEF Contents
  <2>3. QED BY <1>3, <2>1, <2>2
<1>10. QED BY <1>4, <1>8, <1>9

JobMessages == [job : JobIds, attempt : Nat \ {0}]

(* A message's attempt is one more than the failures, at most. *)
Honest(m) == m.attempt <= failures[m.job] + 1

HandIs(c) ==
  \/ hand[c] = Queues!Free
  \/ /\ hand[c].step \in {"running", "failed", "settled"} /\ hand[c].msg \in JobMessages /\ hand[c].lost \in BOOLEAN
     /\ hand[c] = [step |-> hand[c].step, msg |-> hand[c].msg, lost |-> hand[c].lost]
     /\ Honest(hand[c].msg)
     /\ hand[c].step = "failed" =>
          hand[c].msg.attempt <= failures[hand[c].msg.job] \/ failures[hand[c].msg.job] >= MaxAttempts

(* What keeps a job: a message of the queue, or a handler that has not settled it. *)
Held(j) ==
  \/ \E m \in Contents(queue) : m.job = j
  \/ \E c \in Queues!Unanswered : hand[c].step # "settled" /\ hand[c].msg.job = j

QueuesInv ==
  /\ queue \in Seq(JobMessages) /\ DOMAIN hand = Consumers /\ DOMAIN job = JobIds
  /\ failures \in [JobIds -> 0..MaxAttempts]
  /\ \A m \in Contents(queue) : Honest(m)
  /\ \A c \in Consumers : HandIs(c)
  /\ \A c, d \in Queues!Unanswered : c = d
  /\ \A j \in JobIds : job[j] = "published" => Held(j)
  /\ Queues!GaveUpHonestly

LEMMA MessagesOfQueue == \A seq \in Seq(JobMessages) : Contents(seq) \subseteq JobMessages
  BY DEF Contents

LEMMA JobsHeld == QueuesInv => Queues!JobKept
<1>. SUFFICES ASSUME QueuesInv, NEW j \in JobIds, job[j] = "published" PROVE Queues!Waiting(j)
  BY DEF Queues!JobKept
<1>1. Held(j)
  BY DEF QueuesInv
<1>2. QED BY <1>1 DEF Held, Queues!Waiting, Contents

(* The handler c goes on with its message; nothing else of the hands changes. *)
LEMMA HandGoes ==
  ASSUME QueuesInv, NEW c \in Consumers, hand[c] # Queues!Free, NEW to \in {"running", "failed", "settled"},
         Queues!Goes(c, to)
  PROVE  /\ DOMAIN hand' = Consumers /\ Queues!Unanswered' = Queues!Unanswered
         /\ hand'[c] = [step |-> to, msg |-> hand[c].msg, lost |-> hand[c].lost]
         /\ \A d \in Consumers \ {c} : hand'[d] = hand[d]
<1>1. /\ hand[c].step \in {"running", "failed", "settled"}
      /\ hand[c] = [step |-> hand[c].step, msg |-> hand[c].msg, lost |-> hand[c].lost]
      /\ DOMAIN hand = Consumers
  BY DEF QueuesInv, HandIs
<1>2. /\ DOMAIN hand' = Consumers /\ \A d \in Consumers \ {c} : hand'[d] = hand[d]
      /\ hand'[c] = [step |-> to, msg |-> hand[c].msg, lost |-> hand[c].lost]
  BY <1>1 DEF Queues!Goes
<1>3. hand'[c].step = to /\ hand'[c].lost = hand[c].lost
  BY <1>2
<1>4. Queues!Unanswered' = Queues!Unanswered
  BY <1>1, <1>2, <1>3 DEF Queues!Unanswered, Queues!At
<1>5. QED BY <1>2, <1>4

LEMMA BusyHand ==
  ASSUME QueuesInv, NEW c \in Consumers, hand[c].step \in {"running", "failed", "settled"}
  PROVE  /\ hand[c] # Queues!Free /\ hand[c].msg \in JobMessages /\ hand[c].lost \in BOOLEAN
         /\ hand[c].msg.job \in JobIds /\ hand[c].msg.attempt \in Nat \ {0}
         /\ hand[c] = [step |-> hand[c].step, msg |-> hand[c].msg, lost |-> hand[c].lost]
         /\ Honest(hand[c].msg)
         /\ hand[c].step = "failed" =>
              hand[c].msg.attempt <= failures[hand[c].msg.job] \/ failures[hand[c].msg.job] >= MaxAttempts
<1>1. HandIs(c)
  BY DEF QueuesInv
<1>2. hand[c] # Queues!Free
  BY DEF Queues!Free
<1>3. QED BY <1>1, <1>2 DEF HandIs, JobMessages

(* A handler is done with its message: it is in the queue if it still stood for a job. *)
LEMMA HandEnds ==
  ASSUME QueuesInv, NEW c \in Consumers, hand[c].step \in {"failed", "settled"}, Queues!Ends(c),
         queue' \in Seq(JobMessages), \A m \in Contents(queue') : Honest(m),
         Contents(queue) \subseteq Contents(queue'), failures' = failures, DOMAIN job' = JobIds,
         \A j \in JobIds : job'[j] = "published" =>
            job[j] = "published" /\ (c \in Queues!Unanswered /\ hand[c].step = "failed" /\ j = hand[c].msg.job =>
                                       \E m \in Contents(queue') : m.job = j),
         \A j \in JobIds : job'[j] = "gave up" => job[j] = "gave up" \/ failures[j] >= MaxAttempts
  PROVE  QueuesInv'
<1>1. DOMAIN hand' = Consumers /\ hand'[c] = Queues!Free /\ \A d \in Consumers \ {c} : hand'[d] = hand[d]
  BY DEF Queues!Ends, QueuesInv
<1>2. Queues!Unanswered' = Queues!Unanswered \ {c}
  <2>1. Queues!Free.step = "free"
    BY DEF Queues!Free
  <2>2. hand'[c].step = "free"
    BY <1>1, <2>1
  <2>3. Queues!Unanswered' = {d \in Consumers : hand'[d].step # "free" /\ ~hand'[d].lost}
    BY DEF Queues!Unanswered, Queues!At
  <2>4. Queues!Unanswered = {d \in Consumers : hand[d].step # "free" /\ ~hand[d].lost}
    BY DEF Queues!Unanswered, Queues!At
  <2>5. ASSUME NEW d PROVE d \in Queues!Unanswered' <=> d \in Queues!Unanswered \ {c}
    <3>1. CASE d = c
      BY <2>2, <2>3, <3>1
    <3>2. CASE d \in Consumers \ {c}
      <4>1. hand'[d] = hand[d]
        BY <1>1, <3>2
      <4>2. QED BY <2>3, <2>4, <3>2, <4>1
    <3>3. CASE d \notin Consumers
      BY <2>3, <2>4, <3>3
    <3>4. QED BY <3>1, <3>2, <3>3
  <2>6. QED BY <2>5
<1>3. ASSUME NEW d \in Consumers PROVE HandIs(d)'
  BY <1>1 DEF QueuesInv, HandIs, Honest
<1>4. ASSUME NEW j \in JobIds, job'[j] = "published" PROVE Held(j)'
  <2>1. Held(j)
    BY <1>4 DEF QueuesInv
  <2>2. CASE \E m \in Contents(queue) : m.job = j
    BY <2>2 DEF Held
  <2>3. ASSUME NEW d \in Queues!Unanswered, hand[d].step # "settled", hand[d].msg.job = j PROVE Held(j)'
    <3>1. CASE d = c
      BY <1>4, <2>3, <3>1 DEF Held
    <3>2. CASE d # c
      <4>1. d \in Queues!Unanswered' /\ hand'[d] = hand[d]
        BY <1>1, <1>2, <2>3, <3>2 DEF Queues!Unanswered
      <4>2. QED BY <2>3, <4>1 DEF Held
    <3>3. QED BY <3>1, <3>2
  <2>4. QED BY <2>1, <2>2, <2>3 DEF Held
<1>5. QED BY <1>1, <1>2, <1>3, <1>4 DEF QueuesInv, Honest, Queues!GaveUpHonestly

(* Whatever was unanswered is in the queue again. *)
LEMMA MessagesReturn ==
  ASSUME QueuesInv, queue' = Queues!Returned \o queue, UNCHANGED <<job, failures>>,
         DOMAIN hand' = Consumers, Queues!Unanswered' = {}, \A c \in Consumers : HandIs(c)'
  PROVE  QueuesInv'
<1>. DEFINE back == {hand[c].msg : c \in Queues!Unanswered}
<1>1. \A c \in Queues!Unanswered : c \in Consumers /\ hand[c].step # "free" /\ HandIs(c)
  BY DEF QueuesInv, Queues!Unanswered, Queues!At
<1>2. \A c \in Queues!Unanswered : hand[c] # Queues!Free
  BY <1>1 DEF Queues!Free
<1>3. back \subseteq JobMessages /\ \A m \in back : Honest(m)
  BY <1>1, <1>2 DEF HandIs
<1>4. \A m, n \in back : m = n
  BY DEF QueuesInv
<1>5. PICK seq : seq = Queues!Returned
  OBVIOUS
<1>6. seq = Queues!SetToSeq(back)
  BY <1>5 DEF Queues!Returned
<1>. HIDE DEF back
<1>7. seq \in Seq(JobMessages) /\ Contents(seq) = back
  BY <1>3, <1>4, <1>6, SetToSeqOfOne
<1>8. queue' \in Seq(JobMessages) /\ Contents(queue') = back \cup Contents(queue)
  BY <1>5, <1>7, ContentsOfConcat DEF QueuesInv
<1>9. ASSUME NEW j \in JobIds, job[j] = "published" PROVE Held(j)'
  <2>1. Held(j)
    BY <1>9 DEF QueuesInv
  <2>2. \A c \in Queues!Unanswered : hand[c].msg \in back
    BY DEF back
  <2>3. QED BY <1>8, <2>1, <2>2 DEF Held
<1>10. \A m \in Contents(queue') : Honest(m)
  BY <1>3, <1>8 DEF QueuesInv
<1>11. QED BY <1>8, <1>9, <1>10 DEF QueuesInv, Honest, Queues!GaveUpHonestly

(* A new job, or the next attempt, is in the queue. *)
LEMMA Appended ==
  ASSUME QueuesInv, NEW m \in JobMessages, queue' = Append(queue, m)
  PROVE  queue' \in Seq(JobMessages) /\ Contents(queue') = Contents(queue) \cup {m}
  BY ContentsOfAppend DEF QueuesInv

(* What happens to the jobs while the handlers stand still. *)
LEMMA OthersWait ==
  ASSUME QueuesInv, UNCHANGED <<hand, failures>>, queue' \in Seq(JobMessages), DOMAIN job' = JobIds,
         Contents(queue) \subseteq Contents(queue'), \A m \in Contents(queue') : Honest(m),
         \A j \in JobIds : job'[j] = "published" => job[j] = "published" \/ \E m \in Contents(queue') : m.job = j,
         \A j \in JobIds : job'[j] = "gave up" => job[j] = "gave up"
  PROVE  QueuesInv'
<1>1. Queues!Unanswered' = Queues!Unanswered
  BY DEF Queues!Unanswered, Queues!At
<1>2. ASSUME NEW j \in JobIds, job'[j] = "published" PROVE Held(j)'
  BY <1>1, <1>2 DEF QueuesInv, Held
<1>3. QED BY <1>1, <1>2 DEF QueuesInv, HandIs, Honest, Queues!GaveUpHonestly

LEMMA PublishKeeps ==
  ASSUME QueuesInv, NEW j \in JobIds, Queues!Publish(j) \/ Queues!NotPublished(j)
  PROVE  QueuesInv'
<1>1. CASE Queues!Publish(j)
  <2>1. PICK m : m = [job |-> j, attempt |-> 1]
    OBVIOUS
  <2>2. m \in JobMessages /\ m.job = j /\ queue' = Append(queue, m)
    BY <1>1, <2>1 DEF Queues!Publish, Queues!Message, JobMessages
  <2>3. queue' \in Seq(JobMessages) /\ Contents(queue') = Contents(queue) \cup {m}
    BY <2>2, Appended
  <2>4. Honest(m)
    BY <2>1 DEF Honest, QueuesInv
  <2>5. job' = [job EXCEPT ![j] = "published"] /\ UNCHANGED <<hand, failures>> /\ DOMAIN job = JobIds
    BY <1>1 DEF Queues!Publish, QueuesInv
  <2>6. \A n \in Contents(queue') : Honest(n)
    BY <2>3, <2>4 DEF QueuesInv
  <2>7. QED BY <2>2, <2>3, <2>5, <2>6, OthersWait
<1>2. CASE Queues!NotPublished(j)
  <2>1. UNCHANGED <<queue, hand, failures>> /\ DOMAIN job = JobIds
    BY <1>2 DEF Queues!NotPublished, QueuesInv
  <2>2. PICK end \in {"finished", "not queued"} : job' = [job EXCEPT ![j] = end]
    BY <1>2 DEF Queues!NotPublished
  <2>3. QED BY <2>1, <2>2, OthersWait DEF QueuesInv
<1>3. QED BY <1>1, <1>2

LEMMA ConsumeKeeps ==
  ASSUME QueuesInv, NEW c \in Consumers, Queues!Consume(c)
  PROVE  QueuesInv'
<1>1. PICK m : m = Head(queue)
  OBVIOUS
<1>2. /\ queue # <<>> /\ queue' = Tail(queue) /\ Queues!Unanswered = {} /\ UNCHANGED <<job, failures>>
      /\ hand' = [hand EXCEPT ![c] = [step |-> "running", msg |-> m, lost |-> FALSE]]
  BY <1>1 DEF Queues!Consume
<1>3. m \in JobMessages /\ queue' \in Seq(JobMessages) /\ Contents(queue) = Contents(queue') \cup {m} /\ Honest(m)
  <2>1. m \in JobMessages /\ queue' \in Seq(JobMessages) /\ Contents(queue) = Contents(queue') \cup {m}
    BY <1>1, <1>2, ContentsOfTail DEF QueuesInv
  <2>2. QED BY <2>1 DEF QueuesInv
<1>4. /\ hand'[c] = [step |-> "running", msg |-> m, lost |-> FALSE] /\ DOMAIN hand' = Consumers
      /\ \A d \in Consumers \ {c} : hand'[d] = hand[d]
  BY <1>2 DEF QueuesInv
<1>5. hand'[c].step = "running" /\ hand'[c].msg = m /\ hand'[c].lost = FALSE
  BY <1>4
<1>6. Queues!Unanswered' = {c}
  BY <1>2, <1>4, <1>5 DEF Queues!Unanswered, Queues!At
<1>7. ASSUME NEW d \in Consumers PROVE HandIs(d)'
  <2>1. CASE d = c
    BY <1>2, <1>3, <1>4, <1>5, <2>1 DEF HandIs, Honest
  <2>2. CASE d # c
    BY <1>2, <1>4, <2>2 DEF QueuesInv, HandIs, Honest
  <2>3. QED BY <2>1, <2>2
<1>8. ASSUME NEW j \in JobIds, job[j] = "published" PROVE Held(j)'
  BY <1>2, <1>3, <1>5, <1>6, <1>8 DEF QueuesInv, Held
<1>9. QED BY <1>2, <1>3, <1>4, <1>6, <1>7, <1>8 DEF QueuesInv, Honest, Queues!GaveUpHonestly

(* A job is finished. *)
LEMMA FinishesKeeps ==
  ASSUME QueuesInv, NEW c \in Consumers, Queues!Finishes(c)
  PROVE  QueuesInv'
<1>1. /\ hand[c].step = "running" /\ Queues!Goes(c, "settled") /\ UNCHANGED <<queue, failures>>
      /\ job' = [job EXCEPT ![hand[c].msg.job] = "finished"]
  BY DEF Queues!Finishes, Queues!At
<1>2. /\ hand[c] # Queues!Free /\ hand[c].msg \in JobMessages /\ hand[c].lost \in BOOLEAN
      /\ hand[c].msg.job \in JobIds /\ Honest(hand[c].msg)
  BY <1>1, BusyHand
<1>3. /\ DOMAIN hand' = Consumers /\ Queues!Unanswered' = Queues!Unanswered
      /\ hand'[c] = [step |-> "settled", msg |-> hand[c].msg, lost |-> hand[c].lost]
      /\ \A d \in Consumers \ {c} : hand'[d] = hand[d]
  BY <1>1, <1>2, HandGoes
<1>4. hand'[c].step = "settled" /\ hand'[c].msg = hand[c].msg /\ hand'[c].lost = hand[c].lost
  BY <1>3
<1>5. ASSUME NEW d \in Consumers PROVE HandIs(d)'
  <2>1. CASE d = c
    BY <1>1, <1>2, <1>3, <1>4, <2>1 DEF HandIs, Honest
  <2>2. CASE d # c
    BY <1>1, <1>3, <2>2 DEF QueuesInv, HandIs, Honest
  <2>3. QED BY <2>1, <2>2
<1>6. ASSUME NEW j \in JobIds, job'[j] = "published" PROVE Held(j)'
  <2>1. job[j] = "published" /\ j # hand[c].msg.job
    BY <1>1, <1>2, <1>6 DEF QueuesInv
  <2>2. Held(j)
    BY <2>1 DEF QueuesInv
  <2>3. \A d \in Queues!Unanswered : hand[d].msg.job = j => d \in Consumers \ {c}
    BY <2>1 DEF Queues!Unanswered
  <2>4. QED BY <1>1, <1>3, <2>2, <2>3 DEF Held
<1>7. QED BY <1>1, <1>2, <1>3, <1>5, <1>6 DEF QueuesInv, Honest, Queues!GaveUpHonestly

LEMMA MinOfTwo ==
  ASSUME NEW m \in Nat, NEW n \in Nat
  PROVE  Queues!Min({m, n}) = IF m <= n THEN m ELSE n
<1>1. PICK k : k = IF m <= n THEN m ELSE n
  OBVIOUS
<1>2. k \in {m, n} /\ (\A y \in {m, n} : k <= y) /\ \A x \in {m, n} : (\A y \in {m, n} : x <= y) => x = k
  BY <1>1
<1>3. Queues!Min({m, n}) = CHOOSE x \in {m, n} : \A y \in {m, n} : x <= y
  BY DEF Queues!Min
<1>4. QED BY <1>1, <1>2, <1>3

(* A job fails once more, which is counted. *)
LEMMA FailsKeeps ==
  ASSUME QueuesInv, NEW c \in Consumers, Queues!Fails(c)
  PROVE  QueuesInv'
<1>1. PICK b, w : b = hand[c].msg.job /\ w = hand[c].msg
  OBVIOUS
<1>2. /\ hand[c].step = "running" /\ Queues!Goes(c, "failed") /\ UNCHANGED <<queue, job>>
      /\ failures' = [failures EXCEPT ![b] = Queues!Min({failures[b] + 1, MaxAttempts})]
  BY <1>1 DEF Queues!Fails, Queues!At
<1>3. /\ hand[c] # Queues!Free /\ hand[c].msg \in JobMessages /\ hand[c].lost \in BOOLEAN
      /\ b \in JobIds /\ hand[c].msg.attempt \in Nat /\ Honest(hand[c].msg)
  BY <1>1, <1>2, BusyHand
<1>4. MaxAttempts \in Nat /\ failures \in [JobIds -> 0..MaxAttempts]
  BY BackgroundAssumption DEF QueuesInv
<1>5. PICK k : k = failures[b]
  OBVIOUS
<1>6. k \in 0..MaxAttempts
  BY <1>3, <1>4, <1>5
<1>7. Queues!Min({k + 1, MaxAttempts}) = IF k + 1 <= MaxAttempts THEN k + 1 ELSE MaxAttempts
  BY <1>4, <1>6, MinOfTwo
<1>8. PICK n : n = Queues!Min({k + 1, MaxAttempts})
  OBVIOUS
<1>9. n \in 0..MaxAttempts /\ k <= n /\ (n = k + 1 \/ n = MaxAttempts)
  BY <1>4, <1>6, <1>7, <1>8
<1>10. /\ failures' = [failures EXCEPT ![b] = n] /\ failures' \in [JobIds -> 0..MaxAttempts]
       /\ failures'[b] = n /\ \A j \in JobIds : failures[j] <= failures'[j]
  <2>1. failures' = [failures EXCEPT ![b] = n]
    BY <1>2, <1>5, <1>8
  <2>2. failures' \in [JobIds -> 0..MaxAttempts] /\ failures'[b] = n /\ \A j \in JobIds \ {b} : failures'[j] = failures[j]
    BY <1>3, <1>4, <1>9, <2>1
  <2>3. ASSUME NEW j \in JobIds PROVE failures[j] <= failures'[j]
    <3>1. failures[j] \in 0..MaxAttempts
      BY <1>4
    <3>2. QED BY <1>4, <1>5, <1>9, <2>2, <3>1
  <2>4. QED BY <2>1, <2>2, <2>3
<1>11. \A m \in JobMessages : Honest(m) => Honest(m)'
  BY <1>4, <1>10 DEF Honest, JobMessages
<1>12. /\ DOMAIN hand' = Consumers /\ Queues!Unanswered' = Queues!Unanswered
       /\ hand'[c] = [step |-> "failed", msg |-> hand[c].msg, lost |-> hand[c].lost]
       /\ \A d \in Consumers \ {c} : hand'[d] = hand[d]
  BY <1>2, <1>3, HandGoes
<1>13. hand'[c].step = "failed" /\ hand'[c].msg = hand[c].msg /\ hand'[c].lost = hand[c].lost
  BY <1>12
<1>14. ASSUME NEW d \in Consumers PROVE HandIs(d)'
  <2>1. CASE d = c
    <3>1. hand[c].msg.attempt <= failures'[b] \/ failures'[b] >= MaxAttempts
      BY <1>1, <1>3, <1>4, <1>5, <1>6, <1>9, <1>10 DEF Honest
    <3>2. Honest(w)' /\ w \in JobMessages /\ w.job = b
      BY <1>1, <1>3, <1>11
    <3>3. hand'[c] = [step |-> "failed", msg |-> w, lost |-> hand[c].lost]
      BY <1>1, <1>12
    <3>4. hand'[c].step = "failed" /\ hand'[c].msg = w /\ hand'[c].lost \in BOOLEAN
      BY <1>3, <3>3
    <3>5. Honest(hand[c].msg)'
      BY <3>2, <3>4 DEF Honest
    <3>6. QED BY <1>1, <2>1, <3>1, <3>2, <3>3, <3>4, <3>5 DEF HandIs
  <2>2. CASE d # c
    <3>1. HandIs(d) /\ hand'[d] = hand[d]
      BY <1>12, <2>2 DEF QueuesInv
    <3>2. CASE hand[d] = Queues!Free
      BY <3>1, <3>2 DEF HandIs
    <3>3. CASE hand[d] # Queues!Free
      <4>1. hand[d].msg \in JobMessages /\ Honest(hand[d].msg)'
        BY <1>11, <3>1, <3>3 DEF HandIs, Honest
      <4>2. hand[d].msg.job \in JobIds /\ hand[d].msg.attempt \in Nat
        BY <4>1 DEF JobMessages
      <4>3. hand[d].step = "failed" =>
              hand[d].msg.attempt <= failures'[hand[d].msg.job] \/ failures'[hand[d].msg.job] >= MaxAttempts
        BY <1>4, <1>10, <3>1, <3>3, <4>2 DEF HandIs
      <4>4. QED BY <3>1, <3>3, <4>1, <4>3 DEF HandIs, Honest
    <3>4. QED BY <3>2, <3>3
  <2>3. QED BY <2>1, <2>2
<1>15. ASSUME NEW j \in JobIds, job'[j] = "published" PROVE Held(j)'
  <2>1. Held(j)
    BY <1>2, <1>15 DEF QueuesInv
  <2>2. \A d \in Queues!Unanswered : /\ hand'[d].msg = hand[d].msg
                                     /\ hand[d].step # "settled" => hand'[d].step # "settled"
    BY <1>12, <1>13 DEF Queues!Unanswered
  <2>3. QED BY <1>2, <1>12, <2>1, <2>2 DEF Held
<1>16. \A m \in Contents(queue') : Honest(m)'
  BY <1>2, <1>11, MessagesOfQueue DEF QueuesInv
<1>17. Queues!GaveUpHonestly'
  <2>1. SUFFICES ASSUME NEW j \in JobIds, job[j] = "gave up" PROVE failures'[j] >= MaxAttempts
    BY <1>2 DEF Queues!GaveUpHonestly
  <2>2. failures[j] >= MaxAttempts /\ failures[j] \in 0..MaxAttempts /\ failures'[j] \in 0..MaxAttempts
    BY <1>4, <1>10, <2>1 DEF QueuesInv, Queues!GaveUpHonestly
  <2>3. QED BY <1>4, <1>10, <2>2
<1>18. QED BY <1>2, <1>10, <1>12, <1>14, <1>15, <1>16, <1>17 DEF QueuesInv

(* The next attempt is published before the old message is acknowledged. *)
LEMMA RetryKeeps ==
  ASSUME QueuesInv, NEW c \in Consumers, Queues!Retry(c)
  PROVE  QueuesInv'
<1>1. PICK m : m = Queues!Message(hand[c].msg.job, hand[c].msg.attempt + 1)
  OBVIOUS
<1>2. /\ hand[c].step = "failed" /\ hand[c].msg.attempt < MaxAttempts /\ Queues!Goes(c, "settled")
      /\ queue' = Append(queue, m) /\ UNCHANGED <<job, failures>>
  BY <1>1 DEF Queues!Retry, Queues!Republish, Queues!Again, Queues!At
<1>3. /\ hand[c] # Queues!Free /\ hand[c].msg \in JobMessages /\ hand[c].lost \in BOOLEAN
      /\ hand[c].msg.job \in JobIds /\ hand[c].msg.attempt \in Nat \ {0} /\ Honest(hand[c].msg)
      /\ hand[c].msg.attempt <= failures[hand[c].msg.job] \/ failures[hand[c].msg.job] >= MaxAttempts
  BY <1>2, BusyHand
<1>4. failures[hand[c].msg.job] \in Nat /\ MaxAttempts \in Nat
  BY <1>3, BackgroundAssumption DEF QueuesInv
<1>5. hand[c].msg.attempt <= failures[hand[c].msg.job]
  BY <1>2, <1>3, <1>4
<1>6. m \in JobMessages /\ m.job = hand[c].msg.job /\ Honest(m)
  BY <1>1, <1>3, <1>4, <1>5 DEF Queues!Message, JobMessages, Honest
<1>7. queue' \in Seq(JobMessages) /\ Contents(queue') = Contents(queue) \cup {m}
  BY <1>2, <1>6, Appended
<1>8. /\ DOMAIN hand' = Consumers /\ Queues!Unanswered' = Queues!Unanswered
      /\ hand'[c] = [step |-> "settled", msg |-> hand[c].msg, lost |-> hand[c].lost]
      /\ \A d \in Consumers \ {c} : hand'[d] = hand[d]
  BY <1>2, <1>3, HandGoes
<1>9. hand'[c].step = "settled" /\ hand'[c].msg = hand[c].msg /\ hand'[c].lost = hand[c].lost
  BY <1>8
<1>10. ASSUME NEW d \in Consumers PROVE HandIs(d)'
  <2>1. CASE d = c
    BY <1>2, <1>3, <1>8, <1>9, <2>1 DEF HandIs, Honest
  <2>2. CASE d # c
    BY <1>2, <1>8, <2>2 DEF QueuesInv, HandIs, Honest
  <2>3. QED BY <2>1, <2>2
<1>11. ASSUME NEW j \in JobIds, job'[j] = "published" PROVE Held(j)'
  <2>1. Held(j)
    BY <1>2, <1>11 DEF QueuesInv
  <2>2. CASE j = hand[c].msg.job
    BY <1>6, <1>7, <2>2 DEF Held
  <2>3. CASE j # hand[c].msg.job
    <3>1. \A d \in Queues!Unanswered : hand[d].msg.job = j => d \in Consumers \ {c}
      BY <2>3 DEF Queues!Unanswered
    <3>2. QED BY <1>7, <1>8, <2>1, <3>1 DEF Held
  <2>4. QED BY <2>2, <2>3
<1>12. \A n \in Contents(queue') : Honest(n)'
  BY <1>2, <1>6, <1>7 DEF QueuesInv, Honest
<1>13. QED BY <1>2, <1>7, <1>8, <1>10, <1>11, <1>12 DEF QueuesInv, Queues!GaveUpHonestly

(* The message goes back, or the job has used up its attempts, or the answer is given. *)
LEMMA AnswersKeep ==
  ASSUME QueuesInv, NEW c \in Consumers, Queues!Nack(c) \/ Queues!Reject(c) \/ Queues!Ack(c)
  PROVE  QueuesInv'
<1>. DEFINE w == hand[c].msg
<1>1. CASE Queues!Nack(c)
  <2>1. /\ hand[c].step = "failed" /\ Queues!Ends(c) /\ UNCHANGED <<job, failures>>
        /\ queue' = IF hand[c].lost THEN queue ELSE <<w>> \o queue
    BY <1>1 DEF Queues!Nack, Queues!At
  <2>2. w \in JobMessages /\ Honest(w)
    BY <2>1, BusyHand
  <2>3. PICK seq : seq = <<w>>
    OBVIOUS
  <2>4. seq \in Seq(JobMessages) /\ Contents(seq) = {w}
    BY <2>2, <2>3 DEF Contents
  <2>5. CASE hand[c].lost
    <3>1. queue' = queue /\ c \notin Queues!Unanswered
      BY <2>1, <2>5 DEF Queues!Unanswered
    <3>2. QED BY <2>1, <3>1, HandEnds DEF QueuesInv
  <2>6. CASE ~hand[c].lost
    <3>1. queue' \in Seq(JobMessages) /\ Contents(queue') = {w} \cup Contents(queue)
      <4>1. queue' = seq \o queue
        BY <2>1, <2>3, <2>6
      <4>2. queue \in Seq(JobMessages)
        BY DEF QueuesInv
      <4>3. QED BY <2>4, <4>1, <4>2, ContentsOfConcat
    <3>2. \A m \in Contents(queue') : Honest(m)
      BY <2>2, <3>1 DEF QueuesInv
    <3>3. w \in Contents(queue')
      BY <3>1
    <3>4. QED BY <2>1, <3>1, <3>2, <3>3, HandEnds DEF QueuesInv
  <2>7. QED BY <2>5, <2>6
<1>2. CASE Queues!Reject(c)
  <2>1. /\ hand[c].step = "failed" /\ w.attempt >= MaxAttempts /\ Queues!Ends(c) /\ UNCHANGED <<queue, failures>>
        /\ job' = [job EXCEPT ![w.job] = IF @ = "finished" THEN @ ELSE "gave up"]
    BY <1>2 DEF Queues!Reject, Queues!Exhausted, Queues!At
  <2>2. /\ w.job \in JobIds /\ w.attempt \in Nat \ {0}
        /\ w.attempt <= failures[w.job] \/ failures[w.job] >= MaxAttempts
    BY <2>1, BusyHand
  <2>3. failures[w.job] >= MaxAttempts
    <3>1. failures[w.job] \in Nat /\ MaxAttempts \in Nat
      BY <2>2, BackgroundAssumption DEF QueuesInv
    <3>2. PICK f, n : f = failures[w.job] /\ n = w.attempt
      OBVIOUS
    <3>3. n >= MaxAttempts /\ (n <= f \/ f >= MaxAttempts) /\ f \in Nat /\ n \in Nat
      BY <2>1, <2>2, <3>1, <3>2
    <3>4. f >= MaxAttempts
      BY <3>1, <3>3
    <3>5. QED BY <3>2, <3>4
  <2>4. /\ DOMAIN job' = JobIds /\ job'[w.job] \in {"finished", "gave up"}
        /\ \A j \in JobIds \ {w.job} : job'[j] = job[j]
    BY <2>1, <2>2 DEF QueuesInv
  <2>5. \A j \in JobIds : job'[j] = "published" => job[j] = "published" /\ j # w.job
    BY <2>4
  <2>6. \A j \in JobIds : job'[j] = "gave up" => job[j] = "gave up" \/ failures[j] >= MaxAttempts
    BY <2>3, <2>4
  <2>7. QED BY <2>1, <2>4, <2>5, <2>6, HandEnds DEF QueuesInv
<1>3. CASE Queues!Ack(c)
  <2>1. hand[c].step = "settled" /\ Queues!Ends(c) /\ UNCHANGED <<queue, job, failures>>
    BY <1>3 DEF Queues!Ack, Queues!At
  <2>2. QED BY <2>1, HandEnds DEF QueuesInv
<1>4. QED BY <1>1, <1>2, <1>3

(* A connection is lost, or the process with its handlers. *)
LEMMA BreaksKeep ==
  ASSUME QueuesInv, Queues!ConnectionLost \/ Queues!Crash
  PROVE  QueuesInv'
<1>1. CASE Queues!ConnectionLost
  <2>1. /\ queue' = Queues!Returned \o queue /\ UNCHANGED <<job, failures>>
        /\ hand' = [c \in Consumers |-> IF c \in Queues!Unanswered THEN [hand[c] EXCEPT !.lost = TRUE] ELSE hand[c]]
    BY <1>1 DEF Queues!ConnectionLost
  <2>2. ASSUME NEW c \in Consumers PROVE HandIs(c)' /\ c \notin Queues!Unanswered'
    <3>1. CASE c \in Queues!Unanswered
      <4>1. hand[c] # Queues!Free /\ HandIs(c)
        BY <3>1 DEF Queues!Unanswered, Queues!At, Queues!Free, QueuesInv
      <4>2. hand'[c] = [hand[c] EXCEPT !.lost = TRUE]
        BY <2>1, <3>1
      <4>3. hand'[c] = [step |-> hand[c].step, msg |-> hand[c].msg, lost |-> TRUE]
        BY <4>1, <4>2 DEF HandIs
      <4>4. hand'[c].step = hand[c].step /\ hand'[c].msg = hand[c].msg /\ hand'[c].lost = TRUE
        BY <4>3
      <4>5. HandIs(c)'
        BY <2>1, <4>1, <4>3, <4>4 DEF HandIs, Honest
      <4>6. QED BY <4>4, <4>5 DEF Queues!Unanswered
    <3>2. CASE c \notin Queues!Unanswered
      <4>1. hand'[c] = hand[c]
        BY <2>1, <3>2
      <4>2. QED BY <2>1, <3>2, <4>1 DEF Queues!Unanswered, Queues!At, QueuesInv, HandIs, Honest
    <3>3. QED BY <3>1, <3>2
  <2>3. Queues!Unanswered' = {} /\ DOMAIN hand' = Consumers
    BY <2>1, <2>2 DEF Queues!Unanswered
  <2>4. QED BY <2>1, <2>2, <2>3, MessagesReturn
<1>2. CASE Queues!Crash
  <2>1. /\ queue' = Queues!Returned \o queue /\ UNCHANGED <<job, failures>>
        /\ hand' = [c \in Consumers |-> Queues!Free]
    BY <1>2 DEF Queues!Crash
  <2>2. Queues!Free.step = "free"
    BY DEF Queues!Free
  <2>3. \A c \in Consumers : HandIs(c)' /\ c \notin Queues!Unanswered'
    BY <2>1, <2>2 DEF HandIs, Queues!Unanswered, Queues!At
  <2>4. Queues!Unanswered' = {} /\ DOMAIN hand' = Consumers
    BY <2>1, <2>3 DEF Queues!Unanswered
  <2>5. QED BY <2>1, <2>3, <2>4, MessagesReturn
<1>3. QED BY <1>1, <1>2

LEMMA QueuesStep == QueuesInv /\ [Queues!Next]_queueVars => QueuesInv'
<1>. SUFFICES ASSUME QueuesInv, [Queues!Next]_queueVars PROVE QueuesInv'
  OBVIOUS
<1>1. ASSUME NEW j \in JobIds, Queues!Publish(j) \/ Queues!NotPublished(j) PROVE QueuesInv'
  BY <1>1, PublishKeeps
<1>2. ASSUME NEW c \in Consumers, Queues!Consume(c) PROVE QueuesInv'
  BY <1>2, ConsumeKeeps
<1>3. ASSUME NEW c \in Consumers, Queues!Finishes(c) PROVE QueuesInv'
  BY <1>3, FinishesKeeps
<1>4. ASSUME NEW c \in Consumers, Queues!Fails(c) PROVE QueuesInv'
  BY <1>4, FailsKeeps
<1>5. ASSUME NEW c \in Consumers, Queues!Retry(c) PROVE QueuesInv'
  BY <1>5, RetryKeeps
<1>6. ASSUME NEW c \in Consumers, Queues!Nack(c) \/ Queues!Reject(c) \/ Queues!Ack(c) PROVE QueuesInv'
  BY <1>6, AnswersKeep
<1>7. CASE Queues!ConnectionLost \/ Queues!Crash
  BY <1>7, BreaksKeep
<1>8. CASE UNCHANGED queueVars
  BY <1>8 DEF queueVars, QueuesInv, HandIs, Honest, Held, Queues!Unanswered, Queues!At, Queues!GaveUpHonestly
<1>9. QED BY <1>1, <1>2, <1>3, <1>4, <1>5, <1>6, <1>7, <1>8 DEF Queues!Next

LEMMA QueuesStart == Queues!Init => QueuesInv
<1>. SUFFICES ASSUME Queues!Init PROVE QueuesInv
  OBVIOUS
<1>1. /\ queue = <<>> /\ hand = [c \in Consumers |-> Queues!Free]
      /\ job = [j \in JobIds |-> "new"] /\ failures = [j \in JobIds |-> 0]
  BY DEF Queues!Init
<1>2. Contents(queue) = {}
  BY <1>1 DEF Contents
<1>3. Queues!Free.step = "free"
  BY DEF Queues!Free
<1>4. Queues!Unanswered = {}
  BY <1>1, <1>3 DEF Queues!Unanswered, Queues!At
<1>5. failures \in [JobIds -> 0..MaxAttempts]
  BY <1>1, BackgroundAssumption
<1>6. QED BY <1>1, <1>2, <1>4, <1>5 DEF QueuesInv, HandIs, Queues!GaveUpHonestly

-----------------------------------------------------------------------------
(* Numbers *)

(* A set of numbers has a least one. *)
LEMMA SmallestExists ==
  ASSUME NEW S, S \subseteq Nat, S # {}
  PROVE  \E n \in S : \A m \in S : n <= m
<1>. DEFINE Less == OpToRel(<, Nat)
<1>1. IsWellFoundedOn(Less, Nat)
  BY NatLessThanWellFounded
<1>. HIDE DEF Less
<1>2. PICK n \in S : \A m \in S : <<m, n>> \notin Less
  BY <1>1, WFMin
<1>3. \A m \in S : ~(m < n)
  BY <1>2 DEF Less, OpToRel
<1>4. QED BY <1>3

(* A set that has with a number all those below it. *)
LEMMA LowerPart ==
  ASSUME NEW n \in Nat, NEW S, S \subseteq 1..n, \A i \in S, j \in 1..n : j <= i => j \in S
  PROVE  /\ IsFiniteSet(S) /\ Cardinality(S) \in 0..n
         /\ S = 1..Cardinality(S)
<1>1. n + 1 \in (1..(n + 1)) \ S /\ (1..(n + 1)) \ S \subseteq Nat
  OBVIOUS
<1>2. PICK m \in (1..(n + 1)) \ S : \A j \in (1..(n + 1)) \ S : m <= j
  <2>. DEFINE others == (1..(n + 1)) \ S
  <2>1. others \subseteq Nat /\ others # {}
    BY <1>1
  <2>. HIDE DEF others
  <2>2. \E m \in others : \A j \in others : m <= j
    BY <2>1, SmallestExists
  <2>3. QED BY <2>2 DEF others
<1>3. S = 1..(m - 1)
  <2>1. ASSUME NEW j \in 1..(m - 1) PROVE j \in S
    BY <1>2, <2>1
  <2>2. ASSUME NEW j \in S PROVE j \in 1..(m - 1)
    <3>1. j \in 1..n
      OBVIOUS
    <3>2. CASE m <= j
      <4>1. m \in 1..n
        BY <1>2, <3>1, <3>2
      <4>2. QED BY <1>2, <3>2, <4>1
    <3>3. QED BY <1>2, <3>1, <3>2
  <2>3. QED BY <2>1, <2>2
<1>4. m - 1 \in 0..n
  BY <1>2
<1>5. IsFiniteSet(1..(m - 1)) /\ Cardinality(1..(m - 1)) = m - 1
  BY <1>4, FS_Interval
<1>6. QED BY <1>3, <1>4, <1>5

(* Counting is the same in the reporter's module. *)
LEMMA CountsAlike == \A S : Reporter!Cardinality(S) = Cardinality(S)
  BY DEF Reporter!Cardinality, Cardinality

-----------------------------------------------------------------------------
(* Reports of errors *)

SilentReports == [error : Errors, at : Nat, stopping : {FALSE}]
Heard == [error : Errors, last : Nat, suppressed : BOOLEAN]

(* The reports in their order, and the list of those that may be within the hour: the last ones. *)
InOrder(out) == \A i, j \in DOMAIN out : i <= j => out[i].at <= out[j].at

LastOnes(times, out, now) ==
  /\ times \in Seq(Nat) /\ Len(times) <= Len(out)
  /\ \A i \in 1..Len(times) : times[i] = out[Len(out) - Len(times) + i].at
  /\ \A i \in 1..(Len(out) - Len(times)) : now - out[i].at >= Hour

(* The table has an entry for an error, with its last report. *)
EntriesOf(entries, out) ==
  /\ IsFiniteSet(entries) /\ entries \subseteq Heard
  /\ \A k, q \in entries : k.error = q.error => k = q
  /\ \A k \in entries : \E i \in DOMAIN out : out[i].error = k.error /\ out[i].at = k.last

(* What was told within the window is in the table. *)
Remembered(entries, out, now) ==
  \A i \in DOMAIN out : now - out[i].at < Window =>
      \E k \in entries : k.error = out[i].error /\ k.last = out[i].at

ReporterInv ==
  /\ clock \in Nat /\ muted \in BOOLEAN /\ spawned \in Seq(Errors)
  /\ tells \in Seq(SilentReports)
  /\ \A i \in DOMAIN tells : tells[i].at <= clock
  /\ InOrder(tells) /\ LastOnes(sent, tells, clock)
  /\ EntriesOf(heard, tells) /\ Remembered(heard, tells, clock)
  /\ Reporter!ToldOnceInWindow /\ Reporter!BudgetHolds

LEMMA TellsAre ==
  ASSUME ReporterInv
  PROVE  /\ Len(tells) \in Nat /\ DOMAIN tells = 1..Len(tells)
         /\ \A i \in 1..Len(tells) : tells[i] \in SilentReports /\ tells[i].error \in Errors /\ tells[i].at \in Nat
         /\ Len(sent) \in Nat /\ DOMAIN sent = 1..Len(sent) /\ \A i \in 1..Len(sent) : sent[i] \in Nat
<1>1. tells \in Seq(SilentReports) /\ sent \in Seq(Nat)
  BY DEF ReporterInv, LastOnes
<1>2. /\ Len(tells) \in Nat /\ DOMAIN tells = 1..Len(tells) /\ \A i \in 1..Len(tells) : tells[i] \in SilentReports
      /\ Len(sent) \in Nat /\ DOMAIN sent = 1..Len(sent) /\ \A i \in 1..Len(sent) : sent[i] \in Nat
  BY <1>1, LenProperties, ElementOfSeq
<1>3. \A r \in SilentReports : r.error \in Errors /\ r.at \in Nat
  BY DEF SilentReports
<1>4. QED BY <1>2, <1>3

(* What is left of the list is its end, and all that was told within the hour. *)
LEMMA RecentIs ==
  ASSUME ReporterInv
  PROVE  /\ LastOnes(Reporter!Recent, tells, clock)
         /\ \A i \in (Len(tells) - Len(Reporter!Recent) + 1)..Len(tells) : clock - tells[i].at < Hour
<1>1. PICK n, m : n = Len(sent) /\ m = Len(tells)
  OBVIOUS
<1>2. /\ n \in Nat /\ m \in Nat /\ n <= m /\ DOMAIN sent = 1..n /\ sent \in Seq(Nat)
      /\ \A i \in 1..n : sent[i] = tells[m - n + i].at /\ sent[i] \in Nat
      /\ \A i \in 1..(m - n) : clock - tells[i].at >= Hour
      /\ clock \in Nat /\ DOMAIN tells = 1..m
  BY <1>1, TellsAre DEF ReporterInv, LastOnes
<1>3. \A i, j \in 1..n : j <= i => sent[j] <= sent[i]
  <2>. SUFFICES ASSUME NEW i \in 1..n, NEW j \in 1..n, j <= i PROVE sent[j] <= sent[i]
    OBVIOUS
  <2>1. m - n + i \in 1..m /\ m - n + j \in 1..m /\ m - n + j <= m - n + i
    BY <1>2
  <2>2. QED BY <1>2, <2>1 DEF ReporterInv, InOrder
<1>4. PICK old : old = {i \in DOMAIN sent : clock - sent[i] >= Hour}
  OBVIOUS
<1>5. old \subseteq 1..n /\ \A i \in old, j \in 1..n : j <= i => j \in old
  <2>1. \A i \in 1..n : i \in old <=> clock - sent[i] >= Hour
    BY <1>2, <1>4
  <2>2. ASSUME NEW i \in old, NEW j \in 1..n, j <= i PROVE j \in old
    <3>1. i \in 1..n /\ clock - sent[i] >= Hour
      BY <1>2, <1>4
    <3>2. sent[j] <= sent[i] /\ sent[i] \in Nat /\ sent[j] \in Nat
      BY <1>2, <1>3, <2>2, <3>1
    <3>3. clock - sent[j] >= Hour
      BY <1>2, <3>1, <3>2, BackgroundAssumption
    <3>4. QED BY <2>1, <3>3
  <2>3. QED BY <1>2, <1>4, <2>2
<1>6. PICK o \in 0..n : o = Cardinality(old) /\ old = 1..o
  BY <1>2, <1>5, LowerPart
<1>7. Reporter!Recent = SubSeq(sent, o + 1, n)
  BY <1>1, <1>4, <1>6, CountsAlike DEF Reporter!Recent
<1>8. /\ SubSeq(sent, o + 1, n) \in Seq(Nat) /\ Len(SubSeq(sent, o + 1, n)) = n - o
      /\ \A i \in 1..(n - o) : SubSeq(sent, o + 1, n)[i] = sent[o + i]
  BY <1>1, <1>2, <1>6
<1>9. PICK times : times = Reporter!Recent
  OBVIOUS
<1>10. times \in Seq(Nat) /\ Len(times) = n - o /\ \A i \in 1..(n - o) : times[i] = sent[o + i]
  BY <1>7, <1>8, <1>9
<1>11. \A i \in 1..(n - o) : times[i] = tells[m - (n - o) + i].at
  <2>. SUFFICES ASSUME NEW i \in 1..(n - o) PROVE times[i] = tells[m - (n - o) + i].at
    OBVIOUS
  <2>1. o + i \in 1..n /\ m - n + (o + i) = m - (n - o) + i
    BY <1>2, <1>6
  <2>2. QED BY <1>2, <1>10, <2>1
<1>12. \A i \in 1..(m - (n - o)) : clock - tells[i].at >= Hour
  <2>. SUFFICES ASSUME NEW i \in 1..(m - (n - o)) PROVE clock - tells[i].at >= Hour
    OBVIOUS
  <2>1. CASE i <= m - n
    BY <1>2, <2>1
  <2>2. CASE i > m - n
    <3>1. i - (m - n) \in 1..o /\ i - (m - n) \in 1..n /\ m - n + (i - (m - n)) = i
      BY <1>2, <1>6, <2>2
    <3>2. clock - sent[i - (m - n)] >= Hour
      BY <1>4, <1>6, <3>1
    <3>3. sent[i - (m - n)] = tells[i].at
      BY <1>2, <3>1
    <3>4. QED BY <3>2, <3>3
  <2>3. QED BY <1>2, <2>1, <2>2
<1>13. \A i \in (m - (n - o) + 1)..m : clock - tells[i].at < Hour
  <2>. SUFFICES ASSUME NEW i \in (m - (n - o) + 1)..m PROVE clock - tells[i].at < Hour
    OBVIOUS
  <2>1. /\ i - (m - n) \in 1..n /\ i - (m - n) \notin 1..o /\ m - n + (i - (m - n)) = i
    BY <1>2, <1>6
  <2>2. ~(clock - sent[i - (m - n)] >= Hour) /\ sent[i - (m - n)] = tells[i].at /\ sent[i - (m - n)] \in Nat
    BY <1>2, <1>4, <1>6, <2>1
  <2>3. QED BY <1>2, <2>2, BackgroundAssumption
<1>14. n - o <= m
  BY <1>2, <1>6
<1>15. LastOnes(times, tells, clock)
  BY <1>1, <1>10, <1>11, <1>12, <1>14 DEF LastOnes
<1>16. Len(times) = n - o
  BY <1>10
<1>17. QED BY <1>1, <1>9, <1>13, <1>15, <1>16

LEMMA TimeGoes ==
  ASSUME ReporterInv, clock' = clock + 1, UNCHANGED <<spawned, heard, sent, tells>>, muted' \in BOOLEAN
  PROVE  ReporterInv'
<1>1. clock' \in Nat /\ \A i \in DOMAIN tells : tells[i].at \in Nat /\ tells[i].at <= clock /\ clock' - tells[i].at >= clock - tells[i].at
  BY TellsAre DEF ReporterInv
<1>2. \A i \in DOMAIN tells : tells[i].at <= clock'
  BY <1>1 DEF ReporterInv
<1>3. LastOnes(sent, tells, clock')
  <2>1. \A i \in 1..(Len(tells) - Len(sent)) : i \in DOMAIN tells /\ clock - tells[i].at >= Hour
    BY TellsAre DEF ReporterInv, LastOnes
  <2>2. \A i \in 1..(Len(tells) - Len(sent)) : clock' - tells[i].at >= Hour
    BY <1>1, <2>1, BackgroundAssumption DEF ReporterInv
  <2>3. QED BY <2>2 DEF ReporterInv, LastOnes
<1>4. Remembered(heard, tells, clock')
  <2>1. \A i \in DOMAIN tells : clock' - tells[i].at < Window => clock - tells[i].at < Window
    BY <1>1, BackgroundAssumption DEF ReporterInv
  <2>2. QED BY <2>1 DEF ReporterInv, Remembered
<1>5. Reporter!ToldOnceInWindow' /\ Reporter!BudgetHolds'
  BY DEF ReporterInv, Reporter!ToldOnceInWindow, Reporter!BudgetHolds
<1>6. QED BY <1>1, <1>2, <1>3, <1>4, <1>5 DEF ReporterInv

(* A report is not told: its entry is marked, the list may have been shortened. *)
LEMMA MarkedKeeps ==
  ASSUME ReporterInv, NEW e \in Errors, Reporter!Unheard(e), sent' = sent \/ sent' = Reporter!Recent,
         UNCHANGED <<clock, muted, tells>>, spawned' \in Seq(Errors)
  PROVE  ReporterInv'
<1>. DEFINE marked == [k \in heard |-> IF k.error = e THEN [k EXCEPT !.suppressed = TRUE] ELSE k]
<1>1. heard' = {marked[k] : k \in heard}
  BY DEF Reporter!Unheard
<1>2. \A k \in heard : marked[k] \in Heard /\ marked[k].error = k.error /\ marked[k].last = k.last
  BY DEF ReporterInv, EntriesOf, Heard
<1>3. \A k \in heard : k.error = e => marked[k].suppressed = TRUE
  BY DEF ReporterInv, EntriesOf, Heard
<1>4. IsFiniteSet(heard')
  <2>1. marked \in Surjection(heard, heard')
    BY <1>1 DEF Surjection
  <2>2. QED BY <2>1, FS_Surjection DEF ReporterInv, EntriesOf
<1>. HIDE DEF marked
<1>5. \A k, q \in heard' : k.error = q.error => k = q
  BY <1>1, <1>2 DEF ReporterInv, EntriesOf
<1>6. \A k \in heard' : \E i \in DOMAIN tells : tells[i].error = k.error /\ tells[i].at = k.last
  BY <1>1, <1>2 DEF ReporterInv, EntriesOf
<1>7. EntriesOf(heard', tells)
  BY <1>1, <1>2, <1>4, <1>5, <1>6 DEF EntriesOf
<1>8. Remembered(heard', tells, clock)
  BY <1>1, <1>2 DEF ReporterInv, Remembered
<1>9. LastOnes(sent', tells, clock)
  BY RecentIs DEF ReporterInv
<1>10. Reporter!ToldOnceInWindow' /\ Reporter!BudgetHolds'
  BY DEF ReporterInv, Reporter!ToldOnceInWindow, Reporter!BudgetHolds
<1>11. QED BY <1>7, <1>8, <1>9, <1>10 DEF ReporterInv

(* A report is told. *)
LEMMA ToldKeeps ==
  ASSUME ReporterInv, NEW e \in Errors, muted = FALSE, Reporter!Told(e), UNCHANGED <<clock, muted>>,
         spawned' \in Seq(Errors)
  PROVE  ReporterInv'
<1>1. PICK m, r, new, times : m = Len(tells) /\ r = Len(Reporter!Recent) /\ times = Reporter!Recent
                         /\ new = [error |-> e, at |-> clock, stopping |-> FALSE]
  OBVIOUS
<1>2. /\ tells' = Append(tells, new) /\ sent' = Append(times, clock)
      /\ heard' \in Reporter!OldestPruned((heard \ Reporter!Of(e)) \cup {[error |-> e, last |-> clock, suppressed |-> FALSE]})
      /\ ~Reporter!InWindow(e) /\ Reporter!HasBudget
  BY <1>1 DEF Reporter!Told
<1>3. /\ m \in Nat /\ DOMAIN tells = 1..m /\ clock \in Nat /\ tells \in Seq(SilentReports)
      /\ \A i \in 1..m : tells[i] \in SilentReports /\ tells[i].error \in Errors /\ tells[i].at \in Nat /\ tells[i].at <= clock
  BY <1>1, TellsAre DEF ReporterInv
<1>4. new \in SilentReports /\ new.at = clock /\ new.error = e
  BY <1>1, <1>3 DEF SilentReports
<1>5. /\ tells' \in Seq(SilentReports) /\ Len(tells') = m + 1 /\ DOMAIN tells' = 1..(m + 1)
      /\ tells'[m + 1] = new /\ \A i \in 1..m : tells'[i] = tells[i]
  BY <1>1, <1>2, <1>3, <1>4, AppendProperties
<1>6. /\ times \in Seq(Nat) /\ r \in Nat /\ r <= m /\ r < Budget
      /\ \A i \in 1..r : times[i] = tells[m - r + i].at
      /\ \A i \in 1..(m - r) : clock - tells[i].at >= Hour
      /\ \A i \in (m - r + 1)..m : clock - tells[i].at < Hour
  <2>1. Reporter!Len(times) = Len(times)
    OBVIOUS
  <2>2. QED BY <1>1, <1>2, <2>1, RecentIs DEF LastOnes, Reporter!HasBudget
<1>7. InOrder(tells') /\ \A i \in DOMAIN tells' : tells'[i].at <= clock
  <2>1. \A i, j \in 1..m : i <= j => tells[i].at <= tells[j].at
    BY <1>3 DEF ReporterInv, InOrder
  <2>2. \A i \in 1..(m + 1) : tells'[i].at <= clock
    BY <1>3, <1>4, <1>5
  <2>3. \A i, j \in 1..(m + 1) : i <= j => tells'[i].at <= tells'[j].at
    BY <1>3, <1>4, <1>5, <2>1, <2>2
  <2>4. QED BY <1>5, <2>2, <2>3 DEF InOrder
<1>8. LastOnes(sent', tells', clock)
  <2>1. /\ sent' \in Seq(Nat) /\ Len(sent') = r + 1 /\ sent'[r + 1] = clock
        /\ \A i \in 1..r : sent'[i] = times[i]
    BY <1>1, <1>2, <1>3, <1>6, AppendProperties
  <2>2. ASSUME NEW i \in 1..(r + 1) PROVE sent'[i] = tells'[(m + 1) - (r + 1) + i].at
    <3>1. CASE i = r + 1
      <4>1. (m + 1) - (r + 1) + i = m + 1
        BY <1>3, <1>6, <3>1
      <4>2. QED BY <1>4, <1>5, <2>1, <3>1, <4>1
    <3>2. CASE i \in 1..r
      <4>1. (m + 1) - (r + 1) + i = m - r + i /\ m - r + i \in 1..m
        BY <1>3, <1>6, <3>2
      <4>2. QED BY <1>5, <1>6, <2>1, <3>2, <4>1
    <3>3. QED BY <1>6, <3>1, <3>2
  <2>3. \A i \in 1..((m + 1) - (r + 1)) : clock - tells'[i].at >= Hour
    <3>1. \A i \in 1..((m + 1) - (r + 1)) : i \in 1..m /\ i \in 1..(m - r)
      BY <1>3, <1>6
    <3>2. QED BY <1>5, <1>6, <3>1
  <2>4. r + 1 <= m + 1
    BY <1>3, <1>6
  <2>5. QED BY <1>5, <2>1, <2>2, <2>3, <2>4 DEF LastOnes
<1>9. \A i \in 1..m : clock - tells[i].at < Window => tells[i].error # e
  BY <1>2, <1>3 DEF ReporterInv, Remembered, Reporter!InWindow, Reporter!Of
<1>10. Reporter!ToldOnceInWindow'
  <2>1. SUFFICES ASSUME NEW i \in 1..(m + 1), NEW j \in 1..(m + 1), i < j, tells'[i].error = tells'[j].error
                 PROVE  tells'[j].at - tells'[i].at >= Window
    BY <1>5 DEF Reporter!ToldOnceInWindow
  <2>2. CASE j \in 1..m
    <3>1. i \in 1..m /\ tells'[i] = tells[i] /\ tells'[j] = tells[j]
      BY <1>3, <1>5, <2>1, <2>2
    <3>2. tells[i].error = tells[j].error
      BY <2>1, <3>1
    <3>3. tells[j].at - tells[i].at >= Window
      BY <1>3, <2>1, <2>2, <3>1, <3>2 DEF ReporterInv, Reporter!ToldOnceInWindow
    <3>4. QED BY <3>1, <3>3
  <2>3. CASE j = m + 1
    <3>1. i \in 1..m /\ tells[i].error = e /\ tells'[i] = tells[i] /\ tells'[j].at = clock
      BY <1>3, <1>4, <1>5, <2>1, <2>3
    <3>2. ~(clock - tells[i].at < Window)
      BY <1>9, <3>1
    <3>3. QED BY <1>3, <3>1, <3>2, BackgroundAssumption
  <2>4. QED BY <1>3, <2>2, <2>3
(* What was told within the hour, with the new one. *)
<1>11. PICK hour : hour = (m - r + 1)..(m + 1)
  OBVIOUS
<1>12. /\ IsFiniteSet(hour) /\ Cardinality(hour) <= Budget
       /\ \A i \in 1..(m + 1) : clock - tells'[i].at < Hour => i \in hour
  <2>1. IsFiniteSet(hour) /\ Cardinality(hour) = r + 1
    BY <1>3, <1>6, <1>11, FS_Interval
  <2>2. ASSUME NEW i \in 1..(m + 1), i \notin hour PROVE ~(clock - tells'[i].at < Hour)
    <3>1. i \in 1..m /\ i \in 1..(m - r)
      BY <1>3, <1>6, <1>11, <2>2
    <3>2. QED BY <1>3, <1>5, <1>6, <3>1, BackgroundAssumption
  <2>3. QED BY <1>6, <2>1, <2>2, BackgroundAssumption
<1>13. Reporter!BudgetHolds'
  <2>1. SUFFICES ASSUME NEW i \in 1..(m + 1)
                 PROVE  Cardinality({j \in 1..(m + 1) : tells'[j].at >= tells'[i].at /\ tells'[j].at < tells'[i].at + Hour}) <= Budget
    BY <1>5, CountsAlike DEF Reporter!BudgetHolds
  <2>2. PICK near : near = {j \in 1..(m + 1) : tells'[j].at >= tells'[i].at /\ tells'[j].at < tells'[i].at + Hour}
    OBVIOUS
  <2>3. \A j \in 1..(m + 1) : tells'[j].at \in Nat /\ tells'[j].at <= clock
    BY <1>3, <1>4, <1>5
  <2>4. CASE m + 1 \in near
    <3>1. clock < tells'[i].at + Hour
      BY <1>4, <1>5, <2>2, <2>4
    <3>2. near \subseteq hour
      <4>1. ASSUME NEW j \in near PROVE clock - tells'[j].at < Hour /\ j \in 1..(m + 1)
        BY <1>3, <2>2, <2>3, <3>1, BackgroundAssumption
      <4>2. QED BY <1>12, <4>1
    <3>3. Cardinality(near) <= Cardinality(hour) /\ Cardinality(near) \in Nat /\ Cardinality(hour) \in Nat
      BY <1>12, <3>2, FS_Subset, FS_CardinalityType
    <3>4. QED BY <1>12, <2>2, <3>3, BackgroundAssumption
  <2>5. CASE m + 1 \notin near
    <3>1. CASE i = m + 1
      <4>1. Hour = 0 /\ \A j \in 1..(m + 1) : j \notin near
        BY <1>3, <2>2, <2>3, <2>5, <3>1, BackgroundAssumption
      <4>2. near = {}
        BY <2>2, <4>1
      <4>3. Cardinality(near) = 0
        BY <4>2, FS_EmptySet
      <4>4. QED BY <2>2, <4>3, BackgroundAssumption
    <3>2. CASE i \in 1..m
      <4>1. near = {j \in 1..m : tells[j].at >= tells[i].at /\ tells[j].at < tells[i].at + Hour}
        BY <1>3, <1>5, <2>2, <2>5, <3>2
      <4>2. Cardinality({j \in 1..m : tells[j].at >= tells[i].at /\ tells[j].at < tells[i].at + Hour}) <= Budget
        BY <1>3, <3>2, CountsAlike DEF ReporterInv, Reporter!BudgetHolds
      <4>3. QED BY <2>2, <4>1, <4>2
    <3>3. QED BY <1>3, <3>1, <3>2
  <2>6. QED BY <2>4, <2>5
<1>14. PICK entered, full : /\ entered = [error |-> e, last |-> clock, suppressed |-> FALSE]
                          /\ full = (heard \ Reporter!Of(e)) \cup {entered}
  OBVIOUS
<1>15. EntriesOf(full, tells') /\ Remembered(full, tells', clock)
  <2>1. entered \in Heard /\ entered.error = e /\ entered.last = clock
    BY <1>3, <1>14 DEF Heard
  <2>2. \A k : k \in full <=> k = entered \/ (k \in heard /\ k.error # e)
    BY <1>14 DEF Reporter!Of
  <2>3. IsFiniteSet(full)
    <3>1. IsFiniteSet(heard \ Reporter!Of(e))
      BY FS_Difference DEF ReporterInv, EntriesOf
    <3>2. QED BY <1>14, <3>1, FS_AddElement
  <2>4. full \subseteq Heard
    BY <2>1, <2>2 DEF ReporterInv, EntriesOf
  <2>5. \A k, q \in full : k.error = q.error => k = q
    BY <2>1, <2>2 DEF ReporterInv, EntriesOf
  <2>6. ASSUME NEW k \in full PROVE \E i \in DOMAIN tells' : tells'[i].error = k.error /\ tells'[i].at = k.last
    <3>1. CASE k = entered
      <4>1. m + 1 \in DOMAIN tells' /\ tells'[m + 1].error = k.error /\ tells'[m + 1].at = k.last
        BY <1>3, <1>4, <1>5, <2>1, <3>1
      <4>2. QED BY <4>1
    <3>2. CASE k \in heard
      <4>1. PICK i \in 1..m : tells[i].error = k.error /\ tells[i].at = k.last
        BY <1>3, <3>2 DEF ReporterInv, EntriesOf
      <4>2. i \in DOMAIN tells' /\ tells'[i] = tells[i]
        BY <1>3, <1>5
      <4>3. QED BY <4>1, <4>2
    <3>3. QED BY <2>2, <3>1, <3>2
  <2>7. ASSUME NEW i \in 1..(m + 1), clock - tells'[i].at < Window
        PROVE  \E k \in full : k.error = tells'[i].error /\ k.last = tells'[i].at
    <3>1. CASE i = m + 1
      BY <1>4, <1>5, <2>1, <2>2, <3>1
    <3>2. CASE i \in 1..m
      <4>1. tells'[i] = tells[i] /\ tells[i].error # e
        BY <1>5, <1>9, <2>7, <3>2
      <4>2. PICK k \in heard : k.error = tells[i].error /\ k.last = tells[i].at
        BY <1>3, <2>7, <3>2, <4>1 DEF ReporterInv, Remembered
      <4>3. QED BY <2>2, <4>1, <4>2
    <3>3. QED BY <1>3, <3>1, <3>2
  <2>8. QED BY <1>5, <2>3, <2>4, <2>5, <2>6, <2>7 DEF EntriesOf, Remembered
<1>16. heard' \in Reporter!OldestPruned(full)
  BY <1>2, <1>14
<1>17. heard' = full \/ (Cardinality(full) > KnownLimit /\ \E oldest \in SUBSET full :
          Cardinality(oldest) = Pruned /\ heard' = full \ oldest /\ \A k \in oldest, q \in full \ oldest : k.last <= q.last)
  <2>1. Cardinality(full) \in Nat
    BY <1>15, FS_CardinalityType DEF EntriesOf
  <2>2. QED BY <1>16, <2>1, CountsAlike, BackgroundAssumption DEF Reporter!OldestPruned
<1>18. EntriesOf(heard', tells')
  <2>1. heard' \subseteq full
    BY <1>17
  <2>2. QED BY <1>15, <2>1, FS_Subset DEF EntriesOf
<1>19. Remembered(heard', tells', clock)
  <2>1. CASE heard' = full
    BY <1>15, <2>1
  <2>2. CASE heard' # full
    <3>1. PICK oldest \in SUBSET full : /\ Cardinality(oldest) = Pruned /\ heard' = full \ oldest
                                        /\ \A k \in oldest, q \in full \ oldest : k.last <= q.last
      BY <1>17, <2>2
    <3>2. SUFFICES ASSUME NEW k \in oldest, clock - k.last < Window PROVE FALSE
      <4>1. ASSUME NEW i \in DOMAIN tells', clock - tells'[i].at < Window
            PROVE  \E k \in heard' : k.error = tells'[i].error /\ k.last = tells'[i].at
        <5>1. PICK k \in full : k.error = tells'[i].error /\ k.last = tells'[i].at
          BY <1>15, <4>1 DEF Remembered
        <5>2. k \notin oldest
          BY <3>2, <4>1, <5>1
        <5>3. QED BY <3>1, <5>1, <5>2
      <4>2. QED BY <4>1 DEF Remembered
    <3>. DEFINE inside == (full \ oldest) \cup {k}
    <3>. DEFINE place == [q \in inside |-> CHOOSE i \in 1..(m + 1) : tells'[i].error = q.error /\ tells'[i].at = q.last]
    <3>3. \A q \in inside : q \in full /\ k.last <= q.last /\ q.last \in Nat /\ clock - q.last < Hour
      <4>1. \A q \in full : q.last \in Nat
        BY <1>15 DEF EntriesOf, Heard
      <4>2. ASSUME NEW q \in inside PROVE q \in full /\ k.last <= q.last
        BY <3>1, <4>1
      <4>3. QED BY <1>3, <3>2, <4>1, <4>2, BackgroundAssumption
    <3>4. \A q \in inside : place[q] \in 1..(m + 1) /\ tells'[place[q]].error = q.error /\ tells'[place[q]].at = q.last
      <4>1. \A q \in inside : \E i \in 1..(m + 1) : tells'[i].error = q.error /\ tells'[i].at = q.last
        BY <1>5, <1>15, <3>3 DEF EntriesOf
      <4>2. QED BY <4>1
    <3>5. place \in [inside -> hour]
      <4>1. \A q \in inside : place[q] \in hour
        BY <1>12, <3>3, <3>4
      <4>2. QED BY <4>1
    <3>6. IsFiniteSet(inside) /\ Cardinality(inside) > Budget
      <4>1. IsFiniteSet(full) /\ Cardinality(full) \in Nat /\ Cardinality(full) > KnownLimit
        BY <1>15, <1>17, <2>2, FS_CardinalityType DEF EntriesOf
      <4>2. full \cap oldest = oldest
        BY <3>1
      <4>3. IsFiniteSet(full \ oldest) /\ Cardinality(full \ oldest) = Cardinality(full) - Pruned
        BY <3>1, <4>1, <4>2, FS_Difference
      <4>4. IsFiniteSet(inside) /\ Cardinality(inside) = Cardinality(full) - Pruned + 1
        BY <3>2, <4>3, FS_AddElement
      <4>5. QED BY <4>1, <4>4, BackgroundAssumption
    <3>. HIDE DEF inside, place
    <3>7. Cardinality(hour) < Cardinality(inside)
      <4>1. Cardinality(hour) \in Nat /\ Cardinality(inside) \in Nat
        BY <1>12, <3>6, FS_CardinalityType
      <4>2. QED BY <1>12, <3>6, <4>1, BackgroundAssumption
    <3>8. PICK x, y \in inside : x # y /\ place[x] = place[y]
      BY <1>12, <3>5, <3>6, <3>7, FS_PigeonHole
    <3>9. x.error = y.error /\ x \in full /\ y \in full
      BY <3>3, <3>4, <3>8
    <3>10. QED BY <1>15, <3>8, <3>9 DEF EntriesOf
  <2>3. QED BY <2>1, <2>2
<1>20. clock' = clock /\ muted' \in BOOLEAN
  OBVIOUS
<1>21. QED BY <1>3, <1>5, <1>7, <1>8, <1>10, <1>13, <1>18, <1>19, <1>20 DEF ReporterInv

LEMMA HandledKeeps ==
  ASSUME ReporterInv, NEW e \in Errors, Reporter!Handled(e), UNCHANGED <<clock, muted>>, spawned' \in Seq(Errors)
  PROVE  ReporterInv'
<1>1. muted = FALSE
  BY DEF Reporter!Handled, ReporterInv
<1>2. CASE Reporter!Repeated(e)
  BY <1>2, MarkedKeeps DEF Reporter!Repeated
<1>3. CASE Reporter!OverBudget(e)
  BY <1>3, MarkedKeeps DEF Reporter!OverBudget
<1>4. CASE Reporter!Told(e)
  BY <1>1, <1>4, ToldKeeps
<1>5. QED BY <1>2, <1>3, <1>4 DEF Reporter!Handled

(* Nothing but the flags and the waiting reports changes. *)
LEMMA TellsStay ==
  ASSUME ReporterInv, UNCHANGED <<clock, heard, sent, tells>>, muted' \in BOOLEAN, spawned' \in Seq(Errors)
  PROVE  ReporterInv'
<1>1. Reporter!ToldOnceInWindow' /\ Reporter!BudgetHolds'
  BY DEF ReporterInv, Reporter!ToldOnceInWindow, Reporter!BudgetHolds
<1>2. QED BY <1>1 DEF ReporterInv

LEMMA ReporterStep == ReporterInv /\ [Reporter!Next]_reporterVars => ReporterInv'
<1>. SUFFICES ASSUME ReporterInv, [Reporter!Next]_reporterVars PROVE ReporterInv'
  OBVIOUS
<1>1. spawned \in Seq(Errors) /\ muted \in BOOLEAN
  BY DEF ReporterInv
<1>2. CASE Reporter!Tick
  BY <1>1, <1>2, TimeGoes DEF Reporter!Tick
<1>3. CASE Reporter!Mute
  <2>1. UNCHANGED <<clock, heard, sent, tells, spawned>> /\ muted' = TRUE
    BY <1>3 DEF Reporter!Mute
  <2>2. QED BY <1>1, <2>1, TellsStay
<1>4. CASE Reporter!SetNotifier
  BY <1>1, <1>4, TellsStay DEF Reporter!SetNotifier
<1>5. CASE Reporter!Reported
  <2>1. spawned # <<>> /\ spawned' = Tail(spawned) /\ UNCHANGED <<clock, muted>>
    BY <1>5 DEF Reporter!Reported
  <2>2. Head(spawned) \in Errors /\ spawned' \in Seq(Errors)
    BY <1>1, <2>1, HeadTailProperties
  <2>3. CASE Reporter!Handled(Head(spawned))
    BY <2>1, <2>2, <2>3, HandledKeeps
  <2>4. CASE Reporter!Withheld
    BY <1>1, <2>1, <2>2, <2>4, TellsStay DEF Reporter!Withheld
  <2>5. QED BY <1>5, <2>3, <2>4 DEF Reporter!Reported
<1>6. ASSUME NEW e \in Errors, Reporter!Caught(e) PROVE ReporterInv'
  BY <1>1, <1>6, HandledKeeps DEF Reporter!Caught
<1>7. ASSUME NEW e \in Errors, Reporter!Logged(e) PROVE ReporterInv'
  <2>1. spawned' \in Seq(Errors)
    BY <1>1, <1>7, AppendProperties DEF Reporter!Logged
  <2>2. QED BY <1>1, <1>7, <2>1, TellsStay DEF Reporter!Logged
<1>8. CASE UNCHANGED reporterVars
  BY <1>1, <1>8, TellsStay DEF reporterVars
<1>9. QED BY <1>2, <1>3, <1>4, <1>5, <1>6, <1>7, <1>8 DEF Reporter!Next

LEMMA ReporterStart == Reporter!Init => ReporterInv
<1>. SUFFICES ASSUME Reporter!Init PROVE ReporterInv
  OBVIOUS
<1>1. clock = 0 /\ spawned = <<>> /\ tells = <<>> /\ muted = FALSE /\ heard = {} /\ sent = <<>>
  BY DEF Reporter!Init
<1>2. clock \in Nat /\ spawned \in Seq(Errors) /\ tells \in Seq(SilentReports) /\ DOMAIN tells = {} /\ muted \in BOOLEAN
      /\ Len(tells) = 0 /\ Len(sent) = 0 /\ sent \in Seq(Nat)
  <2>1. \A S : <<>> \in Seq(S) /\ Len(<<>>) = 0
    BY EmptySeq
  <2>2. clock \in Nat /\ muted \in BOOLEAN
    BY <1>1
  <2>3. QED BY <1>1, <2>1, <2>2
<1>3. InOrder(tells) /\ LastOnes(sent, tells, clock) /\ Remembered(heard, tells, clock)
  BY <1>2 DEF InOrder, LastOnes, Remembered
<1>4. EntriesOf(heard, tells)
  BY <1>1, FS_EmptySet DEF EntriesOf
<1>5. Reporter!ToldOnceInWindow /\ Reporter!BudgetHolds
  BY <1>2 DEF Reporter!ToldOnceInWindow, Reporter!BudgetHolds
<1>6. QED BY <1>2, <1>3, <1>4, <1>5 DEF ReporterInv

LEMMA ReporterSafe == ReporterInv => Reporter!SilentWhenStopping
<1>. SUFFICES ASSUME ReporterInv, NEW i \in DOMAIN tells PROVE ~tells[i].stopping
  BY DEF Reporter!SilentWhenStopping
<1>1. tells[i] \in SilentReports
  BY DEF ReporterInv
<1>2. tells[i].stopping \in {FALSE}
  BY <1>1 DEF SilentReports
<1>3. QED BY <1>2

-----------------------------------------------------------------------------
(* The archive of days *)

Kinds == {"current", "daily_baseline", "other"}
SnapshotSet == [key : Archive!Keys, time : Nat, kind : Kinds, days : SUBSET Nat, dates : SUBSET Nat,
                lessons : BOOLEAN, projected : BOOLEAN]
DayRows == [key : Archive!Keys, day : Nat, kind : {"day"}, id : Nat, time : Nat,
            origin : {"accepted", "legacy_current", "legacy_baseline"}]
ReferenceRows == [key : Archive!Keys, day : Nat, kind : {"first_seen", "day_start"}, id : Nat, time : Nat]

(* A source has one row of a kind for a day. *)
OneEach(T) == \A r, q \in T : Archive!SameDay(r, q) => r = q

(* What INSERT .. ON CONFLICT does, if no two of the new rows are for the same day. *)
LEMMA UpsertedIs ==
  ASSUME NEW T, NEW N, NEW rule, OneEach(T), OneEach(N), NEW R, R = Archive!Upserted(T, N, rule)
  PROVE  /\ OneEach(R) /\ R \subseteq T \cup N
         /\ \A r \in T : r \in R \/ \E n \in N : n \in R /\ Archive!SameDay(r, n) /\ Archive!Wins(rule, n, r)
         /\ \A n \in N : n \in R \/ \E r \in T : r \in R /\ Archive!SameDay(r, n) /\ ~Archive!Wins(rule, n, r)
<1>1. /\ \A r \in T : r \in R \/ \E n \in N : Archive!SameDay(r, n) /\ Archive!Wins(rule, n, r)
      /\ \A n \in N : n \in R \/ \E r \in T : Archive!SameDay(r, n) /\ ~Archive!Wins(rule, n, r)
      /\ \A r \in R : \/ r \in T /\ ~\E n \in N : Archive!SameDay(r, n) /\ Archive!Wins(rule, n, r)
                      \/ r \in N /\ \A q \in T : Archive!SameDay(q, r) => Archive!Wins(rule, r, q)
      /\ \A r \in T : (~\E n \in N : Archive!SameDay(r, n) /\ Archive!Wins(rule, n, r)) => r \in R
      /\ \A n \in N : (\A q \in T : Archive!SameDay(q, n) => Archive!Wins(rule, n, q)) => n \in R
  BY DEF Archive!Upserted
<1>2. \A r, q, n : /\ Archive!SameDay(r, q) => Archive!SameDay(q, r)
                   /\ Archive!SameDay(r, q) /\ Archive!SameDay(q, n) => Archive!SameDay(r, n)
  BY DEF Archive!SameDay
<1>3. ASSUME NEW r \in T, r \notin R
      PROVE  \E n \in N : n \in R /\ Archive!SameDay(r, n) /\ Archive!Wins(rule, n, r)
  <2>1. PICK n \in N : Archive!SameDay(r, n) /\ Archive!Wins(rule, n, r)
    BY <1>1, <1>3
  <2>2. \A q \in T : Archive!SameDay(q, n) => q = r
    BY <1>2, <2>1 DEF OneEach
  <2>3. n \in R
    BY <1>1, <2>1, <2>2
  <2>4. QED BY <2>1, <2>3
<1>4. ASSUME NEW n \in N, n \notin R
      PROVE  \E r \in T : r \in R /\ Archive!SameDay(r, n) /\ ~Archive!Wins(rule, n, r)
  <2>1. PICK r \in T : Archive!SameDay(r, n) /\ ~Archive!Wins(rule, n, r)
    BY <1>1, <1>4
  <2>2. \A m \in N : Archive!SameDay(r, m) => m = n
    BY <1>2, <2>1 DEF OneEach
  <2>3. r \in R
    BY <1>1, <2>1, <2>2
  <2>4. QED BY <2>1, <2>3
<1>5. OneEach(R)
  <2>1. SUFFICES ASSUME NEW r \in R, NEW q \in R, Archive!SameDay(r, q) PROVE r = q
    BY DEF OneEach
  <2>2. Archive!SameDay(q, r)
    BY <1>2, <2>1
  <2>3. CASE r \in T /\ q \in T
    BY <2>1, <2>3 DEF OneEach
  <2>4. CASE r \in N /\ q \in N
    BY <2>1, <2>4 DEF OneEach
  <2>5. CASE r \in T /\ q \in N /\ (q \notin T) /\ r \notin N
    BY <1>1, <2>1, <2>2, <2>5
  <2>6. CASE r \in N /\ q \in T /\ (r \notin T) /\ q \notin N
    BY <1>1, <2>1, <2>2, <2>6
  <2>7. QED BY <1>1, <2>3, <2>4, <2>5, <2>6
<1>6. QED BY <1>1, <1>3, <1>4, <1>5

(* The snapshots of snaps that have given a day, the backfill being at last. *)
Takes(snaps, last, d) ==
  {i \in 1..Len(snaps) :
      IF snaps[i].projected THEN d \in Archive!Archived(snaps[i])
      ELSE i <= last /\ Archive!Backfilled(snaps[i]) /\ d \in snaps[i].days}

(* The row is as new as the snapshot, and newer than a current one if it is a baseline's. *)
Outranks(r, snapshot) ==
  /\ r.time >= snapshot.time
  /\ r.origin = "legacy_baseline" /\ ~snapshot.projected /\ snapshot.kind = "current" => r.time > snapshot.time

(* Rows come from what was taken, and all that was taken is outranked by a row of its key; *)
(* once the pending source was promoted (free) by a row of either key.                     *)
Latest(T, snaps, last, free) ==
  /\ T \subseteq DayRows /\ OneEach(T)
  /\ \A r \in T : r.id \in Takes(snaps, last, r.day) /\ r.time = snaps[r.id].time /\ (free \/ r.key = snaps[r.id].key)
  /\ \A d \in Nat : \A i \in Takes(snaps, last, d) :
        \E r \in T : r.day = d /\ Outranks(r, snaps[i]) /\ (free \/ r.key = snaps[i].key)

RowFor(snapshot, id, d, origin) ==
  [key |-> snapshot.key, day |-> d, kind |-> "day", id |-> id, time |-> snapshot.time, origin |-> origin]

(* The days ds of the snapshot id become the rows N, more and further is what has been taken then. *)
Writes(T, snaps, last, more, further, id, ds, origin, rule, N, R) ==
  /\ more \in Seq(SnapshotSet) /\ Len(snaps) <= Len(more) /\ Len(snaps) \in Nat /\ \A i \in 1..Len(snaps) : more[i] = snaps[i]
  /\ id \in 1..Len(more) /\ ds \subseteq Nat
  /\ \A d \in Nat : Takes(more, further, d) = Takes(snaps, last, d) \cup (IF d \in ds THEN {id} ELSE {})
  /\ \/ rule = "newest" /\ origin = "accepted" /\ more[id].projected = TRUE
     \/ rule = "backfill" /\ origin = Archive!Origin(more[id])
  /\ \A n : n \in N <=> \E d \in ds : n = RowFor(more[id], id, d, origin)
  /\ R = Archive!Upserted(T, N, rule)

LEMMA DaysWritten ==
  ASSUME NEW T, NEW snaps, NEW last, NEW free \in BOOLEAN, NEW more, NEW further, NEW id, NEW ds, NEW origin, NEW rule,
         NEW N, NEW R, Latest(T, snaps, last, free), Writes(T, snaps, last, more, further, id, ds, origin, rule, N, R)
  PROVE  Latest(R, more, further, free)
<1>0. /\ more \in Seq(SnapshotSet) /\ Len(snaps) <= Len(more) /\ Len(snaps) \in Nat /\ \A i \in 1..Len(snaps) : more[i] = snaps[i]
      /\ id \in 1..Len(more) /\ ds \subseteq Nat
      /\ \A d \in Nat : Takes(more, further, d) = Takes(snaps, last, d) \cup (IF d \in ds THEN {id} ELSE {})
      /\ \/ rule = "newest" /\ origin = "accepted" /\ more[id].projected = TRUE
         \/ rule = "backfill" /\ origin = Archive!Origin(more[id])
      /\ \A n : n \in N <=> \E d \in ds : n = RowFor(more[id], id, d, origin)
      /\ R = Archive!Upserted(T, N, rule)
  BY DEF Writes
<1>1. PICK s : s = more[id] /\ \A n : n \in N <=> \E d \in ds : n = RowFor(s, id, d, origin)
  BY <1>0
<1>2. s \in SnapshotSet /\ s.time \in Nat /\ s.key \in Archive!Keys /\ s.projected \in BOOLEAN
  <2>1. s \in SnapshotSet
    BY <1>0, <1>1, ElementOfSeq
  <2>2. QED BY <1>0, <2>1 DEF SnapshotSet
<1>3. origin \in {"accepted", "legacy_current", "legacy_baseline"}
  BY <1>0 DEF Archive!Origin
<1>4. \A n \in N : n \in DayRows /\ n.day \in ds /\ n.id = id /\ n.time = s.time /\ n.key = s.key /\ n.origin = origin
                   /\ n = RowFor(s, id, n.day, origin) /\ n.kind = "day"
  BY <1>0, <1>1, <1>2, <1>3 DEF RowFor, DayRows
<1>5. OneEach(N)
  BY <1>0, <1>4 DEF OneEach, Archive!SameDay
<1>6. /\ OneEach(R) /\ R \subseteq T \cup N
      /\ \A r \in T : r \in R \/ \E n \in N : n \in R /\ Archive!SameDay(r, n) /\ Archive!Wins(rule, n, r)
      /\ \A n \in N : n \in R \/ \E r \in T : r \in R /\ Archive!SameDay(r, n) /\ ~Archive!Wins(rule, n, r)
  <2>1. OneEach(T) /\ R = Archive!Upserted(T, N, rule)
    BY <1>0, <1>1 DEF Latest
  <2>2. QED BY ONLY <1>5, <2>1, UpsertedIs
<1>7. \A r \in T : r \in DayRows /\ r.day \in Nat /\ r.time \in Nat
  BY DEF Latest, DayRows
<1>8. ASSUME NEW r \in R
      PROVE  r.id \in Takes(more, further, r.day) /\ r.time = more[r.id].time /\ (free \/ r.key = more[r.id].key)
  <2>1. CASE r \in T
    <3>1. r.id \in Takes(snaps, last, r.day) /\ r.time = snaps[r.id].time /\ (free \/ r.key = snaps[r.id].key)
      BY <1>0, <2>1 DEF Latest
    <3>2. r.id \in 1..Len(snaps)
      BY <1>0, <3>1 DEF Takes
    <3>3. QED BY <1>0, <1>7, <2>1, <3>1, <3>2
  <2>2. CASE r \in N
    BY <1>0, <1>1, <1>4, <2>2
  <2>3. QED BY <1>0, <1>6, <2>1, <2>2
<1>9. ASSUME NEW d \in Nat, NEW i \in Takes(more, further, d)
      PROVE  \E r \in R : r.day = d /\ Outranks(r, more[i]) /\ (free \/ r.key = more[i].key)
  <2>1. more[i].time \in Nat /\ i \in 1..Len(more)
    <3>1. i \in 1..Len(more)
      BY <1>0 DEF Takes
    <3>2. more[i] \in SnapshotSet
      BY <1>0, <3>1, ElementOfSeq
    <3>3. QED BY <1>0, <3>1, <3>2 DEF SnapshotSet
  <2>2. CASE i \in Takes(snaps, last, d)
    <3>1. PICK r \in T : r.day = d /\ Outranks(r, snaps[i]) /\ (free \/ r.key = snaps[i].key)
      BY <1>0, <2>2 DEF Latest
    <3>2. more[i] = snaps[i]
      BY <1>0, <2>2 DEF Takes
    <3>3. CASE r \in R
      BY <1>0, <3>1, <3>2, <3>3
    <3>4. CASE r \notin R
      <4>1. PICK n \in N : n \in R /\ Archive!SameDay(r, n) /\ Archive!Wins(rule, n, r)
        BY <1>0, <1>6, <3>4
      <4>2. n.day = d /\ n.key = r.key
        BY <1>0, <3>1, <4>1 DEF Archive!SameDay
      <4>3. n.time \in Nat /\ r.time \in Nat
        BY <1>0, <1>2, <1>4, <1>7
      <4>4. n.time > r.time \/ (n.time = r.time /\ n.origin = "legacy_current")
        BY <1>0, <4>1 DEF Archive!Wins, Archive!Newer
      <4>5. Outranks(n, more[i])
        BY <1>0, <2>1, <3>1, <3>2, <4>3, <4>4 DEF Outranks
      <4>6. QED BY <1>0, <3>1, <3>2, <4>1, <4>2, <4>5
    <3>5. QED BY <1>0, <3>3, <3>4
  <2>3. CASE i \notin Takes(snaps, last, d)
    <3>1. i = id /\ d \in ds
      BY <1>0, <2>3
    <3>2. PICK n : n = RowFor(s, id, d, origin)
      OBVIOUS
    <3>3. n \in N /\ n.day = d
      BY <1>0, <1>1, <3>1, <3>2 DEF RowFor
    <3>4. CASE n \in R
      <4>1. origin = "legacy_baseline" => ~(~s.projected /\ s.kind = "current")
        BY <1>0, <1>1 DEF Archive!Origin
      <4>2. Outranks(n, s)
        BY <1>0, <1>2, <1>4, <3>3, <4>1 DEF Outranks
      <4>3. QED BY <1>0, <1>1, <1>4, <3>1, <3>3, <3>4, <4>2
    <3>5. CASE n \notin R
      <4>1. PICK r \in T : r \in R /\ Archive!SameDay(r, n) /\ ~Archive!Wins(rule, n, r)
        BY <1>0, <1>6, <3>3, <3>5
      <4>2. r.day = d /\ r.key = s.key
        BY <1>0, <1>4, <3>3, <4>1 DEF Archive!SameDay
      <4>3. n.time \in Nat /\ r.time \in Nat /\ n.time = s.time /\ n.origin = origin
        BY <1>0, <1>2, <1>4, <1>7, <3>3
      <4>4. r.time >= n.time
        BY <1>0, <4>1, <4>3 DEF Archive!Wins, Archive!Newer
      <4>5. ASSUME r.origin = "legacy_baseline", ~s.projected, s.kind = "current" PROVE r.time > s.time
        <5>1. rule = "backfill" /\ origin = "legacy_current"
          BY <1>0, <1>1, <4>5 DEF Archive!Origin
        <5>2. ~(n.time = r.time)
          BY <1>0, <4>1, <4>3, <4>5, <5>1 DEF Archive!Wins
        <5>3. QED BY <1>0, <4>3, <4>4, <5>2
      <4>6. Outranks(r, s)
        BY <1>0, <4>3, <4>4, <4>5 DEF Outranks
      <4>7. QED BY <1>0, <1>1, <3>1, <4>1, <4>2, <4>6
    <3>6. QED BY <1>0, <3>4, <3>5
  <2>4. QED BY <1>0, <2>2, <2>3
<1>10. R \subseteq DayRows
  BY <1>0, <1>4, <1>6, <1>7
<1>11. QED BY <1>0, <1>6, <1>8, <1>9, <1>10 DEF Latest

ArchiveInv ==
  /\ snapshots \in Seq(SnapshotSet) /\ position \in 0..Len(snapshots) /\ promoted \in BOOLEAN
  /\ Latest(archive, snapshots, position, promoted)

LEMMA GivenIs ==
  ASSUME ArchiveInv
  PROVE  \A key, d : Archive!Given(key, d) =
             {i \in Takes(snapshots, position, d) : snapshots[i].key = key \/ (promoted /\ key = "real")}
<1>1. DOMAIN snapshots = 1..Len(snapshots)
  BY DEF ArchiveInv
<1>2. QED BY <1>1 DEF Archive!Given, Takes

(* A row under the old key is as new as those of the real one. *)
Behind(d) ==
  promoted /\ \E r \in archive : r.key = "pending" /\ r.day = d /\
      \A q \in archive : q.key = "real" /\ q.day = d => ~(q.time > r.time)

LEMMA ArchiveSafe == ArchiveInv /\ ArchiveDays \subseteq Nat => Archive!ArchiveIsLatest
<1>. SUFFICES ASSUME ArchiveInv, ArchiveDays \subseteq Nat PROVE Archive!ArchiveIsLatest
  OBVIOUS
<1>. SUFFICES ASSUME NEW d \in ArchiveDays, NEW key \in Archive!Keys, ~Behind(d), ~(promoted /\ key = "pending")
              PROVE  LET given == Archive!Given(key, d)
                         own == {r \in archive : r.key = key /\ r.day = d}
                     IN  /\ (own = {}) = (given = {})
                         /\ \A r \in own :
                               /\ r.id \in given /\ \A i \in given : snapshots[i].time <= r.time
                               /\ r.origin = "legacy_baseline" =>
                                     ~\E i \in given : ~snapshots[i].projected /\ snapshots[i].kind = "current"
                                                       /\ snapshots[i].time = r.time
  BY DEF Archive!ArchiveIsLatest, Archive!LeftBehind, Archive!Newer, Behind
<1>0. PICK given, own : given = Archive!Given(key, d) /\ own = {r \in archive : r.key = key /\ r.day = d} /\ d \in Nat
  OBVIOUS
<1>1. \A i : i \in given <=> i \in Takes(snapshots, position, d) /\ (snapshots[i].key = key \/ (promoted /\ key = "real"))
  BY <1>0, GivenIs
<1>2. Latest(archive, snapshots, position, promoted) /\ promoted \in BOOLEAN /\ key \in {"pending", "real"}
  BY DEF ArchiveInv, Archive!Keys
<1>3. ASSUME NEW r \in own PROVE r.id \in given
  BY <1>0, <1>1, <1>2 DEF Latest
<1>4. \A r \in archive : r.day \in Nat /\ r.time \in Nat /\ r.kind = "day" /\ r.key \in {"pending", "real"}
  BY <1>2 DEF Latest, DayRows, Archive!Keys
<1>5. \A r, q \in own : r = q
  BY <1>0, <1>2, <1>4 DEF Latest, OneEach, Archive!SameDay
(* Of all rows of the day, one of the own outranks what is given. *)
<1>6. ASSUME NEW i \in given
      PROVE  \E r \in own : snapshots[i].time <= r.time /\
                (r.origin = "legacy_baseline" /\ ~snapshots[i].projected /\ snapshots[i].kind = "current" => snapshots[i].time # r.time)
  <2>1. PICK x \in archive : x.day = d /\ Outranks(x, snapshots[i]) /\ (promoted \/ x.key = snapshots[i].key)
    BY <1>0, <1>1, <1>2 DEF Latest
  <2>2. snapshots[i].time \in Nat /\ x.time \in Nat
    <3>1. i \in 1..Len(snapshots)
      BY <1>1 DEF Takes
    <3>2. snapshots[i] \in SnapshotSet
      BY <3>1, ElementOfSeq DEF ArchiveInv
    <3>3. QED BY <1>4, <3>2 DEF SnapshotSet
  <2>3. CASE x.key = key
    BY <1>0, <2>1, <2>2, <2>3 DEF Outranks
  <2>4. CASE x.key # key
    <3>1. promoted /\ key = "real" /\ x.key = "pending"
      BY <1>1, <1>2, <1>4, <2>1, <2>4
    <3>2. PICK q \in archive : q.key = "real" /\ q.day = d /\ q.time > x.time
      BY <2>1, <3>1 DEF Behind
    <3>3. q.time \in Nat /\ q \in own
      BY <1>0, <1>4, <3>1, <3>2
    <3>4. snapshots[i].time < q.time
      BY <2>1, <2>2, <3>2, <3>3 DEF Outranks
    <3>5. QED BY <2>2, <3>3, <3>4
  <2>5. QED BY <2>3, <2>4
<1>7. (own = {}) = (given = {})
  BY <1>3, <1>6
<1>8. ASSUME NEW r \in own
      PROVE  /\ r.id \in given /\ \A i \in given : snapshots[i].time <= r.time
             /\ r.origin = "legacy_baseline" =>
                   ~\E i \in given : ~snapshots[i].projected /\ snapshots[i].kind = "current" /\ snapshots[i].time = r.time
  BY <1>3, <1>5, <1>6
<1>9. QED BY <1>0, <1>7, <1>8

LEMMA ObservationsAre ==
  ASSUME ArchiveDays \subseteq Nat
  PROVE  \A s \in Observations : s \in SnapshotSet /\ s.projected = TRUE
<1>1. 1 \in Nat /\ {1} \subseteq Nat /\ {2, 3, 4} \subseteq Nat /\ 3 \in Nat
  OBVIOUS
<1>2. QED BY <1>1 DEF Observations, SnapshotSet, Kinds, Archive!Keys

(* The times of snapshots that have been written do not change. *)
LEMMA SaveKeeps ==
  ASSUME ArchiveInv, ArchiveDays \subseteq Nat, NEW s \in Observations, Archive!Save(s)
  PROVE  ArchiveInv'
<1>1. s \in SnapshotSet /\ s.projected = TRUE
  BY ObservationsAre
<1>2. PICK n, R, N, more, ds : /\ n = Len(snapshots) /\ R = archive' /\ more = Append(snapshots, s) /\ ds = Archive!Archived(s)
                            /\ N = {RowFor(s, n + 1, d, "accepted") : d \in ds}
  OBVIOUS
<1>3. /\ more \in Seq(SnapshotSet) /\ n \in Nat /\ Len(more) = n + 1 /\ more[n + 1] = s
      /\ \A i \in 1..n : more[i] = snapshots[i]
  BY <1>1, <1>2, AppendProperties, LenProperties DEF ArchiveInv
<1>4. ds \in SUBSET Nat
  BY <1>1, <1>2 DEF SnapshotSet, Archive!Archived
<1>5. /\ snapshots' = more /\ position' = position /\ promoted' = promoted
      /\ R = Archive!Upserted(archive, N, "newest") /\ \A r : r \in N <=> \E d \in ds : r = RowFor(more[n + 1], n + 1, d, "accepted")
  <2>1. /\ snapshots' = more /\ position' = position /\ promoted' = promoted
        /\ R = Archive!Upserted(archive, N, "newest")
    BY <1>2 DEF Archive!Save, RowFor
  <2>2. QED BY <1>2, <1>3, <2>1
<1>6. ASSUME NEW d \in Nat
      PROVE  Takes(more, position, d) = Takes(snapshots, position, d) \cup (IF d \in ds THEN {n + 1} ELSE {})
  <2>1. Takes(more, position, d) \subseteq 1..(n + 1) /\ Takes(snapshots, position, d) \subseteq 1..n
    BY <1>2, <1>3 DEF Takes
  <2>2. \A i \in 1..n : i \in Takes(more, position, d) <=> i \in Takes(snapshots, position, d)
    BY <1>2, <1>3 DEF Takes
  <2>3. n + 1 \in Takes(more, position, d) <=> d \in ds
    BY <1>1, <1>2, <1>3 DEF Takes
  <2>4. QED BY <1>3, <2>1, <2>2, <2>3
<1>7. Latest(archive, snapshots, position, promoted) /\ promoted \in BOOLEAN
  BY DEF ArchiveInv
<1>8. Latest(R, more, position, promoted)
  <2>1. n + 1 \in 1..Len(more) /\ Len(snapshots) <= Len(more) /\ Len(snapshots) \in Nat
    BY <1>2, <1>3
  <2>2. Writes(archive, snapshots, position, more, position, n + 1, ds, "accepted", "newest", N, R)
    BY <1>1, <1>2, <1>3, <1>4, <1>5, <1>6, <2>1 DEF Writes
  <2>3. QED BY <1>7, <2>2, DaysWritten
<1>9. position \in 0..Len(more)
  BY <1>2, <1>3 DEF ArchiveInv
<1>10. QED BY <1>2, <1>3, <1>5, <1>7, <1>8, <1>9 DEF ArchiveInv

Worked(f, last) ==
  f = [id \in position..last |->
          IF id = position THEN archive ELSE Archive!Upserted(f[id - 1], Archive!DaysOf(id), "backfill")]

LEMMA WorkedExists ==
  ASSUME position \in Nat, NEW k \in Nat
  PROVE  \E f : Worked(f, position + k)
<1>. DEFINE Bad == {m \in Nat : ~\E f : Worked(f, position + m)}
<1>1. SUFFICES ASSUME Bad # {} PROVE FALSE
  OBVIOUS
<1>2. PICK m \in Bad : \A n \in Bad : m <= n
  BY <1>1, SmallestExists
<1>3. CASE m = 0
  <2>1. position..(position + m) = {position}
    BY <1>3
  <2>. DEFINE f == [id \in position..(position + m) |-> archive]
  <2>2. f = [id \in position..(position + m) |->
               IF id = position THEN archive ELSE Archive!Upserted(f[id - 1], Archive!DaysOf(id), "backfill")]
    BY <2>1
  <2>. HIDE DEF f
  <2>3. QED BY <1>2, <2>2 DEF Worked
<1>4. CASE m # 0
  <2>1. m - 1 \in Nat /\ m - 1 \notin Bad
    BY <1>2, <1>4
  <2>2. PICK f : Worked(f, position + (m - 1))
    BY <2>1
  <2>. DEFINE top == position + m
              F == [id \in position..top |->
                      IF id = top THEN Archive!Upserted(f[id - 1], Archive!DaysOf(id), "backfill") ELSE f[id]]
  <2>3. ASSUME NEW id \in position..top
        PROVE  F[id] = IF id = position THEN archive
                       ELSE Archive!Upserted(F[id - 1], Archive!DaysOf(id), "backfill")
    <3>1. CASE id = top
      <4>1. id # position /\ id - 1 \in position..top /\ id - 1 # top
        BY <1>2, <1>4, <3>1
      <4>2. F[id - 1] = f[id - 1]
        BY <4>1
      <4>3. QED BY <3>1, <4>1, <4>2
    <3>2. CASE id # top
      <4>1. id \in position..(position + (m - 1))
        BY <1>2, <3>2
      <4>2. f[id] = IF id = position THEN archive
                    ELSE Archive!Upserted(f[id - 1], Archive!DaysOf(id), "backfill")
        BY <2>2, <4>1 DEF Worked
      <4>3. id # position => id - 1 \in position..top /\ id - 1 # top
        BY <4>1, <1>2
      <4>4. F[id] = f[id] /\ (id # position => F[id - 1] = f[id - 1])
        BY <3>2, <4>3
      <4>5. QED BY <4>2, <4>4
    <3>3. QED BY <3>1, <3>2
  <2>4. F = [id \in position..top |-> F[id]]
    OBVIOUS
  <2>. HIDE DEF F
  <2>5. F = [id \in position..top |->
               IF id = position THEN archive ELSE Archive!Upserted(F[id - 1], Archive!DaysOf(id), "backfill")]
    BY <2>3, <2>4
  <2>6. QED BY <1>2, <2>5 DEF Worked
<1>5. QED BY <1>3, <1>4

LEMMA WorkedOffIs ==
  ASSUME position \in Nat, NEW last \in Nat, position <= last
  PROVE  \E f : Worked(f, last) /\ Archive!WorkedOff(last) = f[last]
<1>. DEFINE f == CHOOSE F : Worked(F, last)
<1>1. last = position + (last - position) /\ last - position \in Nat
  OBVIOUS
<1>2. \E F : Worked(F, last)
  BY <1>1, WorkedExists
<1>3. Worked(f, last)
  BY <1>2
<1>4. Archive!WorkedOff(last) = f[last]
  BY DEF Archive!WorkedOff, Worked
<1>. HIDE DEF f
<1>5. QED BY <1>3, <1>4

(* The backfill writes the days of one snapshot after the other. *)
LEMMA WorkedOffKeeps ==
  ASSUME ArchiveInv, NEW last \in position..Len(snapshots)
  PROVE  Latest(Archive!WorkedOff(last), snapshots, last, promoted)
<1>1. position \in Nat /\ Len(snapshots) \in Nat /\ snapshots \in Seq(SnapshotSet) /\ position <= last /\ last \in Nat
      /\ Latest(archive, snapshots, position, promoted) /\ promoted \in BOOLEAN
  BY LenProperties DEF ArchiveInv
<1>2. PICK f : Worked(f, last) /\ Archive!WorkedOff(last) = f[last]
  BY <1>1, WorkedOffIs
<1>3. \A id \in position..last :
        f[id] = IF id = position THEN archive ELSE Archive!Upserted(f[id - 1], Archive!DaysOf(id), "backfill")
  BY <1>2 DEF Worked
<1>. DEFINE Bad == {id \in position..last : ~Latest(f[id], snapshots, id, promoted)}
<1>4. SUFFICES ASSUME Bad # {} PROVE FALSE
  BY <1>1, <1>2
<1>5. PICK id \in Bad : \A i \in Bad : id <= i
  <2>1. Bad \subseteq Nat
    BY <1>1
  <2>. HIDE DEF Bad
  <2>2. QED BY <1>4, <2>1, SmallestExists
<1>6. id # position
  BY <1>1, <1>3, <1>5
<1>7. /\ id \in 1..Len(snapshots) /\ id - 1 \in position..last /\ id - 1 \notin Bad
      /\ f[id] = Archive!Upserted(f[id - 1], Archive!DaysOf(id), "backfill")
  BY <1>1, <1>3, <1>5, <1>6
<1>8. PICK T, R, N, ds, origin :
         /\ T = f[id - 1] /\ R = f[id] /\ ds = (IF Archive!Backfilled(snapshots[id]) THEN snapshots[id].days ELSE {})
         /\ N = Archive!DaysOf(id) /\ origin = Archive!Origin(snapshots[id])
  OBVIOUS
<1>9. Latest(T, snapshots, id - 1, promoted)
  BY <1>7, <1>8
<1>10. /\ R = Archive!Upserted(T, N, "backfill") /\ origin = Archive!Origin(snapshots[id])
       /\ \A n : n \in N <=> \E d \in ds : n = RowFor(snapshots[id], id, d, origin)
  <2>1. N = {RowFor(snapshots[id], id, d, origin) : d \in ds}
    BY <1>8 DEF Archive!DaysOf, RowFor
  <2>2. QED BY <1>7, <1>8, <2>1
<1>11. snapshots[id] \in SnapshotSet /\ ds \in SUBSET Nat
  <2>1. snapshots[id] \in SnapshotSet
    BY <1>1, <1>7, ElementOfSeq
  <2>2. QED BY <1>8, <2>1 DEF SnapshotSet
<1>12. ASSUME NEW d \in Nat
       PROVE  Takes(snapshots, id, d) = Takes(snapshots, id - 1, d) \cup (IF d \in ds THEN {id} ELSE {})
  <2>1. \A i \in 1..Len(snapshots) : i <= id <=> i <= id - 1 \/ i = id
    BY <1>1, <1>7
  <2>2. \A i \in 1..Len(snapshots) : i \in Takes(snapshots, id, d) <=> i \in Takes(snapshots, id - 1, d) \/ (i = id /\ d \in ds)
    BY <1>7, <1>8, <2>1 DEF Takes, Archive!Backfilled
  <2>3. Takes(snapshots, id, d) \subseteq 1..Len(snapshots) /\ Takes(snapshots, id - 1, d) \subseteq 1..Len(snapshots)
    BY DEF Takes
  <2>4. QED BY <1>7, <2>2, <2>3
<1>13. Latest(R, snapshots, id, promoted)
  <2>1. Len(snapshots) <= Len(snapshots) /\ \A i \in 1..Len(snapshots) : snapshots[i] = snapshots[i]
    BY <1>1
  <2>2. Writes(T, snapshots, id - 1, snapshots, id, id, ds, origin, "backfill", N, R)
    BY <1>1, <1>7, <1>10, <1>11, <1>12, <2>1 DEF Writes
  <2>3. QED BY <1>1, <1>9, <2>2, DaysWritten
<1>14. QED BY <1>5, <1>8, <1>13

LEMMA RunBatchKeeps ==
  ASSUME ArchiveInv, BatchLimit \in Nat, Archive!RunBatch
  PROVE  ArchiveInv'
<1>1. PICK last : /\ last = (IF position + BatchLimit < Len(snapshots) THEN position + BatchLimit ELSE Len(snapshots))
                  /\ archive' = Archive!WorkedOff(last) /\ position' = last
  BY DEF Archive!RunBatch
<1>2. UNCHANGED <<snapshots, promoted>>
  BY DEF Archive!RunBatch
<1>3. last \in position..Len(snapshots) /\ last \in 0..Len(snapshots)
  BY <1>1, LenProperties DEF ArchiveInv
<1>4. Latest(Archive!WorkedOff(last), snapshots, last, promoted)
  BY <1>3, WorkedOffKeeps
<1>5. QED BY <1>1, <1>2, <1>3, <1>4 DEF ArchiveInv

(* A row under the real key. *)
Real(r) == [r EXCEPT !.key = "real"]

LEMMA RealIs ==
  ASSUME NEW S \in {DayRows, ReferenceRows}, NEW r \in S
  PROVE  /\ Real(r) \in S /\ Real(r).key = "real" /\ Real(r).day = r.day /\ Real(r).kind = r.kind
         /\ Real(r).id = r.id /\ Real(r).time = r.time
         /\ r \in DayRows => Real(r).origin = r.origin
<1>1. CASE r \in DayRows /\ S = DayRows
  BY <1>1 DEF Real, DayRows, Archive!Keys
<1>2. CASE r \in ReferenceRows /\ S = ReferenceRows
  <2>1. r \notin DayRows
    BY <1>2 DEF ReferenceRows, DayRows
  <2>2. QED BY <1>2, <2>1 DEF Real, ReferenceRows, Archive!Keys
<1>3. QED BY <1>1, <1>2

(* UPDATE OR IGNORE: the rows are there as before, some under the real key. *)
LEMMA RenamedIs ==
  ASSUME NEW S \in {DayRows, ReferenceRows}, NEW T, T \subseteq S, OneEach(T), NEW R, R = Archive!Renamed(T)
  PROVE  /\ OneEach(R) /\ R \subseteq S
         /\ \A r \in T : \E q \in R : q = r \/ q = Real(r)
         /\ \A q \in R : \E r \in T : q = r \/ q = Real(r)
<1>. DEFINE Moves(r) == r.key = "pending" /\ ~\E q \in T : Archive!SameDay(q, Real(r))
<1>1. R = {IF Moves(r) THEN Real(r) ELSE r : r \in T}
  BY DEF Archive!Renamed, Real
<1>2. \A q \in R : \E r \in T : (Moves(r) /\ q = Real(r)) \/ (~Moves(r) /\ q = r)
  BY <1>1
<1>3. \A r \in T : \E q \in R : q = r \/ q = Real(r)
  BY <1>1
<1>4. R \subseteq S
  BY <1>2, RealIs
<1>5. ASSUME NEW q \in R, NEW p \in R, Archive!SameDay(q, p) PROVE q = p
  <2>1. PICK r \in T : (Moves(r) /\ q = Real(r)) \/ (~Moves(r) /\ q = r)
    BY <1>2
  <2>2. PICK x \in T : (Moves(x) /\ p = Real(x)) \/ (~Moves(x) /\ p = x)
    BY <1>2
  <2>3. Archive!SameDay(p, q)
    BY <1>5 DEF Archive!SameDay
  <2>4. CASE ~Moves(r) /\ ~Moves(x)
    BY <1>5, <2>1, <2>2, <2>4 DEF OneEach
  <2>5. CASE Moves(r) /\ Moves(x)
    <3>1. r.key = "pending" /\ x.key = "pending" /\ q = Real(r) /\ p = Real(x)
      BY <2>1, <2>2, <2>5
    <3>2. r.day = x.day /\ r.kind = x.kind
      BY <1>5, <3>1, RealIs DEF Archive!SameDay
    <3>3. r = x
      BY <3>1, <3>2 DEF OneEach, Archive!SameDay
    <3>4. QED BY <3>1, <3>3
  <2>6. CASE Moves(r) /\ ~Moves(x)
    BY <2>1, <2>2, <2>3, <2>6
  <2>7. CASE ~Moves(r) /\ Moves(x)
    BY <1>5, <2>1, <2>2, <2>7
  <2>8. QED BY <2>4, <2>5, <2>6, <2>7
<1>6. QED BY <1>2, <1>3, <1>4, <1>5 DEF OneEach

LEMMA LargestExists ==
  ASSUME NEW n \in Nat, NEW S, S \subseteq 1..n, S # {}
  PROVE  \E i \in S : \A j \in S : j <= i
<1>. DEFINE others == {m \in Nat : \A j \in S : j <= m}
<1>1. n \in others
  OBVIOUS
<1>2. PICK m \in others : \A k \in others : m <= k
  <2>1. others \subseteq Nat /\ others # {}
    BY <1>1
  <2>. HIDE DEF others
  <2>2. QED BY <2>1, SmallestExists
<1>3. m \in S
  <2>1. SUFFICES ASSUME m \notin S PROVE FALSE
    OBVIOUS
  <2>2. PICK j \in S : TRUE
    OBVIOUS
  <2>3. m \in Nat /\ j <= m /\ j \in 1..n
    BY <1>2
  <2>4. m - 1 \in Nat /\ \A k \in S : k <= m - 1
    <3>1. m >= 1
      BY <2>3
    <3>2. ASSUME NEW k \in S PROVE k <= m - 1
      <4>1. k <= m /\ k # m /\ k \in 1..n
        BY <1>2, <2>1
      <4>2. QED BY <2>3, <4>1
    <3>3. QED BY <2>3, <3>1, <3>2
  <2>5. m - 1 \in others
    BY <2>4
  <2>6. m <= m - 1
    BY <1>2, <2>5
  <2>7. QED BY <2>3, <2>6
<1>4. QED BY <1>2, <1>3

(* The copies of a teacher's last snapshots have given nothing yet. *)
LEMMA CopiesAre ==
  ASSUME snapshots \in Seq(SnapshotSet)
  PROVE  /\ Archive!Copies \in Seq(SnapshotSet)
         /\ \A i \in 1..Len(Archive!Copies) : Archive!Copies[i].projected = FALSE
<1>. DEFINE From(key, kind) == {i \in DOMAIN snapshots : snapshots[i].key = key /\ snapshots[i].kind = kind}
            Last(kind) == CHOOSE i \in From("pending", kind) : \A j \in From("pending", kind) : j <= i
            Copied(kind) ==
              IF From("real", kind) # {} \/ From("pending", kind) = {} THEN <<>>
              ELSE <<[snapshots[Last(kind)] EXCEPT !.key = "real", !.projected = FALSE]>>
            Bare == {s \in SnapshotSet : s.projected = FALSE}
<1>1. Archive!Copies = Copied("current") \o Copied("daily_baseline")
  BY DEF Archive!Copies
<1>2. ASSUME NEW kind PROVE Copied(kind) \in Seq(Bare)
  <2>1. CASE From("real", kind) # {} \/ From("pending", kind) = {}
    <3>1. Copied(kind) = <<>>
      BY <2>1
    <3>2. QED BY <3>1, EmptySeq
  <2>2. CASE ~(From("real", kind) # {} \/ From("pending", kind) = {})
    <3>1. From("pending", kind) \subseteq 1..Len(snapshots) /\ Len(snapshots) \in Nat
      BY LenProperties
    <3>2. \E i \in From("pending", kind) : \A j \in From("pending", kind) : j <= i
      <4>. DEFINE own == From("pending", kind)
      <4>1. own \subseteq 1..Len(snapshots) /\ own # {}
        BY <2>2, <3>1
      <4>. HIDE DEF own
      <4>2. \E i \in own : \A j \in own : j <= i
        BY <3>1, <4>1, LargestExists
      <4>3. QED BY <4>2 DEF own
    <3>3. Last(kind) \in 1..Len(snapshots)
      BY <3>1, <3>2
    <3>. HIDE DEF Last
    <3>4. snapshots[Last(kind)] \in SnapshotSet
      BY <3>3, ElementOfSeq
    <3>5. [snapshots[Last(kind)] EXCEPT !.key = "real", !.projected = FALSE] \in Bare
      BY <3>4 DEF SnapshotSet, Archive!Keys
    <3>6. Copied(kind) = <<[snapshots[Last(kind)] EXCEPT !.key = "real", !.projected = FALSE]>>
      BY <2>2
    <3>. HIDE DEF Bare
    <3>7. QED BY <3>5, <3>6
  <2>3. QED BY <2>1, <2>2
<1>. HIDE DEF Copied, Bare
<1>3. Archive!Copies \in Seq(Bare)
  BY <1>1, <1>2, ConcatProperties
<1>4. \A i \in 1..Len(Archive!Copies) : Archive!Copies[i] \in Bare
  BY <1>3, ElementOfSeq
<1>5. Bare \subseteq SnapshotSet /\ \A s \in Bare : s.projected = FALSE
  BY DEF Bare
<1>6. Archive!Copies \in Seq(SnapshotSet)
  BY <1>3, <1>5, SeqMonotonic
<1>7. QED BY <1>4, <1>5, <1>6

(* The snapshots after a promotion. *)
CopiesAdded(more) == \E teacher \in BOOLEAN : more = snapshots \o (IF teacher THEN Archive!Copies ELSE <<>>)

LEMMA CopiesFollow ==
  ASSUME snapshots \in Seq(SnapshotSet), NEW n, n = Len(snapshots), NEW more, CopiesAdded(more)
  PROVE  /\ more \in Seq(SnapshotSet) /\ Len(more) \in Nat /\ n \in Nat /\ n <= Len(more)
         /\ \A i \in 1..n : more[i] = snapshots[i]
         /\ \A i \in 1..Len(more) : i \notin 1..n => more[i].projected = FALSE
<1>0. PICK teacher \in BOOLEAN : \E copies : copies = (IF teacher THEN Archive!Copies ELSE <<>>) /\ more = snapshots \o copies
  BY DEF CopiesAdded
<1>. PICK copies : copies = (IF teacher THEN Archive!Copies ELSE <<>>) /\ more = snapshots \o copies
  BY <1>0
<1>1. copies \in Seq(SnapshotSet) /\ \A i \in 1..Len(copies) : copies[i].projected = FALSE
  <2>1. CASE teacher
    BY <1>0, <2>1, CopiesAre
  <2>2. CASE ~teacher
    <3>1. copies = <<>>
      BY <1>0, <2>2
    <3>2. Len(<<>>) = 0 /\ <<>> \in Seq(SnapshotSet) /\ 1..0 = {}
      BY ONLY EmptySeq
    <3>3. QED BY <3>1, <3>2
  <2>3. QED BY <2>1, <2>2
<1>2. /\ more \in Seq(SnapshotSet) /\ Len(copies) \in Nat /\ n \in Nat /\ Len(more) = n + Len(copies)
      /\ \A i \in 1..Len(more) : more[i] = IF i <= n THEN snapshots[i] ELSE copies[i - n]
  BY <1>0, <1>1, ConcatProperties, LenProperties
<1>3. \A i \in 1..n : more[i] = snapshots[i]
  <2>1. \A i \in 1..n : i \in 1..Len(more) /\ i <= n
    BY <1>2
  <2>2. QED BY <1>2, <2>1
<1>4. ASSUME NEW i \in 1..Len(more), i \notin 1..n PROVE more[i].projected = FALSE
  <2>1. i - n \in 1..Len(copies) /\ ~(i <= n)
    BY <1>2, <1>4
  <2>2. more[i] = copies[i - n]
    BY <1>2, <2>1
  <2>3. QED BY <1>1, <2>1, <2>2
<1>5. n <= Len(more) /\ Len(more) \in Nat
  BY <1>2
<1>6. QED BY <1>2, <1>3, <1>4, <1>5

LEMMA PromotedDays ==
  ASSUME ArchiveInv, NEW teacher \in BOOLEAN, Archive!Promote(teacher)
  PROVE  ArchiveInv'
<1>1. PICK n, R, more : n = Len(snapshots) /\ R = archive' /\ more = snapshots'
  OBVIOUS
<1>2. /\ R = Archive!Renamed(archive) /\ CopiesAdded(more) /\ position' = position
      /\ promoted' = TRUE /\ promoted = FALSE
  BY <1>1 DEF Archive!Promote, ArchiveInv, CopiesAdded
<1>3. snapshots \in Seq(SnapshotSet) /\ n \in Nat /\ position \in 0..n /\ Latest(archive, snapshots, position, FALSE)
  BY <1>1, <1>2, LenProperties DEF ArchiveInv
<1>4. /\ more \in Seq(SnapshotSet) /\ Len(more) \in Nat /\ n <= Len(more)
      /\ \A i \in 1..n : more[i] = snapshots[i]
      /\ \A i \in 1..Len(more) : i \notin 1..n => more[i].projected = FALSE
  BY <1>1, <1>2, <1>3, CopiesFollow
<1>5. ASSUME NEW d PROVE Takes(more, position, d) = Takes(snapshots, position, d)
  <2>1. \A i \in 1..n : i \in Takes(more, position, d) <=> i \in Takes(snapshots, position, d)
    BY <1>1, <1>3, <1>4 DEF Takes
  <2>2. ASSUME NEW i \in Takes(more, position, d) PROVE i \in 1..n
    <3>1. i \in 1..Len(more) /\ (i \notin 1..n => i <= position)
      BY <1>4 DEF Takes
    <3>2. QED BY <1>3, <1>4, <3>1
  <2>3. Takes(snapshots, position, d) \subseteq 1..n
    BY <1>1 DEF Takes
  <2>4. QED BY <2>1, <2>2, <2>3
<1>6. /\ OneEach(R) /\ R \subseteq DayRows
      /\ \A r \in archive : \E q \in R : q = r \/ q = Real(r)
      /\ \A q \in R : \E r \in archive : q = r \/ q = Real(r)
  <2>1. archive \subseteq DayRows /\ OneEach(archive) /\ DayRows \in {DayRows, ReferenceRows}
    BY <1>3 DEF Latest
  <2>2. QED BY <1>2, <2>1, RenamedIs
<1>7. \A r \in archive : Real(r).day = r.day /\ Real(r).id = r.id /\ Real(r).time = r.time /\ Real(r).origin = r.origin
  BY <1>3, RealIs DEF Latest
<1>8. ASSUME NEW q \in R PROVE q.id \in Takes(more, position, q.day) /\ q.time = more[q.id].time
  <2>1. PICK r \in archive : q = r \/ q = Real(r)
    BY <1>6
  <2>2. q.id = r.id /\ q.day = r.day /\ q.time = r.time
    BY <1>7, <2>1
  <2>3. r.id \in Takes(snapshots, position, r.day) /\ r.time = snapshots[r.id].time
    BY <1>3 DEF Latest
  <2>4. r.id \in 1..n
    BY <1>1, <2>3 DEF Takes
  <2>5. QED BY <1>4, <1>5, <2>2, <2>3, <2>4
<1>9. ASSUME NEW d \in Nat, NEW i \in Takes(more, position, d) PROVE \E q \in R : q.day = d /\ Outranks(q, more[i])
  <2>1. i \in Takes(snapshots, position, d)
    BY <1>5
  <2>2. i \in 1..n
    BY <1>1, <2>1 DEF Takes
  <2>3. PICK r \in archive : r.day = d /\ Outranks(r, snapshots[i])
    BY <1>3, <2>1 DEF Latest
  <2>4. PICK q \in R : q = r \/ q = Real(r)
    BY <1>6
  <2>5. q.day = d /\ q.time = r.time /\ q.origin = r.origin
    BY <1>7, <2>3, <2>4
  <2>6. Outranks(q, more[i])
    BY <1>4, <2>2, <2>3, <2>5 DEF Outranks
  <2>7. QED BY <2>5, <2>6
<1>10. Latest(R, more, position, TRUE)
  BY <1>6, <1>8, <1>9 DEF Latest
<1>11. position \in 0..Len(more)
  BY <1>3, <1>4
<1>12. QED BY <1>1, <1>2, <1>4, <1>4, <1>10, <1>11 DEF ArchiveInv

LEMMA ArchiveStep ==
  ASSUME ArchiveInv, ArchiveDays \subseteq Nat, BatchLimit \in Nat, [Archive!Next]_archiveVars
  PROVE  ArchiveInv'
<1>1. ASSUME NEW s \in Observations, Archive!Save(s) PROVE ArchiveInv'
  BY <1>1, SaveKeeps
<1>2. CASE Archive!RunBatch
  BY <1>2, RunBatchKeeps
<1>3. CASE Archive!Restart \/ UNCHANGED archiveVars
  BY <1>3 DEF ArchiveInv, Archive!Restart, archiveVars
<1>4. ASSUME NEW teacher \in BOOLEAN, Archive!Promote(teacher) PROVE ArchiveInv'
  BY <1>4, PromotedDays
<1>5. QED BY <1>1, <1>2, <1>3, <1>4 DEF Archive!Next

LEMMA HistoriesAre == \A hs \in Histories : hs \in Seq(SnapshotSet) /\ \A i \in 1..Len(hs) : hs[i].projected = FALSE
<1>1. \A key \in {"pending", "real"}, time \in Nat, kind \in Kinds, days \in SUBSET Nat :
        Old(key, time, kind, days) \in SnapshotSet /\ Old(key, time, kind, days).projected = FALSE
  BY DEF Old, SnapshotSet, Archive!Keys
<1>2. /\ Old("real", 2, "daily_baseline", {1, 2}) \in SnapshotSet /\ Old("real", 2, "current", {1}) \in SnapshotSet
      /\ Old("pending", 3, "current", {1}) \in SnapshotSet /\ Old("real", 3, "other", {2}) \in SnapshotSet
      /\ Old("real", 2, "daily_baseline", {1, 2}).projected = FALSE /\ Old("real", 2, "current", {1}).projected = FALSE
      /\ Old("pending", 3, "current", {1}).projected = FALSE /\ Old("real", 3, "other", {2}).projected = FALSE
  <2>1. /\ "real" \in {"pending", "real"} /\ "pending" \in {"pending", "real"} /\ 2 \in Nat /\ 3 \in Nat
        /\ {1, 2} \in SUBSET Nat /\ {1} \in SUBSET Nat /\ {2} \in SUBSET Nat
        /\ "daily_baseline" \in Kinds /\ "current" \in Kinds /\ "other" \in Kinds
    BY DEF Kinds
  <2>2. QED BY <1>1, <2>1
<1>3. ASSUME NEW x \in SnapshotSet, NEW y \in SnapshotSet, ~x.projected, ~y.projected,
             x.projected \in BOOLEAN, y.projected \in BOOLEAN, NEW hs, hs = <<x, y>>
      PROVE  hs \in Seq(SnapshotSet) /\ \A i \in 1..Len(hs) : hs[i].projected = FALSE
  <2>1. hs \in Seq(SnapshotSet) /\ Len(hs) = 2 /\ hs[1] = x /\ hs[2] = y
    BY <1>3
  <2>2. \A i \in 1..2 : i = 1 \/ i = 2
    OBVIOUS
  <2>3. QED BY <1>3, <2>1, <2>2
<1>4. <<>> \in Seq(SnapshotSet) /\ \A i \in 1..Len(<<>>) : <<>>[i].projected = FALSE
  BY EmptySeq
<1>5. PICK b, c, p, o : /\ b = Old("real", 2, "daily_baseline", {1, 2}) /\ c = Old("real", 2, "current", {1})
                       /\ p = Old("pending", 3, "current", {1}) /\ o = Old("real", 3, "other", {2})
  OBVIOUS
<1>6. <<b, c>> \in Seq(SnapshotSet) /\ \A i \in 1..Len(<<b, c>>) : <<b, c>>[i].projected = FALSE
  BY ONLY <1>2, <1>3, <1>5
<1>7. <<p, o>> \in Seq(SnapshotSet) /\ \A i \in 1..Len(<<p, o>>) : <<p, o>>[i].projected = FALSE
  BY ONLY <1>2, <1>3, <1>5
<1>8. Histories = {<<>>, <<b, c>>, <<p, o>>}
  BY <1>5 DEF Histories
<1>9. QED BY ONLY <1>4, <1>6, <1>7, <1>8

LEMMA ArchiveStart == Archive!Init => ArchiveInv
<1>. SUFFICES ASSUME Archive!Init PROVE ArchiveInv
  OBVIOUS
<1>1. snapshots \in Histories /\ archive = {} /\ position = 0 /\ promoted = FALSE
  BY DEF Archive!Init
<1>2. snapshots \in Seq(SnapshotSet) /\ Len(snapshots) \in Nat /\ \A i \in 1..Len(snapshots) : snapshots[i].projected = FALSE
  BY <1>1, HistoriesAre, LenProperties
<1>3. \A d : Takes(snapshots, 0, d) = {}
  BY <1>2 DEF Takes
<1>4. Latest({}, snapshots, 0, FALSE)
  BY <1>3 DEF Latest, OneEach
<1>5. Latest(archive, snapshots, position, promoted)
  BY <1>1, <1>4
<1>6. position \in 0..Len(snapshots) /\ promoted \in BOOLEAN
  <2>1. Len(snapshots) \in Nat
    BY <1>2
  <2>2. 0 \in 0..Len(snapshots)
    BY ONLY <2>1
  <2>3. QED BY ONLY <1>1, <2>2
<1>7. QED BY <1>2, <1>5, <1>6 DEF ArchiveInv

-----------------------------------------------------------------------------
(* The references of days *)

Notes == {"first_seen", "day_start"}

(* The snapshots that are an observation of the day of this kind. *)
Noted(snaps, d, k) ==
  {i \in 1..Len(snaps) : snaps[i].projected /\ d \in Archive!Archived(snaps[i]) /\ k \in Archive!ReferenceKinds(snaps[i], d)}

(* As for the archive, but no row is younger than what was noted. *)
Earliest(T, snaps, free) ==
  /\ T \subseteq ReferenceRows /\ OneEach(T)
  /\ \A r \in T : r.id \in Noted(snaps, r.day, r.kind) /\ r.time = snaps[r.id].time /\ (free \/ r.key = snaps[r.id].key)
  /\ \A d \in Nat, k \in Notes : \A i \in Noted(snaps, d, k) :
        \E r \in T : r.day = d /\ r.kind = k /\ r.time <= snaps[i].time /\ (free \/ r.key = snaps[i].key)

ReferencesInv == snapshots \in Seq(SnapshotSet) /\ promoted \in BOOLEAN /\ Earliest(references, snapshots, promoted)

ReferenceFor(snapshot, id, d, k) ==
  [key |-> snapshot.key, day |-> d, kind |-> k, id |-> id, time |-> snapshot.time]

(* The snapshot that is kept last, as id, is noted in the rows N. *)
WritesNotes(T, snaps, more, id, N, R) ==
  /\ snaps \in Seq(SnapshotSet) /\ more \in Seq(SnapshotSet) /\ id = Len(snaps) + 1 /\ Len(more) = id
  /\ \A i \in 1..Len(snaps) : more[i] = snaps[i]
  /\ \A n : n \in N <=> \E d \in Nat, k \in Notes : id \in Noted(more, d, k) /\ n = ReferenceFor(more[id], id, d, k)
  /\ R = Archive!Upserted(T, N, "earliest")

LEMMA ReferencesWritten ==
  ASSUME NEW T, NEW snaps, NEW free \in BOOLEAN, NEW more, NEW id, NEW N, NEW R,
         Earliest(T, snaps, free), WritesNotes(T, snaps, more, id, N, R)
  PROVE  Earliest(R, more, free)
<1>. /\ snaps \in Seq(SnapshotSet) /\ more \in Seq(SnapshotSet) /\ id = Len(snaps) + 1 /\ Len(more) = id
     /\ \A i \in 1..Len(snaps) : more[i] = snaps[i]
     /\ \A n : n \in N <=> \E d \in Nat, k \in Notes : id \in Noted(more, d, k) /\ n = ReferenceFor(more[id], id, d, k)
     /\ R = Archive!Upserted(T, N, "earliest")
  BY DEF WritesNotes
<1>0. Len(snaps) \in Nat /\ id \in Nat /\ id \in 1..Len(more) /\ Len(snaps) <= Len(more) /\ id \notin 1..Len(snaps)
  BY LenProperties
<1>1. PICK s : s = more[id]
  OBVIOUS
<1>2. s \in SnapshotSet /\ s.time \in Nat /\ s.key \in Archive!Keys
  <2>1. s \in SnapshotSet
    BY <1>0, <1>1, ElementOfSeq
  <2>2. QED BY <2>1 DEF SnapshotSet
<1>3. \A n \in N : /\ n \in ReferenceRows /\ n.day \in Nat /\ n.kind \in Notes /\ n.id = id /\ n.time = s.time /\ n.key = s.key
                   /\ n = ReferenceFor(s, id, n.day, n.kind) /\ id \in Noted(more, n.day, n.kind)
  BY <1>0, <1>1, <1>2 DEF ReferenceFor, ReferenceRows, Notes
<1>4. OneEach(N)
  BY <1>3 DEF OneEach, Archive!SameDay
<1>5. /\ OneEach(R) /\ R \subseteq T \cup N
      /\ \A r \in T : r \in R \/ \E n \in N : n \in R /\ Archive!SameDay(r, n) /\ Archive!Wins("earliest", n, r)
      /\ \A n \in N : n \in R \/ \E r \in T : r \in R /\ Archive!SameDay(r, n) /\ ~Archive!Wins("earliest", n, r)
  <2>1. OneEach(T)
    BY DEF Earliest
  <2>2. QED BY <1>4, <2>1, UpsertedIs
<1>6. \A n, r : Archive!Wins("earliest", n, r) <=> n.time < r.time
  BY DEF Archive!Wins, Archive!Earlier
<1>7. \A r \in T : r \in ReferenceRows /\ r.time \in Nat
  BY DEF Earliest, ReferenceRows
<1>8. ASSUME NEW d, NEW k
      PROVE  \A i \in 1..Len(snaps) : i \in 1..Len(more) /\ (i \in Noted(more, d, k) <=> i \in Noted(snaps, d, k))
  BY <1>0 DEF Noted
<1>9. ASSUME NEW r \in R
      PROVE  r.id \in Noted(more, r.day, r.kind) /\ r.time = more[r.id].time /\ (free \/ r.key = more[r.id].key)
  <2>1. CASE r \in T
    <3>1. r.id \in Noted(snaps, r.day, r.kind) /\ r.time = snaps[r.id].time /\ (free \/ r.key = snaps[r.id].key)
      BY <2>1 DEF Earliest
    <3>2. r.id \in 1..Len(snaps)
      BY <3>1 DEF Noted
    <3>3. QED BY <1>8, <3>1, <3>2
  <2>2. CASE r \in N
    BY <1>1, <1>3, <2>2
  <2>3. QED BY <1>5, <2>1, <2>2
<1>10. ASSUME NEW d \in Nat, NEW k \in Notes, NEW i \in Noted(more, d, k)
       PROVE  \E r \in R : r.day = d /\ r.kind = k /\ r.time <= more[i].time /\ (free \/ r.key = more[i].key)
  <2>1. i \in 1..Len(more) /\ more[i].time \in Nat
    <3>1. i \in 1..Len(more)
      BY DEF Noted
    <3>2. more[i] \in SnapshotSet
      BY <3>1, ElementOfSeq
    <3>3. QED BY <3>1, <3>2 DEF SnapshotSet
  <2>2. CASE i \in 1..Len(snaps)
    <3>1. i \in Noted(snaps, d, k) /\ more[i] = snaps[i]
      BY <1>8, <2>2
    <3>2. PICK r \in T : r.day = d /\ r.kind = k /\ r.time <= more[i].time /\ (free \/ r.key = more[i].key)
      BY <3>1 DEF Earliest
    <3>3. CASE r \notin R
      <4>1. PICK n \in N : n \in R /\ Archive!SameDay(r, n) /\ n.time < r.time
        BY <1>5, <1>6, <3>3
      <4>2. n.day = d /\ n.kind = k /\ n.key = r.key
        BY <3>2, <4>1 DEF Archive!SameDay
      <4>3. n.time \in Nat /\ r.time \in Nat
        BY <1>2, <1>3, <1>7
      <4>4. n.time <= more[i].time
        BY <2>1, <3>2, <4>1, <4>3
      <4>5. QED BY <3>2, <4>1, <4>2, <4>4
    <3>4. QED BY <3>2, <3>3
  <2>3. CASE i \notin 1..Len(snaps)
    <3>1. i = id
      BY <1>0, <2>1, <2>3
    <3>2. PICK n : n = ReferenceFor(s, id, d, k)
      OBVIOUS
    <3>3. n \in N /\ n.day = d /\ n.kind = k /\ n.time = s.time /\ n.key = s.key
      BY <1>1, <3>1, <3>2 DEF ReferenceFor
    <3>4. CASE n \in R
      BY <1>1, <1>2, <3>1, <3>3, <3>4
    <3>5. CASE n \notin R
      <4>1. PICK r \in T : r \in R /\ Archive!SameDay(r, n) /\ ~(n.time < r.time)
        BY <1>5, <1>6, <3>3, <3>5
      <4>2. r.day = d /\ r.kind = k /\ r.key = s.key
        BY <3>3, <4>1 DEF Archive!SameDay
      <4>3. r.time <= s.time
        BY <1>2, <1>7, <3>3, <4>1
      <4>4. QED BY <1>1, <3>1, <4>1, <4>2, <4>3
    <3>6. QED BY <3>4, <3>5
  <2>4. QED BY <2>2, <2>3
<1>11. R \subseteq ReferenceRows
  BY <1>3, <1>5, <1>7
<1>12. QED BY <1>5, <1>9, <1>10, <1>11 DEF Earliest

LEMMA SaveNotes ==
  ASSUME ReferencesInv, ArchiveDays \subseteq Nat, NEW s \in Observations, Archive!Save(s)
  PROVE  ReferencesInv'
<1>1. s \in SnapshotSet /\ s.projected = TRUE
  BY ObservationsAre
<1>2. PICK id, R, N, more :
        /\ id = Len(snapshots) + 1 /\ R = references' /\ more = Append(snapshots, s)
        /\ N = UNION {{ReferenceFor(s, id, d, k) : k \in Archive!ReferenceKinds(s, d)} : d \in Archive!Archived(s)}
  OBVIOUS
<1>3. snapshots \in Seq(SnapshotSet) /\ promoted \in BOOLEAN /\ Earliest(references, snapshots, promoted)
  BY DEF ReferencesInv
<1>4. /\ more \in Seq(SnapshotSet) /\ Len(snapshots) \in Nat /\ Len(more) = id /\ more[id] = s
      /\ \A i \in 1..Len(snapshots) : more[i] = snapshots[i]
  BY <1>1, <1>2, <1>3, AppendProperties, LenProperties
<1>5. snapshots' = more /\ promoted' = promoted /\ R = Archive!Upserted(references, N, "earliest")
  BY <1>2 DEF Archive!Save, ReferenceFor
<1>6. Archive!Archived(s) \subseteq Nat /\ \A d : Archive!ReferenceKinds(s, d) \subseteq Notes
  <2>1. Archive!Archived(s) \subseteq Nat
    BY <1>1 DEF SnapshotSet, Archive!Archived
  <2>2. \A d : Archive!ReferenceKinds(s, d) \subseteq Notes
    BY DEF Archive!ReferenceKinds, Notes
  <2>3. QED BY <2>1, <2>2
<1>7. \A d, k : id \in Noted(more, d, k) <=> d \in Archive!Archived(s) /\ k \in Archive!ReferenceKinds(s, d)
  BY <1>1, <1>2, <1>4 DEF Noted
<1>8. \A n : n \in N <=> \E d \in Nat, k \in Notes : id \in Noted(more, d, k) /\ n = ReferenceFor(more[id], id, d, k)
  <2>1. \A n : n \in N <=> \E d \in Archive!Archived(s) : \E k \in Archive!ReferenceKinds(s, d) : n = ReferenceFor(s, id, d, k)
    BY <1>2
  <2>2. QED BY <1>4, <1>6, <1>7, <2>1
<1>9. Earliest(R, more, promoted)
  <2>1. WritesNotes(references, snapshots, more, id, N, R)
    BY <1>2, <1>3, <1>4, <1>5, <1>8 DEF WritesNotes
  <2>2. QED BY <1>3, <2>1, ReferencesWritten
<1>10. QED BY <1>2, <1>3, <1>4, <1>5, <1>9 DEF ReferencesInv

(* What a promotion copies has noted nothing. *)
LEMMA PromoteNotes ==
  ASSUME ReferencesInv, NEW teacher \in BOOLEAN, Archive!Promote(teacher)
  PROVE  ReferencesInv'
<1>1. PICK n, R, more : n = Len(snapshots) /\ R = references' /\ more = snapshots'
  OBVIOUS
<1>2. R = Archive!Renamed(references) /\ CopiesAdded(more) /\ promoted' = TRUE /\ promoted = FALSE
  BY <1>1 DEF Archive!Promote, ReferencesInv, CopiesAdded
<1>3. snapshots \in Seq(SnapshotSet) /\ n \in Nat /\ Earliest(references, snapshots, FALSE)
  BY <1>1, <1>2, LenProperties DEF ReferencesInv
<1>4. /\ more \in Seq(SnapshotSet) /\ Len(more) \in Nat /\ n <= Len(more)
      /\ \A i \in 1..n : more[i] = snapshots[i]
      /\ \A i \in 1..Len(more) : i \notin 1..n => more[i].projected = FALSE
  BY <1>1, <1>2, <1>3, CopiesFollow
<1>5. ASSUME NEW d, NEW k PROVE Noted(more, d, k) = Noted(snapshots, d, k)
  <2>1. Noted(snapshots, d, k) \subseteq 1..n /\ Noted(more, d, k) \subseteq 1..Len(more)
    BY <1>1 DEF Noted
  <2>2. \A i \in 1..Len(more) : i \in Noted(more, d, k) => i \in 1..n
    BY <1>4 DEF Noted
  <2>3. \A i \in 1..n : i \in 1..Len(more)
    BY <1>3, <1>4
  <2>4. \A i \in 1..n : i \in Noted(more, d, k) <=> i \in Noted(snapshots, d, k)
    BY <1>1, <1>4, <2>3 DEF Noted
  <2>5. QED BY <2>1, <2>2, <2>4
<1>6. /\ OneEach(R) /\ R \subseteq ReferenceRows
      /\ \A r \in references : \E q \in R : q = r \/ q = Real(r)
      /\ \A q \in R : \E r \in references : q = r \/ q = Real(r)
  <2>1. references \subseteq ReferenceRows /\ OneEach(references) /\ ReferenceRows \in {DayRows, ReferenceRows}
    BY <1>3 DEF Earliest
  <2>2. QED BY <1>2, <2>1, RenamedIs
<1>7. \A r \in references : /\ Real(r).day = r.day /\ Real(r).kind = r.kind
                            /\ Real(r).id = r.id /\ Real(r).time = r.time
  <2>1. references \subseteq ReferenceRows /\ ReferenceRows \in {DayRows, ReferenceRows}
    BY <1>3 DEF Earliest
  <2>2. QED BY <2>1, RealIs
<1>8. ASSUME NEW q \in R PROVE q.id \in Noted(more, q.day, q.kind) /\ q.time = more[q.id].time
  <2>1. PICK r \in references : q = r \/ q = Real(r)
    BY <1>6
  <2>2. q.id = r.id /\ q.day = r.day /\ q.kind = r.kind /\ q.time = r.time
    BY <1>7, <2>1
  <2>3. r.id \in Noted(snapshots, r.day, r.kind) /\ r.time = snapshots[r.id].time
    BY <1>3 DEF Earliest
  <2>4. r.id \in 1..n
    BY <1>1, <2>3 DEF Noted
  <2>5. QED BY <1>4, <1>5, <2>2, <2>3, <2>4
<1>9. ASSUME NEW d \in Nat, NEW k \in Notes, NEW i \in Noted(more, d, k)
      PROVE  \E q \in R : q.day = d /\ q.kind = k /\ q.time <= more[i].time
  <2>1. i \in Noted(snapshots, d, k)
    BY <1>5
  <2>2. i \in 1..n
    BY <1>1, <2>1 DEF Noted
  <2>3. PICK r \in references : r.day = d /\ r.kind = k /\ r.time <= snapshots[i].time
    BY <1>3, <2>1 DEF Earliest
  <2>4. PICK q \in R : q = r \/ q = Real(r)
    BY <1>6
  <2>5. QED BY <1>4, <1>7, <2>2, <2>3, <2>4
<1>10. Earliest(R, more, TRUE)
  BY <1>6, <1>8, <1>9 DEF Earliest
<1>11. QED BY <1>1, <1>2, <1>4, <1>10 DEF ReferencesInv

(* The backfill writes no references. *)
LEMMA ReferencesStep ==
  ASSUME ReferencesInv, ArchiveDays \subseteq Nat, [Archive!Next]_archiveVars
  PROVE  ReferencesInv'
<1>1. ASSUME NEW s \in Observations, Archive!Save(s) PROVE ReferencesInv'
  BY <1>1, SaveNotes
<1>2. CASE Archive!RunBatch \/ Archive!Restart \/ UNCHANGED archiveVars
  <2>1. UNCHANGED <<snapshots, references, promoted>>
    BY <1>2 DEF Archive!RunBatch, Archive!Restart, archiveVars
  <2>2. QED BY <2>1 DEF ReferencesInv
<1>3. ASSUME NEW teacher \in BOOLEAN, Archive!Promote(teacher) PROVE ReferencesInv'
  BY <1>3, PromoteNotes
<1>4. QED BY <1>1, <1>2, <1>3 DEF Archive!Next

LEMMA ReferencesStart == Archive!Init => ReferencesInv
<1>. SUFFICES ASSUME Archive!Init PROVE ReferencesInv
  OBVIOUS
<1>1. snapshots \in Histories /\ references = {} /\ promoted = FALSE
  BY DEF Archive!Init
<1>2. snapshots \in Seq(SnapshotSet) /\ \A i \in 1..Len(snapshots) : snapshots[i].projected = FALSE
  BY <1>1, HistoriesAre
<1>3. \A d, k : Noted(snapshots, d, k) = {}
  BY <1>2 DEF Noted
<1>4. Earliest({}, snapshots, FALSE)
  BY <1>3 DEF Earliest, OneEach
<1>5. Earliest(references, snapshots, promoted) /\ promoted \in BOOLEAN
  BY <1>1, <1>4
<1>6. QED BY <1>2, <1>5 DEF ReferencesInv

(* A row under the old key is as old as those of the real one. *)
BehindReference(d, k) ==
  promoted /\ \E r \in references : r.kind = k /\ r.key = "pending" /\ r.day = d /\
      \A q \in references : q.kind = k /\ q.key = "real" /\ q.day = d => ~(q.time < r.time)

LEMMA ReferencesSafe == ReferencesInv /\ ArchiveDays \subseteq Nat => Archive!ReferencesAreEarliest
<1>. SUFFICES ASSUME ReferencesInv, ArchiveDays \subseteq Nat PROVE Archive!ReferencesAreEarliest
  OBVIOUS
<1>. DEFINE Left(d, k) ==
              promoted /\ \E r \in {x \in references : x.kind = k} : r.key = "pending" /\ r.day = d /\
                  \A q \in {x \in references : x.kind = k} : q.key = "real" /\ q.day = d => ~(q.time < r.time)
<1>. \A d, k : BehindReference(d, k) => Left(d, k)
  BY DEF BehindReference
<1>. SUFFICES ASSUME NEW d \in ArchiveDays, NEW key \in Archive!Keys, NEW k \in Notes,
                     ~Left(d, k), ~(promoted /\ key = "pending")
              PROVE  LET given == {i \in Archive!Given(key, d) :
                                     snapshots[i].projected /\ k \in Archive!ReferenceKinds(snapshots[i], d)}
                         own == {r \in references : r.key = key /\ r.day = d /\ r.kind = k}
                     IN  /\ (own = {}) = (given = {})
                         /\ \A r \in own : r.id \in given /\ \A i \in given : snapshots[i].time >= r.time
  BY DEF Archive!ReferencesAreEarliest, Archive!LeftBehind, Archive!Earlier, Notes
<1>0. PICK given, own :
        /\ given = {i \in Archive!Given(key, d) : snapshots[i].projected /\ k \in Archive!ReferenceKinds(snapshots[i], d)}
        /\ own = {r \in references : r.key = key /\ r.day = d /\ r.kind = k} /\ d \in Nat
  OBVIOUS
<1>1. \A i : i \in given <=> i \in Noted(snapshots, d, k) /\ (snapshots[i].key = key \/ (promoted /\ key = "real"))
  <2>1. DOMAIN snapshots = 1..Len(snapshots)
    BY DEF ReferencesInv
  <2>2. QED BY <1>0, <2>1 DEF Archive!Given, Noted
<1>2. Earliest(references, snapshots, promoted) /\ promoted \in BOOLEAN /\ key \in {"pending", "real"}
  BY DEF ReferencesInv, Archive!Keys
<1>3. ASSUME NEW r \in own PROVE r.id \in given
  BY <1>0, <1>1, <1>2 DEF Earliest
<1>4. \A r \in references : r.day \in Nat /\ r.time \in Nat /\ r.key \in {"pending", "real"}
  BY <1>2 DEF Earliest, ReferenceRows, Archive!Keys
<1>5. \A r, q \in own : r = q
  BY <1>0, <1>2, <1>4 DEF Earliest, OneEach, Archive!SameDay
<1>6. ASSUME NEW i \in given PROVE \E r \in own : snapshots[i].time >= r.time
  <2>1. PICK x \in references : x.day = d /\ x.kind = k /\ x.time <= snapshots[i].time /\ (promoted \/ x.key = snapshots[i].key)
    BY <1>0, <1>1, <1>2 DEF Earliest
  <2>2. snapshots[i].time \in Nat /\ x.time \in Nat
    <3>1. i \in 1..Len(snapshots)
      BY <1>1 DEF Noted
    <3>2. snapshots[i] \in SnapshotSet
      BY <3>1, ElementOfSeq DEF ReferencesInv
    <3>3. QED BY <1>4, <3>2 DEF SnapshotSet
  <2>3. CASE x.key = key
    BY <1>0, <2>1, <2>2, <2>3
  <2>4. CASE x.key # key
    <3>1. promoted /\ key = "real" /\ x.key = "pending"
      BY <1>1, <1>2, <1>4, <2>1, <2>4
    <3>2. PICK q \in references : q.kind = k /\ q.key = "real" /\ q.day = d /\ q.time < x.time
      BY <2>1, <3>1 DEF BehindReference
    <3>3. q.time \in Nat /\ q \in own
      BY <1>0, <1>4, <3>1, <3>2
    <3>4. QED BY <2>1, <2>2, <3>2, <3>3
  <2>5. QED BY <2>3, <2>4
<1>7. (own = {}) = (given = {})
  BY <1>3, <1>6
<1>8. \A r \in own : r.id \in given /\ \A i \in given : snapshots[i].time >= r.time
  BY <1>3, <1>5, <1>6
<1>9. QED BY <1>0, <1>7, <1>8

-----------------------------------------------------------------------------
(* The directory of teachers *)

DirectoryInv ==
  /\ preps \subseteq Teachers /\ cache \subseteq Teachers /\ read \subseteq Teachers /\ teachers \subseteq Teachers
  /\ bound \in [Unlisted -> {"pending"} \cup Teachers] /\ pass \subseteq Unlisted
  /\ Directory!EachSiteKept

(* The table is as the memory when a site is away. *)
LEMMA LoadKeeps ==
  ASSUME DirectoryInv, NEW away \in SUBSET Directory!Origins, NEW unsaved \in 0..1, Directory!Load(away, unsaved),
         preps = {} \/ Directory!Fetched(away) # {}, UNCHANGED teachers
  PROVE  /\ preps' \subseteq Teachers /\ cache' \subseteq Teachers /\ read' \subseteq Teachers
         /\ Directory!EachSiteKept'
<1>1. PICK fetched : fetched = Directory!Fetched(away)
  OBVIOUS
<1>2. /\ fetched = UNION {IF o \in away THEN Directory!Known(o) ELSE Directory!Of(o, teachers) : o \in Directory!Origins}
      /\ read' = UNION {IF o \in away THEN Directory!Of(o, read) ELSE Directory!Of(o, teachers) : o \in Directory!Origins}
  BY <1>1 DEF Directory!Fetched, Directory!Load
<1>3. /\ preps' = IF away = Directory!Origins /\ fetched = {} THEN preps ELSE fetched
      /\ cache' = IF (away = Directory!Origins /\ fetched = {}) \/ unsaved > 0 THEN cache ELSE fetched
      /\ stale' = (stale \/ unsaved > 0)
  BY <1>1 DEF Directory!Load
<1>4. ASSUME NEW o \in Directory!Origins
      PROVE  Directory!Known(o) \subseteq Teachers /\ Directory!Of(o, teachers) \subseteq Teachers /\ Directory!Of(o, read) \subseteq Teachers
  BY DEF Directory!Known, Directory!Of, DirectoryInv
<1>5. fetched \subseteq Teachers /\ read' \subseteq Teachers
  BY <1>2, <1>4
<1>6. preps' \subseteq Teachers /\ cache' \subseteq Teachers
  BY <1>3, <1>5 DEF DirectoryInv
<1>7. ASSUME ~stale' PROVE (preps' # {} => preps' = read') /\ cache' = read'
  <2>1. ~stale /\ ~(unsaved > 0) /\ (preps # {} => preps = read) /\ cache = read
    BY <1>3, <1>7 DEF DirectoryInv, Directory!EachSiteKept
  <2>2. \A o \in Directory!Origins : Directory!Known(o) = Directory!Of(o, read)
    BY <2>1 DEF Directory!Known
  <2>3. fetched = read'
    BY <1>2, <2>2
  <2>4. CASE away = Directory!Origins /\ fetched = {}
    <3>1. \A t \in read : OriginOf[t] \in Directory!Origins /\ t \in Directory!Of(OriginOf[t], read)
      BY DEF Directory!Origins, Directory!Of, DirectoryInv
    <3>2. read = {}
      BY <1>2, <2>2, <2>4, <3>1
    <3>3. QED BY <1>3, <2>1, <2>3, <2>4, <3>2
  <2>5. CASE ~(away = Directory!Origins /\ fetched = {})
    BY <1>3, <2>1, <2>3, <2>5
  <2>6. QED BY <2>4, <2>5
<1>8. QED BY <1>5, <1>6, <1>7 DEF Directory!EachSiteKept

LEMMA DirectoryStep == DirectoryInv /\ [Directory!Next]_directoryVars => DirectoryInv'
<1>. SUFFICES ASSUME DirectoryInv, [Directory!Next]_directoryVars PROVE DirectoryInv'
  OBVIOUS
<1>1. ASSUME NEW t \in Teachers, Directory!SiteChanges(t) PROVE DirectoryInv'
  BY <1>1 DEF Directory!SiteChanges, DirectoryInv, Directory!EachSiteKept
<1>2. CASE Directory!Search
  <2>1. PICK away \in SUBSET Directory!Origins, unsaved \in 0..1 : Directory!Load(away, unsaved)
    BY <1>2 DEF Directory!Search
  <2>2. preps = {} /\ UNCHANGED <<teachers, bound, pass>>
    BY <1>2 DEF Directory!Search
  <2>3. /\ preps' \subseteq Teachers /\ cache' \subseteq Teachers /\ read' \subseteq Teachers
        /\ Directory!EachSiteKept'
    BY <2>1, <2>2, LoadKeeps
  <2>4. QED BY <2>2, <2>3 DEF DirectoryInv
<1>3. CASE Directory!Refresh
  <2>1. PICK away \in SUBSET Directory!Origins, unsaved \in 0..1 :
          \/ Directory!Fetched(away) # {} /\ Directory!Load(away, unsaved)
          \/ UNCHANGED <<preps, cache, read, stale>>
    BY <1>3 DEF Directory!Refresh
  <2>2. pass' \subseteq Unlisted /\ UNCHANGED <<teachers, bound>>
    BY <1>3 DEF Directory!Refresh, Directory!Pending
  <2>3. /\ preps' \subseteq Teachers /\ cache' \subseteq Teachers /\ read' \subseteq Teachers
        /\ Directory!EachSiteKept'
    BY <2>1, <2>2, LoadKeeps DEF DirectoryInv, Directory!EachSiteKept
  <2>4. QED BY <2>2, <2>3 DEF DirectoryInv
<1>4. ASSUME NEW n \in Unlisted, Directory!Promote(n) PROVE DirectoryInv'
  <2>1. bound' \in [Unlisted -> {"pending"} \cup Teachers]
    BY <1>4 DEF Directory!Promote, Directory!Found, DirectoryInv
  <2>2. QED BY <1>4, <2>1 DEF Directory!Promote, DirectoryInv, Directory!EachSiteKept
<1>5. CASE Directory!Restart
  BY <1>5 DEF Directory!Restart, DirectoryInv, Directory!EachSiteKept
<1>6. CASE UNCHANGED directoryVars
  BY <1>6 DEF directoryVars, DirectoryInv, Directory!EachSiteKept
<1>7. QED BY <1>1, <1>2, <1>3, <1>4, <1>5, <1>6 DEF Directory!Next

LEMMA DirectoryStart == Directory!Init => DirectoryInv
  BY DEF Directory!Init, DirectoryInv, Directory!EachSiteKept

(* A subscription moves to the only one of that name. *)
LEMMA NamesakeStep ==
  DirectoryInv /\ [Directory!Next]_directoryVars =>
    [\A n \in Unlisted : bound[n] = "pending" /\ bound'[n] # "pending" =>
        stale \/ {t \in read : NameOf[t] = n} = {bound'[n]}]_Directory!vars
<1>. SUFFICES ASSUME DirectoryInv, [Directory!Next]_directoryVars,
                     NEW n \in Unlisted, bound[n] = "pending", bound'[n] # "pending", ~stale
              PROVE  {t \in read : NameOf[t] = n} = {bound'[n]}
  OBVIOUS
<1>1. bound' # bound
  OBVIOUS
<1>2. PICK m \in Unlisted : Directory!Promote(m)
  BY <1>1 DEF Directory!Next, Directory!SiteChanges, Directory!Search, Directory!Refresh, Directory!Restart, directoryVars
<1>3. PICK t \in Directory!Found(m) : bound' = [bound EXCEPT ![m] = t]
  BY <1>1, <1>2 DEF Directory!Promote
<1>4. m = n /\ bound'[n] = t
  BY <1>3 DEF DirectoryInv
<1>5. t \in preps /\ NameOf[t] = n /\ \A w \in preps : NameOf[w] = n => w = t
  BY <1>3, <1>4 DEF Directory!Found
<1>6. preps = read
  BY <1>5 DEF DirectoryInv, Directory!EachSiteKept
<1>7. QED BY <1>4, <1>5, <1>6

-----------------------------------------------------------------------------
(* Sheets of photos *)

(* A group that is still to be applied: merged with what is kept, unless it is late; *)
(* for the source its subscribers have, unless they were moved.                      *)
DraftIs(q, d) ==
  /\ d.kind \in {"pending", "real"} /\ d.late \in BOOLEAN /\ d.moved \in BOOLEAN
  /\ d = [kind |-> d.kind, base |-> d.base, late |-> d.late, moved |-> d.moved]
  /\ d.late = FALSE => d.base = kept[q][d.kind]
  /\ d.moved = FALSE => d.kind = followed[q]

SheetHas(s) ==
  /\ s.step \in {"draft", "applying"}
  /\ s = [step |-> s.step, left |-> s.left, done |-> s.done, refused |-> s.refused, drafts |-> s.drafts]
  /\ s.left \cup s.done \cup s.refused = DOMAIN s.drafts
  /\ s.left \cap s.done = {}

SheetIs(s) ==
  \/ s = Photos!NoSheet
  \/ SheetHas(s) /\ \A q \in s.left \cap Classes : DraftIs(q, s.drafts[q])

PhotosInv ==
  /\ DOMAIN sheets = Admins /\ followed \in [Classes -> {"pending", "real"}]
  /\ DOMAIN kept = Classes /\ \A q \in Classes : DOMAIN kept[q] = {"pending", "real"}
  /\ \A x \in Admins : SheetIs(sheets[x])

LEMMA StepOfSheet == Photos!NoSheet.step = "none" /\ \A s : SheetHas(s) => s # Photos!NoSheet
<1>1. Photos!NoSheet.step = "none"
  BY DEF Photos!NoSheet
<1>2. QED BY <1>1 DEF SheetHas

LEMMA OpenSheet ==
  ASSUME PhotosInv, NEW x \in Admins, sheets[x].step \in {"draft", "applying"} \/ sheets[x] # Photos!NoSheet
  PROVE  SheetHas(sheets[x]) /\ \A q \in sheets[x].left \cap Classes : DraftIs(q, sheets[x].drafts[q])
  BY StepOfSheet DEF PhotosInv, SheetIs

(* Snapshots and subscriptions change at the group p; the draft of p is told. *)
LEMMA SheetTold ==
  ASSUME NEW s, SheetIs(s), NEW new, NEW p \in Classes,
         \A q \in Classes \ {p} : kept'[q] = kept[q] /\ followed'[q] = followed[q],
         \/ new = s /\ (s = Photos!NoSheet \/ p \notin s.left \/ DraftIs(p, s.drafts[p])')
         \/ /\ s # Photos!NoSheet /\ p \in s.left /\ new = [s EXCEPT !.drafts[p].late = TRUE]
            /\ followed' = followed
         \/ /\ s # Photos!NoSheet /\ p \in s.left /\ new = [s EXCEPT !.drafts[p].moved = TRUE]
            /\ kept' = kept
  PROVE  SheetIs(new)'
<1>1. CASE s = Photos!NoSheet
  BY <1>1 DEF SheetIs, Photos!NoSheet
<1>2. CASE s # Photos!NoSheet
  <2>1. SheetHas(s) /\ \A q \in s.left \cap Classes : DraftIs(q, s.drafts[q])
    BY <1>2 DEF SheetIs
  <2>2. ASSUME NEW q \in (s.left \cap Classes) \ {p} PROVE DraftIs(q, s.drafts[q])'
    BY <2>1, <2>2 DEF DraftIs
  <2>3. CASE new = s /\ (p \notin s.left \/ DraftIs(p, s.drafts[p])')
    <3>1. ASSUME NEW q \in s.left \cap Classes PROVE DraftIs(q, s.drafts[q])'
      BY <1>2, <2>1, <2>2, <2>3
    <3>2. QED BY <2>1, <2>3, <3>1 DEF SheetIs, SheetHas
  <2>4. CASE /\ p \in s.left
             /\ \/ new = [s EXCEPT !.drafts[p].late = TRUE] /\ followed' = followed
                \/ new = [s EXCEPT !.drafts[p].moved = TRUE] /\ kept' = kept
    <3>1. PICK d : d = s.drafts[p]
      OBVIOUS
    <3>2. p \in s.left /\ p \in DOMAIN s.drafts /\ DraftIs(p, d)
      BY <2>1, <2>4, <3>1 DEF SheetHas
    <3>3. PICK f :
            /\ new = [s EXCEPT !.drafts[p] = f]
            /\ \/ f = [d EXCEPT !.late = TRUE] /\ followed' = followed
               \/ f = [d EXCEPT !.moved = TRUE] /\ kept' = kept
      BY <2>4, <3>1
    <3>4. DraftIs(p, f)'
      <4>1. CASE f = [d EXCEPT !.late = TRUE] /\ followed' = followed
        <5>1. f = [kind |-> d.kind, base |-> d.base, late |-> TRUE, moved |-> d.moved]
          BY <3>2, <4>1 DEF DraftIs
        <5>2. f.kind = d.kind /\ f.base = d.base /\ f.late = TRUE /\ f.moved = d.moved
          BY <5>1
        <5>3. QED BY <3>2, <4>1, <5>1, <5>2 DEF DraftIs
      <4>2. CASE f = [d EXCEPT !.moved = TRUE] /\ kept' = kept
        <5>1. f = [kind |-> d.kind, base |-> d.base, late |-> d.late, moved |-> TRUE]
          BY <3>2, <4>2 DEF DraftIs
        <5>2. f.kind = d.kind /\ f.base = d.base /\ f.late = d.late /\ f.moved = TRUE
          BY <5>1
        <5>3. QED BY <3>2, <4>2, <5>1, <5>2 DEF DraftIs
      <4>3. QED BY <3>3, <4>1, <4>2
    <3>5. PICK drafts : drafts = [s.drafts EXCEPT ![p] = f]
      OBVIOUS
    <3>6. DOMAIN drafts = DOMAIN s.drafts /\ drafts[p] = f /\ \A q \in DOMAIN s.drafts \ {p} : drafts[q] = s.drafts[q]
      BY <3>2, <3>5
    <3>7. new = [step |-> s.step, left |-> s.left, done |-> s.done, refused |-> s.refused, drafts |-> drafts]
      BY <2>1, <3>3, <3>5 DEF SheetHas
    <3>8. /\ new.step = s.step /\ new.left = s.left /\ new.done = s.done /\ new.refused = s.refused
          /\ new.drafts = drafts
      BY <3>7
    <3>9. SheetHas(new)
      BY <2>1, <3>6, <3>7, <3>8 DEF SheetHas
    <3>10. ASSUME NEW q \in new.left \cap Classes PROVE DraftIs(q, new.drafts[q])'
      <4>1. q \in DOMAIN s.drafts
        BY <2>1, <3>8, <3>10 DEF SheetHas
      <4>2. QED BY <2>2, <3>4, <3>6, <3>8, <4>1
    <3>11. QED BY <3>9, <3>10 DEF SheetIs, SheetHas
  <2>5. QED BY <1>2, <2>3, <2>4
<1>3. QED BY <1>1, <1>2

(* A group leaves those that are to be applied. *)
LEMMA SheetGoesOn ==
  ASSUME NEW s, SheetHas(s), \A q \in s.left \cap Classes : DraftIs(q, s.drafts[q]),
         NEW new, NEW to \in {"draft", "applying"}, NEW left, NEW done, NEW refused,
         new = [step |-> to, left |-> left, done |-> done, refused |-> refused, drafts |-> s.drafts],
         left \subseteq s.left, left \cap done = {}, left \cup done \cup refused = s.left \cup s.done \cup s.refused,
         \A q \in left \cap Classes : kept'[q] = kept[q] /\ followed'[q] = followed[q]
  PROVE  SheetIs(new)'
<1>1. /\ new.step = to /\ new.left = left /\ new.done = done /\ new.refused = refused /\ new.drafts = s.drafts
  OBVIOUS
<1>2. SheetHas(new)
  BY <1>1 DEF SheetHas
<1>3. ASSUME NEW q \in new.left \cap Classes PROVE DraftIs(q, new.drafts[q])'
  <2>1. DraftIs(q, s.drafts[q]) /\ kept'[q] = kept[q] /\ followed'[q] = followed[q]
    BY <1>1, <1>3
  <2>2. QED BY <1>1, <2>1 DEF DraftIs
<1>4. QED BY <1>2, <1>3 DEF SheetIs, SheetHas

LEMMA SheetStays ==
  ASSUME NEW s, SheetIs(s), UNCHANGED <<kept, followed>>
  PROVE  SheetIs(s)'
  BY DEF SheetIs, SheetHas, DraftIs, Photos!NoSheet

LEMMA BuildDraftKeeps ==
  ASSUME PhotosInv, NEW x \in Admins, Photos!BuildDraft(x)
  PROVE  PhotosInv'
<1>1. PICK readable : sheets' = [sheets EXCEPT ![x] =
              [step |-> "draft", left |-> readable, done |-> {}, refused |-> {},
               drafts |-> [q \in readable |-> [kind |-> followed[q], base |-> kept[q][followed[q]],
                                               late |-> FALSE, moved |-> FALSE]]]]
  BY DEF Photos!BuildDraft, Photos!Resolved
<1>2. UNCHANGED <<kept, followed>>
  BY DEF Photos!BuildDraft
<1>3. PICK drafts : drafts = [q \in readable |-> [kind |-> followed[q], base |-> kept[q][followed[q]],
                                                  late |-> FALSE, moved |-> FALSE]]
  OBVIOUS
<1>4. PICK s : s = [step |-> "draft", left |-> readable, done |-> {}, refused |-> {}, drafts |-> drafts]
  OBVIOUS
<1>5. s.step = "draft" /\ s.left = readable /\ s.done = {} /\ s.refused = {} /\ s.drafts = drafts
  BY <1>4
<1>6. SheetHas(s)
  BY <1>3, <1>4, <1>5 DEF SheetHas
<1>7. ASSUME NEW q \in s.left \cap Classes PROVE DraftIs(q, s.drafts[q])
  <2>1. PICK d : d = drafts[q]
    OBVIOUS
  <2>2. d = [kind |-> followed[q], base |-> kept[q][followed[q]], late |-> FALSE, moved |-> FALSE]
    BY <1>3, <1>5, <1>7, <2>1
  <2>3. d.kind = followed[q] /\ d.base = kept[q][followed[q]] /\ d.late = FALSE /\ d.moved = FALSE
    BY <2>2
  <2>4. followed[q] \in {"pending", "real"}
    BY <1>7 DEF PhotosInv
  <2>5. DraftIs(q, d)
    BY <2>2, <2>3, <2>4 DEF DraftIs
  <2>6. QED BY <1>5, <2>1, <2>5
<1>8. SheetIs(s)
  BY <1>6, <1>7 DEF SheetIs
<1>9. sheets' = [sheets EXCEPT ![x] = s]
  BY <1>1, <1>3, <1>4
<1>10. \A y \in Admins : SheetIs(sheets'[y])
  BY <1>8, <1>9 DEF PhotosInv
<1>11. \A y \in Admins : SheetIs(sheets[y])'
  <2>1. SUFFICES ASSUME NEW y \in Admins PROVE SheetIs(sheets[y])'
    OBVIOUS
  <2>2. PICK t : t = sheets'[y]
    OBVIOUS
  <2>3. SheetIs(t)'
    BY <1>2, <1>10, <2>2, SheetStays
  <2>4. QED BY <2>2, <2>3 DEF SheetIs
<1>12. QED BY <1>2, <1>9, <1>11 DEF PhotosInv

(* One sheet is another one then. *)
LEMMA OneSheet ==
  ASSUME PhotosInv, NEW x \in Admins, NEW s, sheets' = [sheets EXCEPT ![x] = s], SheetIs(s)',
         UNCHANGED <<kept, followed>>
  PROVE  PhotosInv'
<1>1. SUFFICES ASSUME NEW y \in Admins PROVE SheetIs(sheets[y])'
  BY DEF PhotosInv
<1>2. PICK t : t = sheets'[y]
  OBVIOUS
<1>3. CASE y = x
  <2>1. t = s
    BY <1>2, <1>3 DEF PhotosInv
  <2>2. QED BY <1>2, <2>1 DEF SheetIs
<1>4. CASE y # x
  <2>1. SheetIs(t)
    BY <1>2, <1>4 DEF PhotosInv
  <2>2. SheetIs(t)'
    BY <2>1, SheetStays
  <2>3. QED BY <1>2, <2>2 DEF SheetIs
<1>5. QED BY <1>3, <1>4

LEMMA NoSheetIs == SheetIs(Photos!NoSheet)'
  BY DEF SheetIs, Photos!NoSheet

LEMMA ConfirmKeeps ==
  ASSUME PhotosInv, NEW x \in Admins, Photos!Confirm(x)
  PROVE  PhotosInv'
<1>1. PICK s : s = sheets[x]
  OBVIOUS
<1>2. /\ s.step = "draft" /\ sheets' = [sheets EXCEPT ![x] = [s EXCEPT !.step = "applying"]]
      /\ UNCHANGED <<kept, followed>>
  BY <1>1 DEF Photos!Confirm, Photos!At
<1>3. SheetHas(s) /\ \A q \in s.left \cap Classes : DraftIs(q, s.drafts[q])
  BY <1>1, <1>2, OpenSheet
<1>4. PICK new : new = [s EXCEPT !.step = "applying"]
  OBVIOUS
<1>5. new = [step |-> "applying", left |-> s.left, done |-> s.done, refused |-> s.refused, drafts |-> s.drafts]
  BY <1>3, <1>4 DEF SheetHas
<1>6. s.left \cap s.done = {}
  BY <1>3 DEF SheetHas
<1>7. SheetIs(new)'
  BY <1>2, <1>3, <1>5, <1>6, SheetGoesOn
<1>8. QED BY <1>2, <1>4, <1>7, OneSheet

LEMMA ApplyFailsKeeps ==
  ASSUME PhotosInv, NEW x \in Admins, NEW p \in Classes, Photos!ApplyFails(x, p)
  PROVE  PhotosInv'
<1>1. PICK s : s = sheets[x]
  OBVIOUS
<1>2. PICK left, refused : left = s.left \ {p} /\ refused = s.refused \cup {p}
  OBVIOUS
<1>3. /\ s.step = "applying" /\ p \in s.left /\ UNCHANGED <<kept, followed>>
      /\ sheets' = [sheets EXCEPT ![x] = [[s EXCEPT !.left = left] EXCEPT !.refused = refused]]
  BY <1>1, <1>2 DEF Photos!ApplyFails, Photos!GroupRefused, Photos!At, PhotosInv
<1>4. SheetHas(s) /\ \A q \in s.left \cap Classes : DraftIs(q, s.drafts[q])
  BY <1>1, <1>3, OpenSheet
<1>5. PICK new : new = [[s EXCEPT !.left = left] EXCEPT !.refused = refused]
  OBVIOUS
<1>6. new = [step |-> "applying", left |-> left, done |-> s.done, refused |-> refused, drafts |-> s.drafts]
  BY <1>3, <1>4, <1>5 DEF SheetHas
<1>7. left \subseteq s.left /\ left \cap s.done = {} /\ left \cup s.done \cup refused = s.left \cup s.done \cup s.refused
  BY <1>2, <1>3, <1>4 DEF SheetHas
<1>8. SheetIs(new)'
  BY <1>3, <1>4, <1>6, <1>7, SheetGoesOn
<1>9. QED BY <1>3, <1>5, <1>8, OneSheet

(* The others hear of a snapshot that is new. *)
LEMMA OthersAreLate ==
  ASSUME PhotosInv, NEW p \in Classes, NEW k \in {"pending", "real"}, NEW days, NEW but,
         kept' = [kept EXCEPT ![p][k] = days], followed' = followed,
         NEW y \in Admins, y # but, NEW new, new = Photos!Outdated(p, k, but)[y]
  PROVE  SheetIs(new)'
<1>1. PICK s : s = sheets[y]
  OBVIOUS
<1>2. new = IF s # Photos!NoSheet /\ p \in s.left /\ s.drafts[p].kind = k
              THEN [s EXCEPT !.drafts[p].late = TRUE] ELSE s
  BY <1>1 DEF Photos!Outdated
<1>3. SheetIs(s)
  BY <1>1 DEF PhotosInv
<1>4. \A q \in Classes \ {p} : kept'[q] = kept[q] /\ followed'[q] = followed[q]
  BY DEF PhotosInv
<1>5. CASE s # Photos!NoSheet /\ p \in s.left /\ s.drafts[p].kind = k
  BY <1>2, <1>3, <1>4, <1>5, SheetTold
<1>6. CASE ~(s # Photos!NoSheet /\ p \in s.left /\ s.drafts[p].kind = k)
  <2>1. new = s
    BY <1>2, <1>6
  <2>2. ASSUME s # Photos!NoSheet, p \in s.left PROVE DraftIs(p, s.drafts[p])'
    <3>1. DraftIs(p, s.drafts[p]) /\ s.drafts[p].kind # k
      BY <1>3, <1>6, <2>2 DEF SheetIs
    <3>2. kept'[p][s.drafts[p].kind] = kept[p][s.drafts[p].kind]
      BY <3>1 DEF PhotosInv
    <3>3. QED BY <3>1, <3>2 DEF DraftIs
  <2>3. QED BY <1>3, <1>4, <2>1, <2>2, SheetTold
<1>7. QED BY <1>5, <1>6

LEMMA ApplyGroupKeeps ==
  ASSUME PhotosInv, NEW x \in Admins, NEW p \in Classes, Photos!ApplyGroup(x, p)
  PROVE  PhotosInv'
<1>1. PICK s, k, days :
        s = sheets[x] /\ k = s.drafts[p].kind /\ days = Photos!Merged(s.drafts[p].base, SheetOf[x].day)
  OBVIOUS
<1>2. PICK flagged : flagged = Photos!Outdated(p, k, x)
  OBVIOUS
<1>3. PICK left, done : left = s.left \ {p} /\ done = s.done \cup {p}
  OBVIOUS
<1>4. flagged[x] = s /\ DOMAIN flagged = Admins
  BY <1>1, <1>2 DEF Photos!Outdated
<1>5. /\ s.step = "applying" /\ p \in s.left /\ followed' = followed /\ kept' = [kept EXCEPT ![p][k] = days]
      /\ sheets' = [flagged EXCEPT ![x] = [[s EXCEPT !.left = left] EXCEPT !.done = done]]
  BY <1>1, <1>2, <1>3, <1>4 DEF Photos!ApplyGroup, Photos!At
<1>6. SheetHas(s) /\ \A q \in s.left \cap Classes : DraftIs(q, s.drafts[q])
  BY <1>1, <1>5, OpenSheet
<1>7. k \in {"pending", "real"}
  BY <1>1, <1>5, <1>6 DEF DraftIs
<1>8. PICK new : new = [[s EXCEPT !.left = left] EXCEPT !.done = done]
  OBVIOUS
<1>9. new = [step |-> "applying", left |-> left, done |-> done, refused |-> s.refused, drafts |-> s.drafts]
  BY <1>5, <1>6, <1>8 DEF SheetHas
<1>10. left \subseteq s.left /\ left \cap done = {} /\ left \cup done \cup s.refused = s.left \cup s.done \cup s.refused
  BY <1>3, <1>5, <1>6 DEF SheetHas
<1>11. \A q \in left \cap Classes : kept'[q] = kept[q] /\ followed'[q] = followed[q]
  BY <1>3, <1>5 DEF PhotosInv
<1>12. SheetIs(new)'
  BY <1>6, <1>9, <1>10, <1>11, SheetGoesOn
<1>13. ASSUME NEW y \in Admins PROVE SheetIs(sheets[y])'
  <2>1. PICK t : t = sheets'[y]
    OBVIOUS
  <2>2. CASE y = x
    <3>1. t = new
      BY <1>4, <1>5, <1>8, <2>1, <2>2
    <3>2. QED BY <1>12, <2>1, <3>1 DEF SheetIs
  <2>3. CASE y # x
    <3>1. t = Photos!Outdated(p, k, x)[y]
      BY <1>2, <1>4, <1>5, <2>1, <2>3
    <3>2. SheetIs(t)'
      BY <1>5, <1>7, <2>3, <3>1, OthersAreLate
    <3>3. QED BY <2>1, <3>2 DEF SheetIs
  <2>4. QED BY <2>2, <2>3
<1>14. DOMAIN kept' = Classes /\ \A q \in Classes : DOMAIN kept'[q] = {"pending", "real"}
  BY <1>5 DEF PhotosInv
<1>15. DOMAIN sheets' = Admins
  BY <1>4, <1>5
<1>16. QED BY <1>5, <1>13, <1>14, <1>15 DEF PhotosInv

LEMMA SiteSyncKeeps ==
  ASSUME PhotosInv, NEW p \in Classes, Photos!SiteSync(p)
  PROVE  PhotosInv'
<1>1. /\ kept' = [kept EXCEPT ![p]["real"] = PhotoDays] /\ followed' = followed
      /\ sheets' = Photos!Outdated(p, "real", "nobody")
  BY DEF Photos!SiteSync
<1>2. ASSUME NEW y \in Admins PROVE SheetIs(sheets[y])'
  <2>1. PICK t : t = sheets'[y]
    OBVIOUS
  <2>2. y # "nobody"
    BY BackgroundAssumption
  <2>3. SheetIs(t)'
    BY <1>1, <2>1, <2>2, OthersAreLate
  <2>4. QED BY <2>1, <2>3 DEF SheetIs
<1>3. DOMAIN sheets' = Admins
  BY <1>1 DEF Photos!Outdated
<1>4. DOMAIN kept' = Classes /\ \A q \in Classes : DOMAIN kept'[q] = {"pending", "real"}
  BY <1>1 DEF PhotosInv
<1>5. QED BY <1>1, <1>2, <1>3, <1>4 DEF PhotosInv

LEMMA PromoteKeeps ==
  ASSUME PhotosInv, NEW p \in Classes, Photos!Promote(p)
  PROVE  PhotosInv'
<1>1. /\ followed' = [followed EXCEPT ![p] = "real"] /\ kept' = kept
      /\ sheets' = [x \in Admins |-> IF sheets[x] # Photos!NoSheet /\ p \in sheets[x].left
                                       THEN [sheets[x] EXCEPT !.drafts[p].moved = TRUE] ELSE sheets[x]]
  BY DEF Photos!Promote
<1>2. \A q \in Classes \ {p} : kept'[q] = kept[q] /\ followed'[q] = followed[q]
  BY <1>1 DEF PhotosInv
<1>3. ASSUME NEW y \in Admins PROVE SheetIs(sheets[y])'
  <2>1. PICK s, t : s = sheets[y] /\ t = sheets'[y]
    OBVIOUS
  <2>2. SheetIs(s) /\ t = IF s # Photos!NoSheet /\ p \in s.left THEN [s EXCEPT !.drafts[p].moved = TRUE] ELSE s
    BY <1>1, <2>1 DEF PhotosInv
  <2>3. SheetIs(t)'
    BY <1>1, <1>2, <2>2, SheetTold
  <2>4. QED BY <2>1, <2>3 DEF SheetIs
<1>4. QED BY <1>1, <1>3 DEF PhotosInv

LEMMA PhotosStep == PhotosInv /\ [Photos!Next]_photoVars => PhotosInv'
<1>. SUFFICES ASSUME PhotosInv, [Photos!Next]_photoVars PROVE PhotosInv'
  OBVIOUS
<1>1. ASSUME NEW x \in Admins, Photos!BuildDraft(x) PROVE PhotosInv'
  BY <1>1, BuildDraftKeeps
<1>2. ASSUME NEW x \in Admins, Photos!Cancel(x) \/ Photos!Report(x) PROVE PhotosInv'
  BY <1>2, OneSheet, NoSheetIs DEF Photos!Cancel, Photos!Report
<1>3. ASSUME NEW x \in Admins, Photos!Confirm(x) PROVE PhotosInv'
  BY <1>3, ConfirmKeeps
<1>4. ASSUME NEW x \in Admins, NEW p \in Classes, Photos!ApplyGroup(x, p) PROVE PhotosInv'
  BY <1>4, ApplyGroupKeeps
<1>5. ASSUME NEW x \in Admins, NEW p \in Classes, Photos!ApplyFails(x, p) PROVE PhotosInv'
  BY <1>5, ApplyFailsKeeps
<1>6. ASSUME NEW p \in Classes, Photos!SiteSync(p) PROVE PhotosInv'
  BY <1>6, SiteSyncKeeps
<1>7. ASSUME NEW p \in Classes, Photos!Promote(p) PROVE PhotosInv'
  BY <1>7, PromoteKeeps
<1>8. CASE Photos!Crash
  <2>1. sheets' = [x \in Admins |-> Photos!NoSheet] /\ UNCHANGED <<kept, followed>>
    BY <1>8 DEF Photos!Crash
  <2>2. QED BY <2>1 DEF PhotosInv, SheetIs, Photos!NoSheet
<1>9. CASE UNCHANGED <<kept, followed, sheets>>
  <2>1. ASSUME NEW y \in Admins PROVE SheetIs(sheets[y])'
    <3>1. PICK t : t = sheets[y]
      OBVIOUS
    <3>2. SheetIs(t)'
      BY <1>9, <3>1, SheetStays DEF PhotosInv
    <3>3. QED BY <1>9, <3>1, <3>2 DEF SheetIs
  <2>2. QED BY <1>9, <2>1 DEF PhotosInv
<1>10. QED BY <1>1, <1>2, <1>3, <1>4, <1>5, <1>6, <1>7, <1>8, <1>9
           DEF Photos!Next, Photos!RecognitionFails, Photos!Listed, photoVars

LEMMA PhotosStart == Photos!Init => PhotosInv
<1>. SUFFICES ASSUME Photos!Init PROVE PhotosInv
  OBVIOUS
<1>1. /\ sheets = [x \in Admins |-> Photos!NoSheet]
      /\ followed = [q \in Classes |-> IF q \in listed THEN "real" ELSE "pending"]
  BY DEF Photos!Init
<1>2. PICK days : kept = [q \in Classes |-> [k \in {"pending", "real"} |-> IF k = followed[q] THEN days ELSE {}]]
  BY DEF Photos!Init, Photos!SourceKinds
<1>3. QED BY <1>1, <1>2 DEF PhotosInv, SheetIs

LEMMA SheetsSafe == PhotosInv => Photos!SheetWorkedOff
<1>. SUFFICES ASSUME PhotosInv, NEW x \in Admins, sheets[x] # Photos!NoSheet
              PROVE  sheets[x].left \cup sheets[x].done \cup sheets[x].refused = DOMAIN sheets[x].drafts
  BY DEF Photos!SheetWorkedOff
<1>1. QED BY OpenSheet DEF SheetHas

(* A group that has just been applied was so by its own step. *)
LEMMA AppliedIs ==
  ASSUME PhotosInv, [Photos!Next]_photoVars, NEW x \in Admins, NEW p \in Classes, Photos!Applied(x, p)
  PROVE  /\ DraftIs(p, sheets[x].drafts[p])
         /\ Photos!ApplyGroup(x, p)
<1>1. /\ sheets[x].step = "applying" /\ p \in sheets[x].left
      /\ sheets'[x].step = "applying" /\ p \in sheets'[x].done
  BY DEF Photos!Applied, Photos!At
<1>2. SheetHas(sheets[x]) /\ DraftIs(p, sheets[x].drafts[p]) /\ p \notin sheets[x].done
  BY <1>1, OpenSheet DEF SheetHas
<1>3. PICK s, new : s = sheets[x] /\ new = sheets'[x]
  OBVIOUS
<1>4. s.step = "applying" /\ p \in s.left /\ p \notin s.done /\ SheetHas(s) /\ new.step = "applying" /\ p \in new.done
  BY <1>1, <1>2, <1>3
<1>5. DOMAIN sheets = Admins
  BY DEF PhotosInv
<1>6. new # s /\ new # Photos!NoSheet
  BY <1>4, StepOfSheet
<1>7. ASSUME NEW q \in Classes,
             new = [s EXCEPT !.drafts[q].late = TRUE] \/ new = [s EXCEPT !.drafts[q].moved = TRUE]
      PROVE  FALSE
  BY <1>4, <1>7 DEF SheetHas
<1>8. ASSUME NEW y \in Admins, Photos!BuildDraft(y) PROVE FALSE
  BY <1>3, <1>4, <1>5, <1>6, <1>8 DEF Photos!BuildDraft, Photos!At
<1>9. ASSUME NEW y \in Admins, Photos!Cancel(y) \/ Photos!Report(y) PROVE FALSE
  BY <1>3, <1>5, <1>6, <1>9 DEF Photos!Cancel, Photos!Report
<1>10. ASSUME NEW y \in Admins, Photos!Confirm(y) PROVE FALSE
  BY <1>3, <1>4, <1>5, <1>6, <1>10 DEF Photos!Confirm, Photos!At
<1>11. ASSUME NEW y \in Admins, NEW q \in Classes, Photos!ApplyFails(y, q) PROVE FALSE
  <2>1. sheets' = [sheets EXCEPT ![y] = [[sheets[y] EXCEPT !.left = @ \ {q}] EXCEPT !.refused = @ \cup {q}]]
    BY <1>5, <1>11 DEF Photos!ApplyFails, Photos!GroupRefused
  <2>2. y = x
    BY <1>3, <1>5, <1>6, <2>1
  <2>3. new = [[s EXCEPT !.left = s.left \ {q}] EXCEPT !.refused = s.refused \cup {q}]
    BY <1>3, <1>5, <2>1, <2>2
  <2>4. new.done = s.done
    BY <1>4, <2>3 DEF SheetHas
  <2>5. QED BY <1>4, <2>4
<1>12. ASSUME NEW q \in Classes, Photos!SiteSync(q) PROVE FALSE
  <2>1. new = s \/ new = [s EXCEPT !.drafts[q].late = TRUE]
    BY <1>3, <1>12 DEF Photos!SiteSync, Photos!Outdated
  <2>2. QED BY <1>6, <1>7, <2>1
<1>13. ASSUME NEW q \in Classes, Photos!Promote(q) PROVE FALSE
  <2>1. new = s \/ new = [s EXCEPT !.drafts[q].moved = TRUE]
    BY <1>3, <1>13 DEF Photos!Promote
  <2>2. QED BY <1>6, <1>7, <2>1
<1>14. CASE Photos!Crash
  BY <1>3, <1>6, <1>14 DEF Photos!Crash
<1>15. ASSUME NEW y \in Admins, NEW q \in Classes, Photos!ApplyGroup(y, q) PROVE y = x /\ q = p
  <2>1. PICK k, flagged : k = sheets[y].drafts[q].kind /\ flagged = Photos!Outdated(q, k, y)
    OBVIOUS
  <2>2. DOMAIN flagged = Admins /\ flagged[y] = sheets[y]
    BY <2>1 DEF Photos!Outdated
  <2>3. sheets' = [flagged EXCEPT ![y] = [[sheets[y] EXCEPT !.left = @ \ {q}] EXCEPT !.done = @ \cup {q}]]
    BY <1>15, <2>1, <2>2 DEF Photos!ApplyGroup
  <2>4. CASE y # x
    <3>1. new = flagged[x]
      BY <1>3, <2>2, <2>3, <2>4
    <3>2. new = s \/ new = [s EXCEPT !.drafts[q].late = TRUE]
      BY <1>3, <2>1, <3>1 DEF Photos!Outdated
    <3>3. QED BY <1>6, <1>7, <3>2
  <2>5. CASE y = x
    <3>1. new = [[s EXCEPT !.left = s.left \ {q}] EXCEPT !.done = s.done \cup {q}]
      BY <1>3, <2>2, <2>3, <2>5
    <3>2. new.done = s.done \cup {q}
      BY <1>4, <3>1 DEF SheetHas
    <3>3. QED BY <1>4, <2>5, <3>2
  <2>6. QED BY <2>4, <2>5
<1>16. CASE sheets' = sheets
  BY <1>3, <1>6, <1>16
<1>17. QED BY <1>2, <1>8, <1>9, <1>10, <1>11, <1>12, <1>13, <1>14, <1>15, <1>16
           DEF Photos!Next, Photos!RecognitionFails, Photos!Listed, photoVars

LEMMA ImportStep ==
  PhotosInv /\ [Photos!Next]_photoVars =>
    /\ [\A x \in Admins, p \in Classes :
          Photos!Applied(x, p) /\ ~sheets[x].drafts[p].moved => sheets[x].drafts[p].kind = followed[p]]_Photos!vars
    /\ [\A x \in Admins, p \in Classes :
          Photos!Applied(x, p) /\ ~sheets[x].drafts[p].late =>
            kept[p][sheets[x].drafts[p].kind] \subseteq kept'[p][sheets[x].drafts[p].kind]]_Photos!vars
<1>. SUFFICES ASSUME PhotosInv, [Photos!Next]_photoVars, NEW x \in Admins, NEW p \in Classes, Photos!Applied(x, p)
              PROVE  /\ ~sheets[x].drafts[p].moved => sheets[x].drafts[p].kind = followed[p]
                     /\ ~sheets[x].drafts[p].late =>
                          kept[p][sheets[x].drafts[p].kind] \subseteq kept'[p][sheets[x].drafts[p].kind]
  OBVIOUS
<1>1. PICK d : d = sheets[x].drafts[p]
  OBVIOUS
<1>2. DraftIs(p, d) /\ Photos!ApplyGroup(x, p)
  BY <1>1, AppliedIs
<1>3. kept' = [kept EXCEPT ![p][d.kind] = d.base \cup {SheetOf[x].day}]
  BY <1>1, <1>2 DEF Photos!ApplyGroup, Photos!Merged
<1>4. d.kind \in DOMAIN kept[p] /\ p \in DOMAIN kept
  BY <1>2 DEF DraftIs, PhotosInv
<1>5. kept'[p][d.kind] = d.base \cup {SheetOf[x].day}
  BY <1>3, <1>4
<1>6. d.moved \in BOOLEAN /\ d.late \in BOOLEAN
  BY <1>2 DEF DraftIs
<1>7. ~d.moved => d.kind = followed[p]
  BY <1>2, <1>6 DEF DraftIs
<1>8. ~d.late => kept[p][d.kind] \subseteq kept'[p][d.kind]
  BY <1>2, <1>5, <1>6 DEF DraftIs
<1>9. QED BY <1>1, <1>7, <1>8

-----------------------------------------------------------------------------
(* A published job is run or has used up its attempts, the administrators hear of every *)
(* outage and of its end, and of nothing once the bot is stopping (message_broker.py,   *)
(* system_status.py, error_reporting.py).                                               *)
THEOREM FailuresAreTold == BackgroundSpec => []FailuresAreKnown
<1>. DEFINE AllInv == QueuesInv /\ OutagesInv /\ ReporterInv
<1>1. BackgroundInit => AllInv
  BY EachStart, QueuesStart, OutagesStart, ReporterStart
<1>2. AllInv /\ [BackgroundNext]_allVars => AllInv'
  BY EachPart, QueuesStep, OutagesStep, ReporterStep
<1>3. AllInv => FailuresAreKnown
  BY JobsHeld, OutagesSafe, ReporterSafe DEF FailuresAreKnown, QueuesInv
<1>. HIDE DEF AllInv
<1>4. QED BY <1>1, <1>2, <1>3, PTL DEF BackgroundSpec

(* A component is told to be down only after as many failures in a row as it needs *)
(* (report_component_status, system_status.py).                                    *)
THEOREM OutagesAreConfirmed == BackgroundSpec => OutageConfirmed
<1>1. BackgroundInit => OutagesInv
  BY EachStart, OutagesStart
<1>2. OutagesInv /\ [BackgroundNext]_allVars => OutagesInv'
  BY EachPart, OutagesStep
<1>3. OutagesInv /\ [BackgroundNext]_allVars =>
        [\A c \in Watched : (told[c] /\ ~told'[c]) =>
            Len(recent[c]) = Needed[c] /\ \A i \in DOMAIN recent[c] : ~recent[c][i]]_Outages!vars
  BY EachPart, OutageStep
<1>4. [][\A c \in Watched : (told[c] /\ ~told'[c]) =>
            Len(recent[c]) = Needed[c] /\ \A i \in DOMAIN recent[c] : ~recent[c][i]]_Outages!vars => OutageConfirmed
  <2>1. Outages!Len(<<>>) = Len(<<>>)
    OBVIOUS
  <2>2. QED BY <2>1, PTL DEF OutageConfirmed, Outages!OutageConfirmed
<1>5. QED BY <1>1, <1>2, <1>3, <1>4, PTL DEF BackgroundSpec

(* The archive has the newest observation of a day and the references the earliest ones, an *)
(* error is told once in a window and within the budget of an hour (schedule_archive.py,    *)
(* archive_backfill.py, error_reporting.py).                                                *)
THEOREM TimesAreKept == BackgroundSpec => []TimesRespected
<1>. DEFINE AllInv == ReporterInv /\ ArchiveInv /\ ReferencesInv
<1>1. BackgroundInit => AllInv
  BY EachStart, ReporterStart, ArchiveStart, ReferencesStart
<1>2. AllInv /\ [BackgroundNext]_allVars => AllInv'
  BY EachPart, ReporterStep, ArchiveStep, ReferencesStep, BackgroundAssumption
<1>3. AllInv => TimesRespected
  BY ArchiveSafe, ReferencesSafe, BackgroundAssumption DEF TimesRespected, ReporterInv
<1>. HIDE DEF AllInv
<1>4. QED BY <1>1, <1>2, <1>3, PTL DEF BackgroundSpec

(* A group the site showed is known or looked for again, whoever waits for an id is followed, *)
(* a site that is away loses nobody, a sheet of photos is worked off (group_catalog.py,       *)
(* schedule_search.py, ocr_import.py).                                                        *)
THEOREM NobodyIsLost == BackgroundSpec => []CatalogueHolds
<1>. DEFINE AllInv == CatalogueInv /\ DirectoryInv /\ PhotosInv
<1>1. BackgroundInit => AllInv
  BY EachStart, CatalogueStart, DirectoryStart, PhotosStart
<1>2. AllInv /\ [BackgroundNext]_allVars => AllInv'
  BY EachPart, CatalogueStep, DirectoryStep, PhotosStep
<1>3. AllInv => CatalogueHolds
  BY SheetsSafe DEF CatalogueHolds, CatalogueInv, DirectoryInv
<1>. HIDE DEF AllInv
<1>4. QED BY <1>1, <1>2, <1>3, PTL DEF BackgroundSpec

(* What a step does to the subscriptions and to an import. *)
OnlyOfName ==
  \A n \in Unlisted : bound[n] = "pending" /\ bound'[n] # "pending" =>
      stale \/ {t \in read : NameOf[t] = n} = {bound'[n]}

Follows ==
  \A x \in Admins, c \in Classes :
      Photos!Applied(x, c) /\ ~sheets[x].drafts[c].moved => sheets[x].drafts[c].kind = followed[c]

Stays ==
  \A x \in Admins, c \in Classes :
      Photos!Applied(x, c) /\ ~sheets[x].drafts[c].late =>
          kept[c][sheets[x].drafts[c].kind] \subseteq kept'[c][sheets[x].drafts[c].kind]

LEMMA ImportsStayAndFollow ==
  /\ [][Follows]_Photos!vars => Photos!ImportsAreFollowed
  /\ [][Stays]_Photos!vars => Photos!OtherDaysStay
<1>1. [][Follows]_Photos!vars => Photos!ImportsAreFollowed
  BY PTL DEF Photos!ImportsAreFollowed, Follows
<1>2. [][Stays]_Photos!vars => Photos!OtherDaysStay
  BY PTL DEF Photos!OtherDaysStay, Stays
<1>3. QED BY <1>1, <1>2

(* A subscription moves to the only teacher of its name, an import comes to the source that *)
(* is followed and leaves the other days of the week alone (schedule_search.py,             *)
(* ocr_import.py).                                                                          *)
THEOREM NamesAreRight == BackgroundSpec => NamesMatch
<1>1. BackgroundInit => DirectoryInv /\ PhotosInv
  BY EachStart, DirectoryStart, PhotosStart
<1>2. DirectoryInv /\ PhotosInv /\ [BackgroundNext]_allVars => DirectoryInv' /\ PhotosInv'
  BY EachPart, DirectoryStep, PhotosStep
<1>3. DirectoryInv /\ PhotosInv /\ [BackgroundNext]_allVars =>
        [OnlyOfName]_Directory!vars /\ [Follows]_Photos!vars /\ [Stays]_Photos!vars
  BY EachPart, NamesakeStep, ImportStep DEF OnlyOfName, Follows, Stays
<1>4. [][OnlyOfName]_Directory!vars => Directory!OnlyNamesake
  BY PTL DEF Directory!OnlyNamesake, OnlyOfName
<1>5. QED BY <1>1, <1>2, <1>3, <1>4, ImportsStayAndFollow, PTL DEF BackgroundSpec, NamesMatch
=============================================================================
