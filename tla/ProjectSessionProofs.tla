------------------------ MODULE ProjectSessionProofs ------------------------
(***************************************************************************)
(* For any number of projects, calls, ingests and reviewers: the variables *)
(* keep their types; and when openings do not overlap and no ingest        *)
(* outlives its visit, items stay in their project, and so do sweeps,      *)
(* however slow the openings, the saves and the debounce are, and whatever *)
(* ids repeat.                                                             *)
(* With quick openings and whole writes, what has been saved stays.        *)
(***************************************************************************)
EXTENDS ProjectSession, TLAPS

Own == OneCall /\ CallsStand /\ IngestsAreHere /\ ItemsAreHere
       /\ TimersAreFresh /\ SavesAreHome

\* The initial state is typed and empty.
LEMMA InitIInv == Init => IInv
  BY ProjectAssumption, NumberAssumption
  DEF Init, IInv, TypeOK, OneCall, CallsStand, IngestsAreHere, ItemsAreHere, TimersAreFresh,
      SavesAreHome, About, Anywhere, IdleCall, IdleIngest, IdleReviewer, CallState, IngestState, ReviewerState

\* Resolving items leaves their numbers as they are.
LEMMA ResolvedIsTyped ==
  ASSUME TypeOK, NEW ids
  PROVE  /\ Resolved(ids) \subseteq Item
         /\ \A i \in Resolved(ids) : \E j \in items : i.n = j.n
<1> DEFINE done(j) == [j EXCEPT !.resolved = TRUE]
<1>1. \A j \in Item : done(j) \in Item /\ done(j).n = j.n
  BY DEF Item
<1>2. items \subseteq Item
  BY DEF TypeOK
<1>3. Resolved(ids) = (items \ WithId(ids)) \cup {done(j) : j \in WithId(ids)}
  BY DEF Resolved
<1>4. WithId(ids) \subseteq items
  BY DEF WithId
<1> HIDE DEF done
<1> QED
  BY <1>1, <1>2, <1>3, <1>4

\* A number that is made afresh is nobody's yet.
LEMMA FreshIsNew ==
  ASSUME Made # Ns
  PROVE  Fresh \in Ns /\ home[Fresh] = NoProject
  BY DEF Made, Fresh

-----------------------------------------------------------------------------
(***************************************************************************)
(* Types.                                                                  *)
(***************************************************************************)
\* A budget is spent only while there is some.
LEMMA SpendIsTyped ==
  ASSUME TypeOK, NEW what \in {"leaves", "clicks", "restarts"}, Spend(what)
  PROVE  budget' \in [{"leaves", "clicks", "restarts"} -> Nat]
<1>1. budget[what] \in Nat /\ budget[what] > 0
  BY DEF TypeOK, Spend
<1>2. budget[what] - 1 \in Nat
  BY <1>1
<1> QED
  BY <1>2 DEF TypeOK, Spend

\* An item that is added has a number of its own.
LEMMA AddIsTyped ==
  ASSUME TypeOK, NEW p \in Anywhere, Add(p)
  PROVE  /\ items' \subseteq Item /\ counter' \in Nat /\ timers' \subseteq SUBSET Item
         /\ home' \in [Ns -> Anywhere]
<1> DEFINE new == [n |-> Fresh, id |-> counter + 1, resolved |-> FALSE]
<1>1. Fresh \in Ns
  BY FreshIsNew DEF Add
<1>2. new \in Item /\ counter + 1 \in Nat
  BY <1>1 DEF TypeOK, Item
<1>3. items' = items \cup {new} /\ timers' = {items'}
  BY DEF Add, Change, Rearm
<1>4. items' \subseteq Item
  BY <1>2, <1>3 DEF TypeOK
<1>5. home' \in [Ns -> Anywhere]
  BY <1>1 DEF Add, TypeOK
<1> QED
  BY <1>2, <1>3, <1>4, <1>5 DEF Add

\* An opening knows which project it opens.
OpenersKnow ==
  \A c \in Calls : call[c].pc \in {"resetting", "listing"} => call[c].proj \in Projects

\* Only OpenProject chooses the project, and it chooses one.
LEMMA OpenersKeepKnowing ==
  ASSUME TypeOK, OpenersKnow, [Next]_vars
  PROVE  OpenersKnow'
<1> USE DEF OpenersKnow
<1>1. ASSUME NEW c \in Calls, NEW now, call' = [call EXCEPT ![c] = now],
             now.pc \in {"resetting", "listing"} => now.proj \in Projects
      PROVE  OpenersKnow'
  BY <1>1 DEF TypeOK
<1>2. ASSUME NEW c \in Calls, NEW p \in Projects, OpenProject(c, p) PROVE OpenersKnow'
  BY <1>1, <1>2 DEF OpenProject, Reset, IdleCall
<1>3. ASSUME NEW c \in Calls, SetProject(c) PROVE OpenersKnow'
  BY <1>3 DEF SetProject, TypeOK, CallState
<1>4. ASSUME NEW c \in Calls, LoadReviewItems(c) PROVE OpenersKnow'
  <2>1. PICK loaded : call' = [call EXCEPT ![c] = [call[c] EXCEPT !.pc = "loading", !.loaded = loaded]]
    BY <1>4 DEF LoadReviewItems
  <2>2. [call[c] EXCEPT !.pc = "loading", !.loaded = loaded].pc = "loading"
    BY DEF TypeOK, CallState
  <2> QED
    BY <1>1, <2>1, <2>2
<1>5. ASSUME NEW c \in Calls, SetItems(c) \/ LeaveProject(c) \/ LeftProject(c) PROVE OpenersKnow'
  BY <1>1, <1>5 DEF SetItems, LeaveProject, LeftProject, Reset, IdleCall
<1>6. CASE Restart
  BY <1>6 DEF Restart, IdleCall
<1>7. CASE UNCHANGED call
  BY <1>7
<1>8. ASSUME NEW c \in Calls, Session(c) PROVE OpenersKnow'
  BY <1>2, <1>3, <1>4, <1>5, <1>8 DEF Session
<1>9. CASE AddFromLint \/ clearResolved \/ \E i \in items : dismissItem(i)
  BY <1>7, <1>9 DEF AddFromLint, clearResolved, dismissItem, flights
<1>10. ASSUME NEW i \in Ingests, BeginIngest(i) \/ EndIngest(i) PROVE OpenersKnow'
  BY <1>7, <1>10 DEF BeginIngest, EndIngest
<1>11. ASSUME NEW r \in Reviewers, Review(r) PROVE OpenersKnow'
  BY <1>7, <1>11 DEF Review, StartSweep, ApplyRules, Judge, Sweep, QuitSweep, Click, Decide
<1>12. CASE (\E t \in timers : Fire(t)) \/ (\E s \in saving : Land(s))
  BY <1>7, <1>12 DEF Fire, Land, flights
<1>13. CASE UNCHANGED vars
  BY <1>7, <1>13 DEF vars, flights
<1> QED
  BY <1>6, <1>8, <1>9, <1>10, <1>11, <1>12, <1>13 DEF Next

\* Each action keeps the types.
LEMMA SessionIsTyped ==
  ASSUME TypeOK, OpenersKnow, NEW c \in Calls, Session(c)
  PROVE  TypeOK'
<1>1. ASSUME NEW p \in Projects, OpenProject(c, p) PROVE TypeOK'
  BY <1>1 DEF TypeOK, OpenProject, Reset, Change, Rearm, disk, IdleCall, CallState, Anywhere
<1>2. CASE SetProject(c)
  BY <1>2 DEF TypeOK, SetProject, disk, CallState, Anywhere
<1>3. CASE LoadReviewItems(c)
  <2>1. PICK loaded \in SUBSET Item :
          call' = [call EXCEPT ![c] = [call[c] EXCEPT !.pc = "loading", !.loaded = loaded]]
    <3>1. call[c].proj \in Projects => file[call[c].proj] \subseteq Item
      BY DEF TypeOK
    <3>2. call[c].proj \in Projects
      BY <1>3 DEF LoadReviewItems, OpenersKnow
    <3> DEFINE read == {file[call[c].proj]} \cup (IF BeingWritten(call[c].proj) THEN {{}} ELSE {})
    <3>3. read \subseteq SUBSET Item
      BY <3>1, <3>2
    <3>4. \E loaded \in read :
            call' = [call EXCEPT ![c] = [call[c] EXCEPT !.pc = "loading", !.loaded = loaded]]
      BY <1>3 DEF LoadReviewItems
    <3> HIDE DEF read
    <3> QED
      BY <3>3, <3>4
  <2>2. call \in [Calls -> CallState]
    BY DEF TypeOK
  <2>3. call' \in [Calls -> CallState]
    <3> DEFINE now == [call[c] EXCEPT !.pc = "loading", !.loaded = loaded]
    <3>1. now \in CallState
      BY <2>2 DEF CallState
    <3>2. call' = [call EXCEPT ![c] = now]
      BY <2>1
    <3> HIDE DEF now
    <3> QED
      BY <2>2, <3>1, <3>2
  <2>4. UNCHANGED <<store, disk, ingest, reviewer, budget, home, removed>>
    BY <1>3 DEF LoadReviewItems
  <2> QED
    BY <2>3, <2>4 DEF TypeOK, store, disk
<1>4. CASE SetItems(c)
  BY <1>4 DEF TypeOK, SetItems, Change, Rearm, disk, IdleCall, CallState, Anywhere
<1>5. CASE LeaveProject(c)
  <2>1. budget' \in [{"leaves", "clicks", "restarts"} -> Nat]
    BY <1>5, SpendIsTyped DEF LeaveProject
  <2> QED
    BY <1>5, <2>1 DEF TypeOK, LeaveProject, Reset, Change, Rearm, disk, IdleCall, CallState, Anywhere
<1>6. CASE LeftProject(c)
  BY <1>6 DEF TypeOK, LeftProject, disk, IdleCall, CallState, Anywhere
<1> QED
  BY <1>1, <1>2, <1>3, <1>4, <1>5, <1>6 DEF Session

\* An ingest adds typed items, or none.
LEMMA IngestIsTyped ==
  ASSUME TypeOK, NEW i \in Ingests, BeginIngest(i) \/ EndIngest(i)
  PROVE  TypeOK'
<1>1. CASE BeginIngest(i)
  BY <1>1 DEF TypeOK, BeginIngest, store, disk, IngestState
<1>2. CASE EndIngest(i)
  <2>1. ingest' \in [Ingests -> IngestState]
    BY <1>2 DEF TypeOK, EndIngest, IdleIngest, IngestState, Anywhere
  <2>2. ingest[i].proj \in Anywhere
    BY DEF TypeOK, IngestState
  <2>3. /\ items' \subseteq Item /\ counter' \in Nat /\ timers' \subseteq SUBSET Item
        /\ home' \in [Ns -> Anywhere]
    BY <1>2, <2>2, AddIsTyped DEF TypeOK, EndIngest, Change, Rearm
  <2> QED
    BY <1>2, <2>1, <2>3 DEF TypeOK, EndIngest, disk
<1> QED
  BY <1>1, <1>2

\* A sweep turns items into resolved ones.
LEMMA SweepIsTyped ==
  ASSUME TypeOK, NEW r \in Reviewers, NEW pc, NEW next \in {"idle", "judge"}, Sweep(r, pc, next)
  PROVE  TypeOK'
<1>1. PICK done \in SUBSET reviewer[r].seen :
        /\ IF done = {} THEN UNCHANGED <<items, timers>> ELSE resolveItem({i.id : i \in done})
        /\ reviewer' = [reviewer EXCEPT ![r] =
             IF next = "idle" \/ done = reviewer[r].seen THEN IdleReviewer
             ELSE [reviewer[r] EXCEPT !.pc = next, !.seen = reviewer[r].seen \ done]]
  BY DEF Sweep
<1>2. items' \subseteq Item /\ timers' \subseteq SUBSET Item
  <2>1. CASE done = {}
    BY <1>1, <2>1 DEF TypeOK
  <2>2. CASE done # {}
    <3> DEFINE ids == {i.id : i \in done}
    <3>1. resolveItem(ids)
      BY <1>1, <2>2
    <3> HIDE DEF ids
    <3> QED
      BY <3>1, ResolvedIsTyped DEF resolveItem, Change, Rearm
  <2> QED
    BY <2>1, <2>2
<1>3. reviewer[r] \in ReviewerState
  BY DEF TypeOK
<1>4. IdleReviewer \in ReviewerState
  BY DEF IdleReviewer, ReviewerState, Anywhere
<1>5. [reviewer[r] EXCEPT !.pc = next, !.seen = reviewer[r].seen \ done] \in ReviewerState
  BY <1>3 DEF ReviewerState
<1>6. reviewer' \in [Reviewers -> ReviewerState]
  BY <1>1, <1>4, <1>5 DEF TypeOK
<1> QED
  BY <1>2, <1>6 DEF TypeOK, Sweep, disk

\* So does a decision; the other steps of a review only note what is pending.
LEMMA ReviewIsTyped ==
  ASSUME TypeOK, NEW r \in Reviewers, Review(r)
  PROVE  TypeOK'
<1>1. CASE StartSweep(r)
  BY <1>1 DEF TypeOK, StartSweep, store, disk, ReviewerState, Pending
<1>2. CASE ApplyRules(r) \/ Judge(r)
  BY <1>2, SweepIsTyped DEF ApplyRules, Judge
<1>3. CASE QuitSweep(r)
  BY <1>3 DEF TypeOK, QuitSweep, store, disk, IdleReviewer, ReviewerState, Anywhere
<1>4. ASSUME NEW i \in items, Click(r, i) PROVE TypeOK'
  <2>1. budget' \in [{"leaves", "clicks", "restarts"} -> Nat]
    BY <1>4, SpendIsTyped DEF Click
  <2> QED
    BY <1>4, <2>1 DEF TypeOK, Click, store, disk, ReviewerState, Pending
<1>5. CASE Decide(r)
  <2>1. items' \subseteq Item /\ timers' \subseteq SUBSET Item
    BY <1>5, ResolvedIsTyped DEF TypeOK, Decide, resolveItem, Change, Rearm
  <2> QED
    BY <1>5, <2>1 DEF TypeOK, Decide, disk, IdleReviewer, ReviewerState, Anywhere
<1> QED
  BY <1>1, <1>2, <1>3, <1>4, <1>5 DEF Review

\* The user takes items away, or adds one from the lint view.
LEMMA UserIsTyped ==
  ASSUME TypeOK, AddFromLint \/ clearResolved \/ \E i \in items : dismissItem(i)
  PROVE  TypeOK'
<1>1. budget' \in [{"leaves", "clicks", "restarts"} -> Nat]
  BY SpendIsTyped DEF AddFromLint, clearResolved, dismissItem
<1>2. CASE AddFromLint
  <2>1. /\ items' \subseteq Item /\ counter' \in Nat /\ timers' \subseteq SUBSET Item
        /\ home' \in [Ns -> Anywhere]
    BY <1>2, AddIsTyped DEF AddFromLint, TypeOK
  <2> QED
    BY <1>1, <1>2, <2>1 DEF AddFromLint, TypeOK, disk, flights
<1>3. ASSUME NEW gone \in SUBSET items, Remove(gone)
      PROVE  items' \subseteq Item /\ timers' \subseteq SUBSET Item /\ removed' \subseteq Ns
  BY <1>3 DEF TypeOK, Remove, Change, Rearm, Of, Item
<1>4. CASE clearResolved
  BY <1>1, <1>3, <1>4 DEF clearResolved, TypeOK, disk, flights, Pending
<1>5. ASSUME NEW i \in items, dismissItem(i) PROVE TypeOK'
  BY <1>1, <1>3, <1>5 DEF dismissItem, TypeOK, disk, flights, WithId
<1> QED
  BY <1>2, <1>4, <1>5

\* What is saved, and what becomes the file, is a set of items.
LEMMA SaveIsTyped ==
  ASSUME TypeOK, (\E t \in timers : Fire(t)) \/ (\E s \in saving : Land(s)) \/ Restart
  PROVE  TypeOK'
<1>1. ASSUME NEW t \in timers, Fire(t) PROVE TypeOK'
  BY <1>1 DEF TypeOK, Fire, flights, Anywhere
<1>2. ASSUME NEW s \in saving, Land(s) PROVE TypeOK'
  <2>1. s.proj \in Projects /\ s.items \subseteq Item
    BY DEF TypeOK
  <2>2. {n \in Of(s.items) : home[n] = s.proj} \subseteq Ns
    BY <2>1 DEF Of, Item
  <2> QED
    BY <1>2, <2>1, <2>2 DEF TypeOK, Land, store, flights
<1>3. CASE Restart
  <2>1. budget' \in [{"leaves", "clicks", "restarts"} -> Nat]
    BY <1>3, SpendIsTyped DEF Restart
  <2>2. call' \in [Calls -> CallState] /\ reviewer' \in [Reviewers -> ReviewerState]
    BY <1>3 DEF Restart, IdleCall, CallState, IdleReviewer, ReviewerState, Anywhere
  <2>3. ingest' \in [Ingests -> IngestState]
    BY <1>3 DEF Restart, TypeOK, IdleIngest, IngestState, Anywhere
  <2>4. file' \in [Projects -> SUBSET Item]
    BY <1>3 DEF Restart, CutShort, TypeOK
  <2> QED
    BY <1>3, <2>1, <2>2, <2>3, <2>4 DEF TypeOK, Restart, Anywhere
<1> QED
  BY <1>1, <1>2, <1>3

-----------------------------------------------------------------------------
(***************************************************************************)
(* Who owns what.                                                          *)
(***************************************************************************)
\* Items that are changed, resolved or taken away are still about the open
\* project.
LEMMA OldItemsAreOwned ==
  ASSUME IInv, UNCHANGED <<project, saving, file, call, ingest, home>>,
         Change(items') \/ UNCHANGED <<items, timers>>,
         \A i \in items' : \E j \in items : i.n = j.n
  PROVE  Own'
<1>1. OneCall' /\ IngestsAreHere' /\ SavesAreHome'
  BY DEF IInv, OneCall, IngestsAreHere, SavesAreHome, About
<1>2. items = {} => items' = {}
  OBVIOUS
<1>3. CallsStand'
  BY <1>2 DEF IInv, CallsStand, About
<1>4. ItemsAreHere'
  BY <1>2 DEF IInv, ItemsAreHere, About
<1>5. TimersAreFresh'
  BY DEF IInv, TimersAreFresh, Change, Rearm
<1> QED
  BY <1>1, <1>3, <1>4, <1>5 DEF Own

\* So is an item that is added while nobody is leaving.
LEMMA NewItemIsOwned ==
  ASSUME IInv, project \in Projects, Add(project), UNCHANGED <<project, saving, file, call>>,
         \A c \in Calls : call[c].pc # "leaving",
         IngestsAreHere'
  PROVE  Own'
<1>1. Fresh \in Ns /\ home[Fresh] = NoProject
  BY FreshIsNew DEF Add
<1>2. home' = [home EXCEPT ![Fresh] = project] /\ home \in [Ns -> Anywhere]
  BY DEF Add, IInv, TypeOK
<1>3. ASSUME NEW is, NEW p \in Projects, is \subseteq Item, About(is, p) PROVE About(is, p)'
  BY <1>1, <1>2, <1>3, ProjectAssumption DEF About, Item
<1>4. OneCall'
  BY DEF IInv, OneCall
<1>5. CallsStand'
  <2>1. \A c \in Calls : call[c].loaded \subseteq Item
    BY DEF IInv, TypeOK, CallState
  <2>2. SUFFICES ASSUME NEW c \in Calls, call[c].pc = "loading"
                 PROVE  About(call[c].loaded, call[c].proj)'
    BY DEF IInv, CallsStand
  <2> QED
    BY <1>3, <2>1, <2>2 DEF IInv, CallsStand, About
<1>6. SavesAreHome'
  BY <1>3 DEF IInv, TypeOK, SavesAreHome, About
<1>7. ItemsAreHere'
  <2>1. About(items, project) /\ items \subseteq Item
    BY DEF IInv, TypeOK, ItemsAreHere, About
  <2>2. \A i \in items : home'[i.n] = project
    BY <1>3, <2>1 DEF About
  <2>3. items' = items \cup {[n |-> Fresh, id |-> counter + 1, resolved |-> FALSE]}
    BY DEF Add, Change
  <2>4. home'[Fresh] = project
    BY <1>1, <1>2
  <2> QED
    BY <2>2, <2>3, <2>4 DEF ItemsAreHere, About
<1>8. TimersAreFresh'
  BY DEF Add, Change, Rearm, TimersAreFresh
<1> QED
  BY <1>4, <1>5, <1>6, <1>7, <1>8 DEF Own

\* Nobody else works on opening or leaving.
LEMMA SoleCall ==
  ASSUME IInv, NEW c \in Calls, call[c].pc # "idle"
  PROVE  \A d \in Calls \ {c} : call[d].pc = "idle"
  BY DEF IInv, OneCall

\* The update of a call's state reaches no other call.
LEMMA CallIsUpdated ==
  ASSUME IInv, NEW c \in Calls, NEW now, call' = [call EXCEPT ![c] = now]
  PROVE  call'[c] = now /\ \A d \in Calls \ {c} : call'[d] = call[d]
  BY DEF IInv, TypeOK

\* Opening: the store is empty from the reset until the file's items arrive.
LEMMA OpenProjectKeepsOwn ==
  ASSUME IInv, "oneOpening" \in Assumed, NEW c \in Calls, NEW p \in Projects, OpenProject(c, p)
  PROVE  Own'
<1>1. \A d \in Calls : call[d].pc = "idle"
  BY DEF OpenProject, NoRival, Idle, IInv, TypeOK
<1>2. /\ call'[c] = [IdleCall EXCEPT !.pc = "resetting", !.proj = p]
      /\ \A d \in Calls \ {c} : call'[d] = call[d]
  BY CallIsUpdated DEF OpenProject, Reset
<1>3. items' = {} /\ timers' = {{}} /\ project = NoProject
  BY DEF OpenProject, Reset, Change, Rearm
<1>4. UNCHANGED <<project, saving, file, ingest, home>>
  BY DEF OpenProject, disk
<1>5. call'[c].pc = "resetting" /\ call'[c].proj = p
  BY <1>2 DEF IdleCall
<1>6. OneCall' /\ CallsStand'
  BY <1>1, <1>2, <1>3, <1>4, <1>5, ZenonT(60) DEF OneCall, CallsStand
<1>7. IngestsAreHere'
  BY <1>3, <1>4, ProjectAssumption DEF IInv, IngestsAreHere
<1>8. ItemsAreHere' /\ TimersAreFresh' /\ SavesAreHome'
  BY <1>3, <1>4 DEF IInv, ItemsAreHere, TimersAreFresh, SavesAreHome, About
<1> QED
  BY <1>6, <1>7, <1>8 DEF Own

\* The project changes while the store is empty and nobody is at work.
LEMMA SetProjectKeepsOwn ==
  ASSUME IInv, NEW c \in Calls, SetProject(c)
  PROVE  Own'
<1>1. project = NoProject /\ call[c].proj \in Projects /\ call[c].pc = "resetting"
  BY DEF SetProject, IInv, CallsStand
<1>2. call[c] \in CallState
  BY DEF IInv, TypeOK
<1>3. call'[c].pc = "listing" /\ call'[c].proj = call[c].proj
  BY <1>2 DEF SetProject, IInv, TypeOK, CallState
<1>4. \A d \in Calls \ {c} : call'[d] = call[d] /\ call[d].pc = "idle"
  BY <1>1, SoleCall DEF SetProject, IInv, TypeOK
<1>5. items = {} /\ \A i \in Ingests : ingest[i].pc # "running"
  BY <1>1, ProjectAssumption DEF IInv, ItemsAreHere, IngestsAreHere
<1>6. project' = call[c].proj /\ UNCHANGED <<items, timers, saving, file, ingest, home>>
  BY DEF SetProject, disk
<1>7. OneCall' /\ CallsStand'
  BY <1>1, <1>3, <1>4, <1>6 DEF OneCall, CallsStand
<1>8. IngestsAreHere' /\ ItemsAreHere' /\ TimersAreFresh' /\ SavesAreHome'
  BY <1>5, <1>6 DEF IInv, IngestsAreHere, ItemsAreHere, TimersAreFresh, SavesAreHome, About
<1> QED
  BY <1>7, <1>8 DEF Own

\* What is read is about the project whose file it is.
LEMMA LoadReviewItemsKeepsOwn ==
  ASSUME IInv, NEW c \in Calls, LoadReviewItems(c)
  PROVE  Own'
<1>1. project = call[c].proj /\ project \in Projects /\ call[c].pc = "listing"
  BY DEF LoadReviewItems, IInv, CallsStand
<1>2. PICK loaded :
        /\ loaded = file[call[c].proj] \/ loaded = {}
        /\ call' = [call EXCEPT ![c] = [call[c] EXCEPT !.pc = "loading", !.loaded = loaded]]
  BY DEF LoadReviewItems
<1>3. About(loaded, call[c].proj)
  BY <1>1, <1>2 DEF IInv, SavesAreHome, About
<1>4. /\ call'[c] = [call[c] EXCEPT !.pc = "loading", !.loaded = loaded]
      /\ \A d \in Calls \ {c} : call'[d] = call[d] /\ call[d].pc = "idle"
  BY <1>1, <1>2, CallIsUpdated, SoleCall
<1>5. call[c] \in CallState
  BY DEF IInv, TypeOK
<1>6. call'[c].pc = "loading" /\ call'[c].loaded = loaded /\ call'[c].proj = call[c].proj
  BY <1>4, <1>5 DEF CallState
<1>7. UNCHANGED <<project, items, timers, saving, file, ingest, home>>
  BY DEF LoadReviewItems, store, disk
<1>8. OneCall' /\ CallsStand'
  <2>1. \A i \in loaded : home'[i.n] = call[c].proj
    BY <1>3, <1>7 DEF About
  <2>2. About(call[c].loaded, call[c].proj)'
    BY <1>6, <2>1 DEF About
  <2>3. \A d \in Calls : call'[d].pc # "idle" => d = c
    BY <1>4
  <2>4. OneCall'
    BY <2>3 DEF OneCall
  <2>5. CallsStand'
    BY <1>1, <1>6, <1>7, <2>2, <2>3 DEF CallsStand
  <2> QED
    BY <2>4, <2>5
<1>9. IngestsAreHere'
  BY <1>4, <1>6, <1>7 DEF IInv, IngestsAreHere
<1>10. ItemsAreHere' /\ TimersAreFresh' /\ SavesAreHome'
  BY <1>7 DEF IInv, ItemsAreHere, TimersAreFresh, SavesAreHome, About
<1> QED
  BY <1>8, <1>9, <1>10 DEF Own

\* What was read is shown in that project, which is still the open one.
LEMMA SetItemsKeepsOwn ==
  ASSUME IInv, NEW c \in Calls, SetItems(c)
  PROVE  Own'
<1>1. /\ call[c].pc = "loading" /\ project = call[c].proj /\ project \in Projects
      /\ About(call[c].loaded, project)
  BY DEF SetItems, IInv, CallsStand
<1>2. call'[c] = IdleCall /\ \A d \in Calls \ {c} : call'[d] = call[d] /\ call[d].pc = "idle"
  BY <1>1, CallIsUpdated, SoleCall DEF SetItems
<1>3. IdleCall.pc = "idle"
  BY DEF IdleCall
<1>4. UNCHANGED <<project, saving, file, ingest, home>>
  BY DEF SetItems, disk
<1>5. \/ items' = items /\ timers' = timers
      \/ items' = call[c].loaded /\ timers' = {items'}
  <2>1. CASE call[c].loaded = {}
    BY <2>1 DEF SetItems
  <2>2. CASE call[c].loaded # {}
    BY <2>2 DEF SetItems, Change, Rearm
  <2> QED
    BY <2>1, <2>2
<1>6. OneCall' /\ CallsStand'
  BY <1>2, <1>3 DEF OneCall, CallsStand
<1>7. IngestsAreHere'
  BY <1>2, <1>3, <1>4 DEF IInv, IngestsAreHere
<1>8. ItemsAreHere' /\ TimersAreFresh' /\ SavesAreHome'
  BY <1>1, <1>4, <1>5 DEF IInv, ItemsAreHere, TimersAreFresh, SavesAreHome, About
<1> QED
  BY <1>6, <1>7, <1>8 DEF Own

\* Leaving: by now no ingest is running.
LEMMA LeaveProjectKeepsOwn ==
  ASSUME IInv, "oneOpening" \in Assumed, "workSettles" \in Assumed,
         NEW c \in Calls, LeaveProject(c)
  PROVE  Own'
<1>1. \A d \in Calls : call[d].pc = "idle"
  BY DEF LeaveProject, NoRival, Idle, IInv, TypeOK
<1>2. \A i \in Ingests : ingest[i].pc # "running"
  BY DEF LeaveProject, WorkUnderWay
<1>3. /\ call'[c] = [IdleCall EXCEPT !.pc = "leaving", !.proj = project]
      /\ \A d \in Calls \ {c} : call'[d] = call[d]
  BY CallIsUpdated DEF LeaveProject, Reset
<1>4. call'[c].pc = "leaving"
  BY <1>3 DEF IdleCall
<1>5. items' = {} /\ timers' = {{}} /\ UNCHANGED <<project, saving, file, ingest, home>>
  BY DEF LeaveProject, Reset, Change, Rearm, disk
<1>6. OneCall' /\ CallsStand'
  <2>1. \A d \in Calls : call'[d].pc # "idle" => d = c
    BY <1>1, <1>3
  <2>2. OneCall'
    BY <2>1 DEF OneCall
  <2>3. CallsStand'
    BY <1>4, <1>5, <2>1 DEF CallsStand
  <2> QED
    BY <2>2, <2>3
<1>7. IngestsAreHere' /\ ItemsAreHere' /\ TimersAreFresh' /\ SavesAreHome'
  BY <1>2, <1>5 DEF IInv, IngestsAreHere, ItemsAreHere, TimersAreFresh, SavesAreHome, About
<1> QED
  BY <1>6, <1>7 DEF Own

\* The store has stayed empty since the reset, and the project is given up.
LEMMA LeftProjectKeepsOwn ==
  ASSUME IInv, NEW c \in Calls, LeftProject(c)
  PROVE  Own'
<1>1. items = {} /\ call[c].pc = "leaving" /\ \A i \in Ingests : ingest[i].pc # "running"
  BY DEF LeftProject, IInv, CallsStand, IngestsAreHere
<1>2. call'[c] = IdleCall /\ \A d \in Calls \ {c} : call'[d] = call[d] /\ call[d].pc = "idle"
  BY <1>1, CallIsUpdated, SoleCall DEF LeftProject
<1>3. IdleCall.pc = "idle"
  BY DEF IdleCall
<1>4. UNCHANGED <<items, timers, saving, file, ingest, home>>
  BY DEF LeftProject, disk
<1>5. OneCall' /\ CallsStand'
  BY <1>2, <1>3 DEF OneCall, CallsStand
<1>6. IngestsAreHere' /\ ItemsAreHere' /\ TimersAreFresh' /\ SavesAreHome'
  BY <1>1, <1>4 DEF IInv, IngestsAreHere, ItemsAreHere, TimersAreFresh, SavesAreHome, About
<1> QED
  BY <1>5, <1>6 DEF Own

-----------------------------------------------------------------------------
(***************************************************************************)
(* Those who change items, and the saves.                                  *)
(***************************************************************************)
\* Work that has begun in the open project adds to that project.
LEMMA IngestKeepsOwn ==
  ASSUME IInv, NEW i \in Ingests, BeginIngest(i) \/ EndIngest(i)
  PROVE  Own'
<1> USE DEF IngestState
<1>1. CASE BeginIngest(i)
  <2>1. UNCHANGED <<project, items, timers, saving, file, call, home>>
    BY <1>1 DEF BeginIngest, store, disk
  <2>2. IngestsAreHere'
    BY <1>1, <2>1 DEF BeginIngest, Open, IInv, TypeOK, Anywhere, IngestsAreHere
  <2> QED
    BY <2>1, <2>2
    DEF IInv, Own, OneCall, CallsStand, ItemsAreHere, TimersAreFresh, SavesAreHome, About
<1>2. CASE EndIngest(i)
  <2>1. /\ project \in Projects /\ ingest[i].proj = project
        /\ \A c \in Calls : call[c].pc # "leaving"
    BY <1>2 DEF EndIngest, IInv, IngestsAreHere
  <2>2. UNCHANGED <<project, saving, file, call>>
    BY <1>2 DEF EndIngest, disk
  <2>3. IngestsAreHere'
    BY <1>2, <2>1, <2>2 DEF EndIngest, IInv, TypeOK, IngestsAreHere, IdleIngest
  <2>4. CASE Add(ingest[i].proj)
    BY <2>1, <2>2, <2>3, <2>4, NewItemIsOwned
  <2>5. CASE items' = items /\ home' = home /\ (Rearm(items) \/ timers' = timers)
    BY <2>2, <2>3, <2>5
    DEF IInv, Own, OneCall, CallsStand, ItemsAreHere, TimersAreFresh, SavesAreHome, About, Rearm
  <2>6. \/ Add(ingest[i].proj)
        \/ items' = items /\ home' = home /\ (Rearm(items) \/ timers' = timers)
    BY <1>2 DEF EndIngest, Change
  <2> QED
    BY <2>4, <2>5, <2>6
<1> QED
  BY <1>1, <1>2

\* A sweep resolves in the open project, or nothing.
LEMMA SweepKeepsOwn ==
  ASSUME IInv, NEW r \in Reviewers, NEW pc, NEW next, Sweep(r, pc, next)
  PROVE  Own'
<1>1. UNCHANGED <<project, saving, file, call, ingest, home>>
  BY DEF Sweep, disk
<1>2. PICK done \in SUBSET reviewer[r].seen :
        IF done = {} THEN UNCHANGED <<items, timers>> ELSE resolveItem({i.id : i \in done})
  BY DEF Sweep
<1>3. CASE done = {}
  BY <1>1, <1>2, <1>3, OldItemsAreOwned
<1>4. CASE done # {}
  <2> DEFINE ids == {i.id : i \in done}
  <2>1. resolveItem(ids)
    BY <1>2, <1>4
  <2> HIDE DEF ids
  <2>2. items' = Resolved(ids) /\ Change(items')
    BY <2>1 DEF resolveItem, Change, Rearm
  <2>3. \A i \in items' : \E j \in items : i.n = j.n
    BY <2>2, ResolvedIsTyped DEF IInv
  <2> QED
    BY <1>1, <2>2, <2>3, OldItemsAreOwned
<1> QED
  BY <1>3, <1>4

\* Reviews never make items.
LEMMA ReviewKeepsOwn ==
  ASSUME IInv, NEW r \in Reviewers, Review(r)
  PROVE  Own'
<1>1. ASSUME UNCHANGED <<store, disk, call, ingest, home>> PROVE Own'
  BY <1>1, OldItemsAreOwned DEF store, disk
<1>2. CASE StartSweep(r) \/ QuitSweep(r)
  BY <1>1, <1>2 DEF StartSweep, QuitSweep
<1>3. ASSUME NEW i \in items, Click(r, i) PROVE Own'
  BY <1>1, <1>3 DEF Click
<1>4. CASE ApplyRules(r) \/ Judge(r)
  BY <1>4, SweepKeepsOwn DEF ApplyRules, Judge
<1>5. CASE Decide(r)
  <2> DEFINE ids == {i.id : i \in reviewer[r].seen}
  <2>1. resolveItem(ids) /\ UNCHANGED <<project, saving, file, call, ingest, home>>
    BY <1>5 DEF Decide, disk
  <2> HIDE DEF ids
  <2>2. items' = Resolved(ids) /\ Change(items')
    BY <2>1 DEF resolveItem, Change, Rearm
  <2>3. \A i \in items' : \E j \in items : i.n = j.n
    BY <2>2, ResolvedIsTyped DEF IInv
  <2> QED
    BY <2>1, <2>2, <2>3, OldItemsAreOwned
<1> QED
  BY <1>2, <1>3, <1>4, <1>5 DEF Review

\* Nor does the user, except for the open project.
LEMMA UserKeepsOwn ==
  ASSUME IInv, AddFromLint \/ clearResolved \/ \E i \in items : dismissItem(i)
  PROVE  Own'
<1>1. CASE AddFromLint
  <2>1. UNCHANGED <<project, saving, file, call, ingest>>
    BY <1>1 DEF AddFromLint, disk, flights
  <2>2. project \in Projects /\ \A c \in Calls : call[c].pc # "leaving"
    BY <1>1 DEF AddFromLint, Open, IInv, TypeOK, Anywhere
  <2>3. IngestsAreHere'
    BY <2>1 DEF IInv, IngestsAreHere
  <2> QED
    BY <1>1, <2>1, <2>2, <2>3, NewItemIsOwned DEF AddFromLint
<1>2. ASSUME NEW gone, Remove(gone), UNCHANGED <<project, disk, flights, home>> PROVE Own'
  <2>1. Change(items') /\ \A i \in items' : \E j \in items : i.n = j.n
    BY <1>2 DEF Remove, Change, Rearm
  <2> QED
    BY <1>2, <2>1, OldItemsAreOwned DEF disk, flights
<1>3. CASE clearResolved
  BY <1>2, <1>3 DEF clearResolved
<1>4. ASSUME NEW i \in items, dismissItem(i) PROVE Own'
  BY <1>2, <1>4 DEF dismissItem
<1> QED
  BY <1>1, <1>3, <1>4

\* The list that is saved is the list that is shown, of the project that is open.
LEMMA SaveKeepsOwn ==
  ASSUME IInv, (\E t \in timers : Fire(t)) \/ (\E s \in saving : Land(s)) \/ Restart
  PROVE  Own'
<1>1. ASSUME NEW t \in timers, Fire(t) PROVE Own'
  <2>1. t = items /\ timers' = {}
    BY <1>1 DEF IInv, TimersAreFresh, Fire
  <2>2. UNCHANGED <<project, items, file, call, ingest, home>>
    BY <1>1 DEF Fire, flights
  <2>3. About(items, project)
    BY DEF IInv, ItemsAreHere, About
  <2>4. saving' = saving \/ saving' = saving \cup {[proj |-> project, items |-> items]}
    BY <1>1, <2>1 DEF Fire
  <2>5. SavesAreHome'
    BY <2>2, <2>3, <2>4 DEF IInv, SavesAreHome, About
  <2> QED
    BY <2>1, <2>2, <2>5
    DEF IInv, Own, OneCall, CallsStand, IngestsAreHere, ItemsAreHere, TimersAreFresh, About
<1>2. ASSUME NEW s \in saving, Land(s) PROVE Own'
  <2>1. UNCHANGED <<project, items, timers, call, ingest, home>>
    BY <1>2 DEF Land, store, flights
  <2>2. s.proj \in Projects /\ About(s.items, s.proj) /\ file \in [Projects -> SUBSET Item]
    BY DEF IInv, TypeOK, SavesAreHome
  <2>3. file' = [file EXCEPT ![s.proj] = s.items] /\ saving' \subseteq saving
    BY <1>2 DEF Land
  <2>4. SavesAreHome'
    BY <2>1, <2>2, <2>3 DEF IInv, SavesAreHome, About
  <2> QED
    BY <2>1, <2>4
    DEF IInv, Own, OneCall, CallsStand, IngestsAreHere, ItemsAreHere, TimersAreFresh, About
<1>3. CASE Restart
  <2>1. /\ project' = NoProject /\ items' = {} /\ timers' = {} /\ saving' = {}
        /\ UNCHANGED home
        /\ \A q \in Projects : file'[q] \subseteq file[q]
    BY <1>3 DEF Restart, CutShort
  <2>2. \A c \in Calls : call'[c].pc = "idle"
    BY <1>3 DEF Restart, IdleCall
  <2>3. \A i \in Ingests : ingest'[i].pc # "running"
    BY <1>3 DEF Restart, IdleIngest
  <2>4. OneCall' /\ CallsStand' /\ IngestsAreHere'
    BY <2>2, <2>3 DEF OneCall, CallsStand, IngestsAreHere
  <2>5. ItemsAreHere' /\ TimersAreFresh' /\ SavesAreHome'
    BY <2>1 DEF IInv, ItemsAreHere, TimersAreFresh, SavesAreHome, About
  <2> QED
    BY <2>4, <2>5 DEF Own
<1> QED
  BY <1>1, <1>2, <1>3

-----------------------------------------------------------------------------
(***************************************************************************)
(* The theorems.                                                           *)
(***************************************************************************)
\* The user opens and leaves one project at a time, and leaves none whose
\* ingests are still running.
Settled == {"oneOpening", "workSettles"} \subseteq Assumed

\* Every step of the system keeps the types, whatever is assumed of its timing.
LEMMA NextTypeOK ==
  ASSUME TypeOK, OpenersKnow, [Next]_vars
  PROVE  TypeOK'
<1>1. CASE UNCHANGED vars
  BY <1>1 DEF vars, store, disk, flights, TypeOK
<1> QED
  BY <1>1, SessionIsTyped, IngestIsTyped, ReviewIsTyped, UserIsTyped, SaveIsTyped DEF Next

\* Every step keeps the invariant, when the visits are settled.
LEMMA NextIInv ==
  ASSUME Settled, IInv, [Next]_vars
  PROVE  IInv'
<1>1. "oneOpening" \in Assumed /\ "workSettles" \in Assumed
  BY DEF Settled
<1>2. TypeOK'
  BY NextTypeOK DEF IInv, OpenersKnow, CallsStand
<1> SUFFICES Own'
  BY <1>2 DEF IInv, Own
<1>3. ASSUME NEW c \in Calls, Session(c) PROVE Own'
  BY <1>1, <1>3, OpenProjectKeepsOwn, SetProjectKeepsOwn, LoadReviewItemsKeepsOwn,
     SetItemsKeepsOwn, LeaveProjectKeepsOwn, LeftProjectKeepsOwn DEF Session
<1>4. ASSUME NEW i \in Ingests, BeginIngest(i) \/ EndIngest(i) PROVE Own'
  BY <1>4, IngestKeepsOwn
<1>5. ASSUME NEW r \in Reviewers, Review(r) PROVE Own'
  BY <1>5, ReviewKeepsOwn
<1>6. CASE AddFromLint \/ clearResolved \/ \E i \in items : dismissItem(i)
  BY <1>6, UserKeepsOwn
<1>7. CASE (\E t \in timers : Fire(t)) \/ (\E s \in saving : Land(s)) \/ Restart
  BY <1>7, SaveKeepsOwn
<1>8. CASE UNCHANGED vars
  BY <1>8, OldItemsAreOwned DEF vars, store, disk, flights
<1> QED
  BY <1>3, <1>4, <1>5, <1>6, <1>7, <1>8 DEF Next

\* The variables keep their types, in every behaviour.
THEOREM TypeCorrect == Spec => []TypeOK
<1>1. Init => TypeOK /\ OpenersKnow
  <2>1. Init => OpenersKnow
    BY DEF Init, IdleCall, OpenersKnow
  <2> QED
    BY <2>1, InitIInv DEF IInv
<1>2. TypeOK /\ OpenersKnow /\ [Next]_vars => (TypeOK /\ OpenersKnow)'
  BY NextTypeOK, OpenersKeepKnowing
<1> QED
  BY <1>1, <1>2, PTL DEF Spec

\* Whatever holds items, or is going to make some, belongs to the open project.
THEOREM Invariance ==
  ASSUME Settled
  PROVE  Spec => []IInv
<1>1. Init => IInv
  BY InitIInv
<1>2. IInv /\ [Next]_vars => IInv'
  BY NextIInv
<1> QED
  BY <1>1, <1>2, PTL DEF Spec

\* Items about one project are neither shown in another nor written to its file,
\* however slow the saves, the openings and the debounce are.
THEOREM NothingIsContaminated ==
  ASSUME Settled
  PROVE  Spec => []NoContamination
<1>1. IInv => NoContamination
  BY DEF IInv, ItemsAreHere, SavesAreHome, NoContamination, About
<1> QED
  BY <1>1, Invariance, PTL

\* A sweep resolves items of its own project only, whatever ids repeat.
LEMMA SweepResolvesAtHome ==
  ASSUME IInv, NEW r \in Reviewers, ApplyRules(r) \/ Judge(r)
  PROVE  About(items \ items', reviewer[r].proj)
<1>1. project = reviewer[r].proj
  BY DEF ApplyRules, Judge, Sweep, MatchesCurrentProject
<1>2. About(items, project)
  BY DEF IInv, ItemsAreHere, About
<1> QED
  BY <1>1, <1>2 DEF About

\* The guards of the sweep are enough, whatever ids repeat.
THEOREM SweepsStayHome ==
  ASSUME Settled
  PROVE  Spec => SweepStaysHome
<1>1. IInv /\ [Next]_vars =>
        [\A r \in Reviewers :
           ApplyRules(r) \/ Judge(r) => About(items \ items', reviewer[r].proj)]_vars
  BY SweepResolvesAtHome
<1> QED
  BY <1>1, Invariance, PTL DEF Spec, SweepStaysHome

-----------------------------------------------------------------------------
(***************************************************************************)
(* Why a saved item stays: it is in its project's file, in every save that *)
(* is going to replace the file, in the list that the next such save will  *)
(* take, and in what was read to become that list.  An opening empties the *)
(* list in between, so the save that this arms must not run until the      *)
(* opening is over (promptOpening); and what is read must be the whole     *)
(* file and stay so until it is shown (promptWrites).                      *)
(***************************************************************************)
Kept(p) == {n \in saved \ removed : home[n] = p}

HomesStand == \A n \in saved : home[n] \in Projects
FilesKeep == \A p \in Projects : Kept(p) \subseteq Of(file[p])
SavesKeep == \A s \in saving : Kept(s.proj) \subseteq Of(s.items)
OneSave == \A s, u \in saving : s.proj = u.proj => s = u

\* The list is the open project's once its items are loaded.
Loaded == project \in Projects /\ Idle(call)
StoreKeeps ==
  Loaded =>
    /\ Kept(project) \subseteq Of(items)
    /\ \A s \in saving : s.proj = project => Of(s.items) \subseteq Of(items) \cup removed

LoadsKeep ==
  \A c \in Calls : call[c].pc = "loading" =>
    /\ Kept(call[c].proj) \subseteq Of(call[c].loaded)
    /\ \A s \in saving : s.proj # call[c].proj

CallsAreHere ==
  \A c \in Calls :
    /\ call[c].pc = "resetting" => call[c].proj \in Projects
    /\ call[c].pc \in {"listing", "loading"} => project = call[c].proj /\ project \in Projects

Copies == FilesKeep /\ SavesKeep /\ OneSave /\ StoreKeeps /\ LoadsKeep
KInv == TypeOK /\ OneCall /\ CallsAreHere /\ TimersAreFresh /\ HomesStand /\ Copies

\* What these proofs assume of the timing: openings and leavings come one at a
\* time and are quicker than the debounce, and saves have landed, whole, when
\* their file is read.
Prompt == {"oneOpening", "promptOpening", "promptWrites", "wholeWrites"} \subseteq Assumed

\* Nothing is saved at first.
LEMMA InitKInv == Init => KInv
<1> SUFFICES ASSUME Init PROVE KInv
  OBVIOUS
<1>1. TypeOK /\ OneCall /\ TimersAreFresh
  BY InitIInv DEF IInv
<1>2. \A c \in Calls : call[c].pc = "idle"
  BY DEF Init, IdleCall
<1>3. CallsAreHere /\ LoadsKeep
  BY <1>2 DEF CallsAreHere, LoadsKeep
<1>4. HomesStand /\ FilesKeep /\ SavesKeep /\ OneSave /\ StoreKeeps
  BY DEF Init, HomesStand, FilesKeep, SavesKeep, OneSave, StoreKeeps, Kept
<1> QED
  BY <1>1, <1>3, <1>4 DEF KInv, Copies

\* Steps that only change the list, and lose nothing of it but what the user
\* takes away, lose no copy.
LEMMA ListMayChange ==
  ASSUME KInv, UNCHANGED <<project, saving, file, call, saved>>,
         removed \subseteq removed', Of(items) \subseteq Of(items') \cup removed',
         \A n \in Ns : home[n] # NoProject => home'[n] = home[n]
  PROVE  OneCall' /\ CallsAreHere' /\ HomesStand' /\ Copies'
<1>1. saved \subseteq Ns
  BY DEF KInv, TypeOK
<1>2. \A n \in saved : home[n] \in Projects /\ home'[n] = home[n]
  BY <1>1, ProjectAssumption DEF KInv, HomesStand
<1>3. \A p \in Projects : Kept(p)' \subseteq Kept(p)
  BY <1>2 DEF Kept
<1>4. OneCall' /\ CallsAreHere' /\ HomesStand'
  BY <1>2 DEF KInv, OneCall, CallsAreHere, HomesStand
<1>5. FilesKeep'
  BY <1>3 DEF KInv, Copies, FilesKeep, Of
<1>6. SavesKeep' /\ OneSave'
  <2>1. \A s \in saving : s.proj \in Projects
    BY DEF KInv, TypeOK
  <2> QED
    BY <1>3, <2>1 DEF KInv, Copies, SavesKeep, OneSave, Of
<1>7. StoreKeeps'
  <2>1. SUFFICES ASSUME Loaded'
                 PROVE  /\ Kept(project)' \subseteq Of(items')
                        /\ \A s \in saving : s.proj = project =>
                             Of(s.items) \subseteq Of(items') \cup removed'
    BY DEF StoreKeeps, Of
  <2>2. Loaded
    BY <2>1 DEF Loaded, Idle
  <2>3. /\ Kept(project) \subseteq Of(items)
        /\ \A s \in saving : s.proj = project => Of(s.items) \subseteq Of(items) \cup removed
    BY <2>2 DEF KInv, Copies, StoreKeeps
  <2>4. Kept(project)' \subseteq Kept(project) /\ Kept(project)' \cap removed' = {}
    BY <1>3, <2>2 DEF Loaded, Kept
  <2> QED
    BY <2>3, <2>4
<1>8. LoadsKeep'
  BY <1>3 DEF KInv, Copies, LoadsKeep, CallsAreHere, Of
<1> QED
  BY <1>4, <1>5, <1>6, <1>7, <1>8 DEF Copies

\* The update of a call's state reaches no other call.
LEMMA CallChanges ==
  ASSUME TypeOK, NEW c \in Calls, NEW now, call' = [call EXCEPT ![c] = now]
  PROVE  call'[c] = now /\ \A d \in Calls \ {c} : call'[d] = call[d]
  BY DEF TypeOK

\* While the list is not the open project's there is nothing to say of it.
LEMMA NothingIsShown ==
  ASSUME KInv, UNCHANGED <<saving, file, saved, removed, home>>,
         ~Loaded', \A c \in Calls : call'[c].pc # "loading"
  PROVE  HomesStand' /\ Copies'
<1>1. HomesStand' /\ FilesKeep' /\ SavesKeep' /\ OneSave'
  BY DEF KInv, Copies, HomesStand, FilesKeep, SavesKeep, OneSave, Kept, Of
<1>2. StoreKeeps' /\ LoadsKeep'
  BY DEF StoreKeeps, LoadsKeep
<1> QED
  BY <1>1, <1>2 DEF Copies

\* The reset begins, and goes on to the project's listing.
LEMMA OpenProjectKeeps ==
  ASSUME Prompt, KInv, NEW c \in Calls, NEW p \in Projects, OpenProject(c, p)
  PROVE  OneCall' /\ CallsAreHere' /\ TimersAreFresh' /\ HomesStand' /\ Copies'
<1>1. \A d \in Calls : call[d].pc = "idle"
  BY DEF OpenProject, NoRival, Idle, KInv, TypeOK, Prompt
<1>2. /\ call'[c] = [IdleCall EXCEPT !.pc = "resetting", !.proj = p]
      /\ \A d \in Calls \ {c} : call'[d] = call[d]
  BY CallChanges DEF OpenProject, Reset, KInv
<1>3. call'[c].pc = "resetting" /\ call'[c].proj = p
  BY <1>2 DEF IdleCall
<1>4. UNCHANGED <<saving, file, saved, removed, home>>
  BY DEF OpenProject, disk
<1>5. OneCall' /\ CallsAreHere' /\ \A d \in Calls : call'[d].pc # "loading"
  BY <1>1, <1>2, <1>3, ZenonT(60) DEF OneCall, CallsAreHere
<1>6. TimersAreFresh'
  BY DEF OpenProject, Reset, Change, Rearm, TimersAreFresh
<1>7. ~Loaded'
  BY <1>3 DEF Loaded, Idle, OpenProject, Reset, KInv, TypeOK
<1> QED
  BY <1>4, <1>5, <1>6, <1>7, NothingIsShown

\* The project becomes the open one before its items are.
LEMMA SetProjectKeeps ==
  ASSUME KInv, NEW c \in Calls, SetProject(c)
  PROVE  OneCall' /\ CallsAreHere' /\ TimersAreFresh' /\ HomesStand' /\ Copies'
<1>1. call[c].pc = "resetting" /\ call[c].proj \in Projects
  BY DEF SetProject, KInv, CallsAreHere
<1>2. \A d \in Calls \ {c} : call[d].pc = "idle" /\ call'[d] = call[d]
  BY <1>1 DEF SetProject, KInv, OneCall, TypeOK
<1>3. call'[c].pc = "listing" /\ call'[c].proj = call[c].proj
  BY DEF SetProject, KInv, TypeOK, CallState
<1>4. project' = call[c].proj /\ UNCHANGED <<items, timers, saving, file, saved, removed, home>>
  BY DEF SetProject, disk
<1>5. OneCall' /\ CallsAreHere' /\ \A d \in Calls : call'[d].pc # "loading"
  BY <1>1, <1>2, <1>3, <1>4 DEF OneCall, CallsAreHere
<1>6. TimersAreFresh'
  BY <1>4 DEF KInv, TimersAreFresh
<1>7. ~Loaded'
  BY <1>3 DEF Loaded, Idle, SetProject, KInv, TypeOK
<1> QED
  BY <1>4, <1>5, <1>6, <1>7, NothingIsShown

\* What is read is the whole file, as no save of it is under way.
LEMMA LoadReviewItemsKeeps ==
  ASSUME Prompt, KInv, NEW c \in Calls, LoadReviewItems(c)
  PROVE  OneCall' /\ CallsAreHere' /\ TimersAreFresh' /\ HomesStand' /\ Copies'
<1> DEFINE p == call[c].proj
<1>1. call[c].pc = "listing" /\ p \in Projects /\ project = p
  BY DEF LoadReviewItems, KInv, CallsAreHere
<1>2. \A s \in saving : s.proj # p
  BY DEF LoadReviewItems, Prompt, BeingWritten
<1>3. call' = [call EXCEPT ![c] = [call[c] EXCEPT !.pc = "loading", !.loaded = file[p]]]
  BY <1>2 DEF LoadReviewItems, BeingWritten
<1>4. \A d \in Calls \ {c} : call[d].pc = "idle" /\ call'[d] = call[d]
  BY <1>1, <1>3, CallChanges DEF KInv, OneCall
<1>5. call[c] \in CallState
  BY DEF KInv, TypeOK
<1>6. call'[c].pc = "loading" /\ call'[c].proj = p /\ call'[c].loaded = file[p]
  <2>1. call'[c] = [call[c] EXCEPT !.pc = "loading", !.loaded = file[p]]
    BY <1>3, CallChanges DEF KInv
  <2> QED
    BY <1>5, <2>1 DEF CallState
<1>7. UNCHANGED <<project, items, timers, saving, file, saved, removed, home>>
  BY DEF LoadReviewItems, store, disk
<1>8. OneCall' /\ CallsAreHere'
  BY <1>1, <1>4, <1>6, <1>7 DEF OneCall, CallsAreHere
<1>9. TimersAreFresh' /\ HomesStand' /\ FilesKeep' /\ SavesKeep' /\ OneSave'
  BY <1>7 DEF KInv, Copies, TimersAreFresh, HomesStand, FilesKeep, SavesKeep, OneSave, Kept, Of
<1>10. ~Loaded'
  BY <1>6 DEF Loaded, Idle, LoadReviewItems, KInv, TypeOK
<1>11. StoreKeeps'
  BY <1>10 DEF StoreKeeps
<1>12. LoadsKeep'
  <2>1. Kept(p) \subseteq Of(file[p])
    BY <1>1 DEF KInv, Copies, FilesKeep
  <2>2. \A d \in Calls : call'[d].pc = "loading" => d = c
    BY <1>4
  <2>3. {n \in saved' \ removed' : home'[n] = call'[c].proj} \subseteq Of(call'[c].loaded)
    BY <1>6, <1>7, <2>1 DEF Kept
  <2>4. \A s \in saving' : s.proj # call'[c].proj
    BY <1>2, <1>6, <1>7
  <2> QED
    BY <2>2, <2>3, <2>4 DEF LoadsKeep, Kept, Of
<1> QED
  BY <1>8, <1>9, <1>11, <1>12 DEF Copies

\* The list becomes what was read; when that is nothing, nothing was saved.
LEMMA SetItemsKeeps ==
  ASSUME KInv, NEW c \in Calls, SetItems(c)
  PROVE  OneCall' /\ CallsAreHere' /\ TimersAreFresh' /\ HomesStand' /\ Copies'
<1>1. call[c].pc = "loading" /\ project = call[c].proj /\ project \in Projects
  BY DEF SetItems, KInv, CallsAreHere
<1>2. /\ call'[c] = IdleCall
      /\ \A d \in Calls \ {c} : call[d].pc = "idle" /\ call'[d] = call[d]
  BY <1>1, CallChanges DEF SetItems, KInv, OneCall
<1>3. \A d \in Calls : call'[d].pc = "idle"
  BY <1>2 DEF IdleCall
<1>4. UNCHANGED <<project, saving, file, saved, removed, home>>
  BY DEF SetItems, disk
<1>5. OneCall' /\ CallsAreHere' /\ LoadsKeep'
  BY <1>3 DEF OneCall, CallsAreHere, LoadsKeep
<1>6. HomesStand' /\ FilesKeep' /\ SavesKeep' /\ OneSave'
  BY <1>4 DEF KInv, Copies, HomesStand, FilesKeep, SavesKeep, OneSave, Kept, Of
<1>7. \/ items' = items /\ timers' = timers /\ call[c].loaded = {}
      \/ items' = call[c].loaded /\ timers' = {items'}
  <2>1. CASE call[c].loaded = {}
    BY <2>1 DEF SetItems
  <2>2. CASE call[c].loaded # {}
    BY <2>2 DEF SetItems, Change, Rearm
  <2> QED
    BY <2>1, <2>2
<1>8. TimersAreFresh'
  BY <1>7 DEF KInv, TimersAreFresh
<1>9. Kept(project) \subseteq Of(items') /\ \A s \in saving : s.proj # project
  BY <1>1, <1>7 DEF KInv, Copies, LoadsKeep, Of
<1>10. StoreKeeps'
  <2>1. Kept(project)' = Kept(project)
    BY <1>4 DEF Kept
  <2> QED
    BY <1>4, <1>9, <2>1 DEF StoreKeeps
<1> QED
  BY <1>5, <1>6, <1>8, <1>10 DEF Copies

\* Leaving empties the list, which is no longer the open project's.
LEMMA LeaveProjectKeeps ==
  ASSUME Prompt, KInv, NEW c \in Calls, LeaveProject(c)
  PROVE  OneCall' /\ CallsAreHere' /\ TimersAreFresh' /\ HomesStand' /\ Copies'
<1>1. \A d \in Calls : call[d].pc = "idle"
  BY DEF LeaveProject, NoRival, Idle, KInv, TypeOK, Prompt
<1>2. /\ call'[c] = [IdleCall EXCEPT !.pc = "leaving", !.proj = project]
      /\ \A d \in Calls \ {c} : call'[d] = call[d]
  BY CallChanges DEF LeaveProject, Reset, KInv
<1>3. call'[c].pc = "leaving"
  BY <1>2 DEF IdleCall
<1>4. UNCHANGED <<saving, file, saved, removed, home>>
  BY DEF LeaveProject, disk
<1>5. OneCall' /\ CallsAreHere' /\ \A d \in Calls : call'[d].pc # "loading"
  <2>1. \A d \in Calls : call'[d].pc # "idle" => d = c
    BY <1>1, <1>2
  <2> QED
    BY <1>3, <2>1 DEF OneCall, CallsAreHere
<1>6. TimersAreFresh'
  BY DEF LeaveProject, Reset, Change, Rearm, TimersAreFresh
<1>7. ~Loaded'
  BY <1>3 DEF Loaded, Idle, LeaveProject, Reset, KInv, TypeOK
<1> QED
  BY <1>4, <1>5, <1>6, <1>7, NothingIsShown

\* No project is open once the last is left.
LEMMA LeftProjectKeeps ==
  ASSUME KInv, NEW c \in Calls, LeftProject(c)
  PROVE  OneCall' /\ CallsAreHere' /\ TimersAreFresh' /\ HomesStand' /\ Copies'
<1>1. call[c].pc = "leaving" /\ call'[c] = IdleCall
  BY CallChanges DEF LeftProject, KInv
<1>2. \A d \in Calls \ {c} : call[d].pc = "idle" /\ call'[d] = call[d]
  BY <1>1, CallChanges DEF LeftProject, KInv, OneCall
<1>3. \A d \in Calls : call'[d].pc = "idle"
  BY <1>1, <1>2 DEF IdleCall
<1>4. UNCHANGED <<items, timers, saving, file, saved, removed, home>>
  BY DEF LeftProject, disk
<1>5. OneCall' /\ CallsAreHere' /\ TimersAreFresh'
  BY <1>3, <1>4 DEF OneCall, CallsAreHere, KInv, TimersAreFresh
<1>6. ~Loaded'
  BY ProjectAssumption DEF LeftProject, Loaded
<1> QED
  BY <1>3, <1>4, <1>5, <1>6, NothingIsShown

\* An item that is added is new: no saved item changes its project.
LEMMA AddKeeps ==
  ASSUME KInv, NEW p, Add(p), UNCHANGED <<project, saving, file, call, saved, removed>>
  PROVE  OneCall' /\ CallsAreHere' /\ TimersAreFresh' /\ HomesStand' /\ Copies'
<1>1. home[Fresh] = NoProject
  BY FreshIsNew DEF Add
<1>2. \A n \in Ns : home[n] # NoProject => home'[n] = home[n]
  BY <1>1 DEF Add, KInv, TypeOK
<1>3. items \subseteq items' /\ timers' = {items'}
  BY DEF Add, Change, Rearm
<1>4. Of(items) \subseteq Of(items')
  BY <1>3 DEF Of
<1> QED
  BY <1>2, <1>3, <1>4, ListMayChange DEF TimersAreFresh

\* Items that are resolved stay in the list.
LEMMA ResolvedStay ==
  ASSUME TypeOK, NEW ids
  PROVE  Of(items) \subseteq Of(Resolved(ids))
<1> DEFINE done(j) == [j EXCEPT !.resolved = TRUE]
<1>1. \A j \in items : done(j).n = j.n
  BY DEF TypeOK, Item
<1>2. Resolved(ids) = (items \ WithId(ids)) \cup {done(j) : j \in WithId(ids)}
  BY DEF Resolved
<1> HIDE DEF done
<1>3. \A j \in items : \E i \in Resolved(ids) : i.n = j.n
  BY <1>1, <1>2
<1> QED
  BY <1>3 DEF Of

\* Sweeps and decisions resolve; the rest of a review only notes what is pending.
LEMMA ReviewKeeps ==
  ASSUME KInv, NEW r \in Reviewers, Review(r)
  PROVE  OneCall' /\ CallsAreHere' /\ TimersAreFresh' /\ HomesStand' /\ Copies'
<1>1. UNCHANGED <<project, saving, file, call, saved, home, removed>>
  <2>1. ASSUME NEW i \in items, Click(r, i)
        PROVE  UNCHANGED <<project, saving, file, call, saved, home, removed>>
    BY <2>1 DEF Click, store, disk
  <2>2. CASE StartSweep(r) \/ QuitSweep(r)
    BY <2>2 DEF StartSweep, QuitSweep, store, disk
  <2>3. ASSUME NEW pc, NEW next, Sweep(r, pc, next)
        PROVE  UNCHANGED <<project, saving, file, call, saved, home, removed>>
    BY <2>3 DEF Sweep, disk
  <2>4. CASE Decide(r)
    BY <2>4 DEF Decide, disk
  <2> QED
    BY <2>1, <2>2, <2>3, <2>4 DEF Review, ApplyRules, Judge
<1>2. ASSUME NEW ids, resolveItem(ids)
      PROVE  Of(items) \subseteq Of(items') /\ timers' = {items'}
  BY <1>2, ResolvedStay DEF resolveItem, Change, Rearm, KInv
<1>3. ASSUME NEW pc, NEW next, Sweep(r, pc, next)
      PROVE  Of(items) \subseteq Of(items') /\ TimersAreFresh'
  <2>1. PICK done \in SUBSET reviewer[r].seen :
          IF done = {} THEN UNCHANGED <<items, timers>> ELSE resolveItem({i.id : i \in done})
    BY <1>3 DEF Sweep
  <2>2. CASE done = {}
    BY <2>1, <2>2 DEF KInv, TimersAreFresh
  <2>3. CASE done # {}
    <3> DEFINE ids == {i.id : i \in done}
    <3>1. resolveItem(ids)
      BY <2>1, <2>3
    <3> HIDE DEF ids
    <3> QED
      BY <1>2, <3>1 DEF TimersAreFresh
  <2> QED
    BY <2>2, <2>3
<1>4. CASE Decide(r)
  <2> DEFINE ids == {i.id : i \in reviewer[r].seen}
  <2>1. resolveItem(ids)
    BY <1>4 DEF Decide
  <2> HIDE DEF ids
  <2>2. Of(items) \subseteq Of(items') /\ TimersAreFresh'
    BY <1>2, <2>1 DEF TimersAreFresh
  <2> QED
    BY <1>1, <2>2, ListMayChange
<1>5. CASE ApplyRules(r) \/ Judge(r)
  BY <1>1, <1>3, <1>5, ListMayChange DEF ApplyRules, Judge
<1>6. CASE UNCHANGED store
  BY <1>1, <1>6, ListMayChange DEF store, KInv, TimersAreFresh
<1>7. ASSUME NEW i \in items, Click(r, i) PROVE UNCHANGED store
  BY <1>7 DEF Click
<1> QED
  BY <1>4, <1>5, <1>6, <1>7 DEF Review, StartSweep, QuitSweep

\* An ingest may add to the list.
LEMMA IngestKeeps ==
  ASSUME KInv, NEW i \in Ingests, BeginIngest(i) \/ EndIngest(i)
  PROVE  OneCall' /\ CallsAreHere' /\ TimersAreFresh' /\ HomesStand' /\ Copies'
<1>1. UNCHANGED <<project, saving, file, call, saved, removed>>
  BY DEF BeginIngest, EndIngest, store, disk
<1>2. CASE Add(ingest[i].proj)
  BY <1>1, <1>2, AddKeeps
<1>3. CASE items' = items /\ home' = home /\ (timers' = {items} \/ timers' = timers)
  BY <1>1, <1>3, ListMayChange DEF KInv, TimersAreFresh
<1> QED
  BY <1>2, <1>3 DEF BeginIngest, EndIngest, store, Change, Rearm

\* What the user takes away is no longer to be kept.
LEMMA UserKeeps ==
  ASSUME KInv, AddFromLint \/ clearResolved \/ \E i \in items : dismissItem(i)
  PROVE  OneCall' /\ CallsAreHere' /\ TimersAreFresh' /\ HomesStand' /\ Copies'
<1>1. CASE AddFromLint
  BY <1>1, AddKeeps DEF AddFromLint, disk, flights
<1>2. ASSUME NEW gone, Remove(gone), UNCHANGED <<project, disk, flights, home>>
      PROVE  OneCall' /\ CallsAreHere' /\ TimersAreFresh' /\ HomesStand' /\ Copies'
  <2>1. items' = items \ gone /\ timers' = {items'} /\ removed' = removed \cup Of(gone)
    BY <1>2 DEF Remove, Change, Rearm
  <2>2. Of(items) \subseteq Of(items') \cup removed'
    BY <2>1 DEF Of
  <2> QED
    BY <1>2, <2>1, <2>2, ListMayChange DEF TimersAreFresh, disk, flights
<1>3. CASE clearResolved
  BY <1>2, <1>3 DEF clearResolved
<1>4. ASSUME NEW i \in items, dismissItem(i)
      PROVE  OneCall' /\ CallsAreHere' /\ TimersAreFresh' /\ HomesStand' /\ Copies'
  BY <1>2, <1>4 DEF dismissItem
<1> QED
  BY <1>1, <1>3, <1>4

\* The save that begins takes the list of a project that is loaded.
LEMMA FireKeeps ==
  ASSUME Prompt, KInv, NEW t \in timers, Fire(t)
  PROVE  OneCall' /\ CallsAreHere' /\ TimersAreFresh' /\ HomesStand' /\ Copies'
<1>1. t = items /\ timers' = {}
  BY DEF KInv, TimersAreFresh, Fire
<1>2. UNCHANGED <<project, items, file, call, saved, removed, home>>
  BY DEF Fire, flights
<1>3. Idle(call)
  BY DEF Fire, InPlace, Prompt
<1>4. \A c \in Calls : call[c].pc = "idle"
  BY <1>3 DEF Idle, KInv, TypeOK
<1>5. \A s \in saving : s.proj # project
  BY DEF Fire, BeingWritten
<1>6. OneCall' /\ CallsAreHere' /\ TimersAreFresh' /\ HomesStand' /\ FilesKeep'
  BY <1>1, <1>2 DEF KInv, Copies, OneCall, CallsAreHere, TimersAreFresh, HomesStand, FilesKeep, Kept, Of
<1>7. LoadsKeep'
  BY <1>2, <1>4 DEF LoadsKeep
<1>8. CASE project = NoProject
  <2>1. saving' = saving
    BY <1>8 DEF Fire
  <2> QED
    BY <1>2, <1>6, <1>7, <2>1
    DEF KInv, Copies, SavesKeep, OneSave, StoreKeeps, Loaded, Idle, Kept, Of
<1>9. CASE project # NoProject
  <2> DEFINE new == [proj |-> project, items |-> items]
  <2>1. saving' = saving \cup {new}
    BY <1>1, <1>9 DEF Fire
  <2>2. project \in Projects /\ Loaded
    BY <1>3, <1>9 DEF KInv, TypeOK, Anywhere, Loaded
  <2>3. Kept(project) \subseteq Of(items)
    BY <2>2 DEF KInv, Copies, StoreKeeps
  <2>4. new.proj = project /\ new.items = items
    OBVIOUS
  <2> HIDE DEF new
  <2>5. OneSave'
    BY <1>5, <2>1, <2>4 DEF KInv, Copies, OneSave
  <2>6. \A s \in saving' : {n \in saved \ removed : home[n] = s.proj} \subseteq {j.n : j \in s.items}
    BY <2>1, <2>3, <2>4 DEF KInv, Copies, SavesKeep, Kept, Of
  <2>7. SavesKeep'
    BY <1>2, <2>6 DEF SavesKeep, Kept, Of
  <2>8. StoreKeeps'
    <3>1. Kept(project)' = Kept(project) /\ Of(items)' = Of(items)
      BY <1>2 DEF Kept, Of
    <3>2. \A s \in saving' : s.proj = project => s.items = items
      BY <1>5, <2>1, <2>4
    <3> QED
      BY <1>2, <2>3, <3>1, <3>2 DEF StoreKeeps, Of
  <2> QED
    BY <1>6, <1>7, <2>5, <2>7, <2>8 DEF Copies
<1> QED
  BY <1>8, <1>9

\* When a save has landed its items are saved: they are in the file, and in the
\* list, as no later save of the project was begun.
LEMMA LandKeeps ==
  ASSUME KInv, NEW s \in saving, Land(s)
  PROVE  OneCall' /\ CallsAreHere' /\ TimersAreFresh' /\ HomesStand' /\ Copies'
<1> DEFINE p == s.proj
<1>1. p \in Projects /\ s.items \subseteq Item
  BY DEF KInv, TypeOK
<1>2. /\ saving' = saving \ {s} /\ file' = [file EXCEPT ![p] = s.items]
      /\ saved' = saved \cup {n \in Of(s.items) : home[n] = p}
      /\ UNCHANGED <<project, items, timers, call, home, removed>>
  BY DEF Land, store, flights
<1>3. OneCall' /\ CallsAreHere' /\ TimersAreFresh'
  BY <1>2 DEF KInv, OneCall, CallsAreHere, TimersAreFresh
<1>4. HomesStand'
  BY <1>1, <1>2 DEF KInv, HomesStand
<1>5. Kept(p)' \subseteq Kept(p) \cup (Of(s.items) \ removed)
  BY <1>2 DEF Kept
<1>6. \A q \in Projects \ {p} : Kept(q)' = Kept(q)
  BY <1>2 DEF Kept
<1>7. Kept(p) \subseteq Of(s.items)
  BY DEF KInv, Copies, SavesKeep
<1>8. FilesKeep'
  <2>1. file'[p] = s.items /\ \A q \in Projects \ {p} : file'[q] = file[q]
    BY <1>1, <1>2 DEF KInv, TypeOK
  <2>2. Kept(p)' \subseteq Of(file'[p])
    BY <1>5, <1>7, <2>1
  <2>3. \A q \in Projects \ {p} : Kept(q)' \subseteq Of(file'[q])
    BY <1>6, <2>1 DEF KInv, Copies, FilesKeep
  <2> QED
    BY <2>2, <2>3 DEF FilesKeep, Of
<1>9. \A u \in saving' : u \in saving /\ u.proj \in Projects \ {p}
  BY <1>2 DEF KInv, TypeOK, Copies, OneSave
<1>10. SavesKeep' /\ OneSave'
  <2>1. OneSave'
    BY <1>9 DEF KInv, Copies, OneSave
  <2>2. \A u \in saving' : Kept(u.proj)' \subseteq Of(u.items)
    BY <1>6, <1>9 DEF KInv, Copies, SavesKeep
  <2> QED
    BY <2>1, <2>2 DEF SavesKeep, Of
<1>11. StoreKeeps'
  <2>1. SUFFICES ASSUME Loaded
                 PROVE  /\ Kept(project)' \subseteq Of(items)
                        /\ \A u \in saving' : u.proj = project =>
                             Of(u.items) \subseteq Of(items) \cup removed
    BY <1>2 DEF StoreKeeps, Loaded, Idle, Of
  <2>2. /\ Kept(project) \subseteq Of(items) /\ project \in Projects
        /\ \A u \in saving : u.proj = project => Of(u.items) \subseteq Of(items) \cup removed
    BY <2>1 DEF KInv, Copies, StoreKeeps, Loaded
  <2>3. CASE project = p
    <3>1. Kept(project)' = Kept(p)' /\ Kept(project) = Kept(p)
      BY <1>2, <2>3 DEF Kept
    <3>2. Of(s.items) \subseteq Of(items) \cup removed
      BY <2>2, <2>3
    <3>3. Kept(project)' \subseteq Of(items)
      BY <1>5, <2>2, <3>1, <3>2
    <3> QED
      BY <1>9, <2>2, <3>3
  <2>4. CASE project # p
    <3>1. Kept(project)' = Kept(project)
      BY <1>2, <2>4 DEF Kept
    <3> QED
      BY <1>9, <2>2, <3>1
  <2> QED
    BY <2>3, <2>4
<1>12. LoadsKeep'
  <2>1. SUFFICES ASSUME NEW c \in Calls, call[c].pc = "loading"
                 PROVE  /\ Kept(call[c].proj)' \subseteq Of(call[c].loaded)
                        /\ \A u \in saving' : u.proj # call[c].proj
    BY <1>2 DEF LoadsKeep, Of
  <2>2. /\ Kept(call[c].proj) \subseteq Of(call[c].loaded)
        /\ \A u \in saving : u.proj # call[c].proj
    BY <2>1 DEF KInv, Copies, LoadsKeep
  <2>3. call[c].proj \in Projects \ {p}
    BY <2>1, <2>2 DEF KInv, CallsAreHere
  <2> QED
    BY <1>2, <1>6, <2>2, <2>3
<1> QED
  BY <1>3, <1>4, <1>8, <1>10, <1>11, <1>12 DEF Copies

\* The files outlive the process.
LEMMA RestartKeeps ==
  ASSUME Prompt, KInv, Restart
  PROVE  OneCall' /\ CallsAreHere' /\ TimersAreFresh' /\ HomesStand' /\ Copies'
<1>1. project' = NoProject /\ timers' = {} /\ saving' = {} /\ UNCHANGED <<saved, removed, home>>
  BY DEF Restart
<1>2. \A c \in Calls : call'[c].pc = "idle"
  BY DEF Restart, IdleCall
<1>3. \A p \in Projects : file'[p] = file[p]
  BY DEF Restart, CutShort, Prompt
<1>4. OneCall' /\ CallsAreHere' /\ TimersAreFresh' /\ SavesKeep' /\ OneSave' /\ LoadsKeep'
  BY <1>1, <1>2 DEF OneCall, CallsAreHere, TimersAreFresh, SavesKeep, OneSave, LoadsKeep
<1>5. HomesStand' /\ FilesKeep'
  BY <1>1, <1>3 DEF KInv, Copies, HomesStand, FilesKeep, Kept, Of
<1>6. StoreKeeps'
  BY <1>1, ProjectAssumption DEF StoreKeeps, Loaded
<1> QED
  BY <1>4, <1>5, <1>6 DEF Copies

\* Every step keeps the copies.
LEMMA NextKInv ==
  ASSUME Prompt, KInv, [Next]_vars
  PROVE  KInv'
<1>1. TypeOK'
  <2>1. OpenersKnow
    BY DEF KInv, CallsAreHere, OpenersKnow
  <2> QED
    BY <2>1, NextTypeOK DEF KInv
<1> DEFINE Goal == OneCall' /\ CallsAreHere' /\ TimersAreFresh' /\ HomesStand' /\ Copies'
<1> SUFFICES Goal
  BY <1>1 DEF KInv
<1>2. ASSUME NEW c \in Calls, Session(c) PROVE Goal
  BY <1>2, OpenProjectKeeps, SetProjectKeeps, LoadReviewItemsKeeps, SetItemsKeeps,
     LeaveProjectKeeps, LeftProjectKeeps DEF Session
<1>3. ASSUME NEW i \in Ingests, BeginIngest(i) \/ EndIngest(i) PROVE Goal
  BY <1>3, IngestKeeps
<1>4. ASSUME NEW r \in Reviewers, Review(r) PROVE Goal
  BY <1>4, ReviewKeeps
<1>5. CASE AddFromLint \/ clearResolved \/ \E i \in items : dismissItem(i)
  BY <1>5, UserKeeps
<1>6. CASE (\E t \in timers : Fire(t)) \/ (\E s \in saving : Land(s)) \/ Restart
  BY <1>6, FireKeeps, LandKeeps, RestartKeeps
<1>7. CASE UNCHANGED vars
  <2>1. TimersAreFresh'
    BY <1>7 DEF vars, store, KInv, TimersAreFresh
  <2> QED
    BY <1>7, <2>1, ListMayChange DEF vars, store, disk, flights
<1> QED
  BY <1>2, <1>3, <1>4, <1>5, <1>6, <1>7 DEF Next

\* What has been saved stays in its project's file until the user removes it,
\* though openings empty the list and the timer of that change is armed, and
\* whatever ingests, sweeps and decisions are in flight.
THEOREM SavedItemsAreKept ==
  ASSUME Prompt
  PROVE  Spec => []ItemsAreKept
<1>1. Init => KInv
  BY InitKInv
<1>2. KInv /\ [Next]_vars => KInv'
  BY NextKInv
<1>3. KInv => ItemsAreKept
  BY DEF KInv, Copies, HomesStand, FilesKeep, Kept, ItemsAreKept, SavedItemsStay
<1> QED
  BY <1>1, <1>2, <1>3, PTL DEF Spec
=============================================================================
