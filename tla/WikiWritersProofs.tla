------------------------- MODULE WikiWritersProofs -------------------------
(***************************************************************************)
(* Theorems about the writers that take no lock.  PInv says of a call what *)
(* it has read, and gives the types and the exactness of rollbacks.  WInv  *)
(* says of everything that a deletion leaves behind who is still going to  *)
(* look at it: a dangling reference is watched, by all names of the page   *)
(* it leads to, a source that is gone is followed on every page that names *)
(* it, or a failure has been noted.  A step of one call can only go wrong  *)
(* by what it hands over to itself (HandsOver), for all other calls stay   *)
(* as they are and files only lose (Shrinks); an ingest, which adds, comes *)
(* when nobody else is there.                                              *)
(***************************************************************************)
EXTENDS WikiWriters, TLAPS

-----------------------------------------------------------------------------
(***************************************************************************)
(* The invariant, for what a call has read.                                *)
(***************************************************************************)
\* A plan is a patch of what it replaces, and a rollback has just one; a call
\* has a number and at most one source; only a cascade looks at the index.
Patches(plan) == plan.after = SetMeta(plan.before, plan.after.meta)
OnPages(r) ==
  /\ r.pc \in {"unlink", "fates", "keep", "preview", "patch", "patching"} => r.todo \subseteq Pages
  /\ r.pc \in {"patching", "stream"} => r.at \in Pages
WellFormed(r) ==
  /\ OnPages(r)
  /\ \A item \in r.plans : Patches(item[2])
  /\ r.pc \in {"rollback", "restore"} => \A x, y \in r.plans : x = y
  /\ \A x, y \in r.source : x = y
  /\ r.pc # "idle" => r.op \in 1..MaxOps

\* What is about to be written back is what is there.
ReadsStand(r, files) ==
  /\ r.pc \in {"keep", "rewrite", "patching"} => r.read \subseteq {files[r.at]}
  /\ r.pc = "restore" => \A item \in r.plans : files[r.at] = item[2].after

PInv ==
  /\ TypeOK
  /\ \A p \in DOMAIN lastBatch : Patches(lastBatch[p])
  /\ \A c \in Calls : WellFormed(call[c])
  /\ "shortWindows" \in Assumed => \A c \in Calls : ReadsStand(call[c], file)

-----------------------------------------------------------------------------
(***************************************************************************)
(* Types.                                                                  *)
(***************************************************************************)
\* What a step of one call is: everybody else stays as they are.
Acts(c, r) == call' = [call EXCEPT ![c] = r] /\ r \in Call

\* The types of a call's parts.
LEMMA CallIsTyped ==
  ASSUME TypeOK, NEW c \in Calls
  PROVE  /\ call[c] \in Call
         /\ call[c].pc \in Stops /\ call[c].op \in 0..MaxOps
         /\ call[c].source \subseteq Sources /\ call[c].meta \subseteq Metas
         /\ call[c].todo \subseteq Files /\ call[c].targets \subseteq Pages
         /\ call[c].keys \subseteq Keys /\ call[c].gone \subseteq Pages /\ call[c].at \in Files
         /\ call[c].read \subseteq Content /\ call[c].plans \subseteq Pages \X Plan
<1>1. call[c] \in Call
  BY DEF TypeOK
<1> QED
  BY <1>1 DEF Call

LEMMA IdleIsTyped == Idle \in Call /\ WellFormed(Idle) /\ \A files : ReadsStand(Idle, files)
  BY BoundAssumption DEF Idle, Call, Stops, Files, WellFormed, ReadsStand, OnPages

\* A step of one call keeps the invariant if what that call has become fits
\* and no other call was in its window, or nothing was written.
LEMMA StepKeepsP ==
  ASSUME PInv, NEW c \in Calls, NEW r \in Call, call' = [call EXCEPT ![c] = r],
         file' \in [Files -> Content \cup {Absent}], file'[Index] # Absent,
         rawSources' \subseteq Sources, cached' \subseteq Sources, log' \subseteq 1..MaxOps,
         UNCHANGED lastBatch,
         issued' \in 0..MaxOps, mishaps' \in 0..MaxMishaps, missed' \subseteq (Pages \cup Sources) \X Files,
         Undisturbed(c), WellFormed(r),
         "shortWindows" \in Assumed => ReadsStand(r, file')
  PROVE  PInv'
<1>1. TypeOK'
  BY DEF PInv, TypeOK
<1>2. call'[c] = r /\ \A d \in Calls \ {c} : call'[d] = call[d]
  BY DEF PInv, TypeOK
<1>3. \A d \in Calls : WellFormed(call'[d])
  BY <1>2 DEF PInv
<1>4. ASSUME "shortWindows" \in Assumed, NEW d \in Calls \ {c}
      PROVE  ReadsStand(call'[d], file')
  BY <1>2, <1>4 DEF Undisturbed, InWindow, ReadsStand
<1>5. \A p \in DOMAIN lastBatch' : Patches(lastBatch'[p])
  BY DEF PInv
<1>6. "shortWindows" \in Assumed => \A d \in Calls : ReadsStand(call'[d], file')
  BY <1>2, <1>4
<1> QED
  BY <1>1, <1>3, <1>5, <1>6 DEF PInv

LEMMA MishapIsTyped ==
  ASSUME TypeOK, Mishap \/ NoMishap
  PROVE  mishaps' \in 0..MaxMishaps
  BY BoundAssumption DEF TypeOK, Mishap, NoMishap

\* The same of a step that writes no file.
LEMMA QuietStepKeepsP ==
  ASSUME PInv, NEW c \in Calls, NEW r \in Call, call' = [call EXCEPT ![c] = r],
         UNCHANGED <<file, rawSources, cached, log, lastBatch>>,
         issued' \in 0..MaxOps, Mishap \/ NoMishap, missed' \subseteq (Pages \cup Sources) \X Files,
         Undisturbed(c), WellFormed(r), ReadsStand(r, file)
  PROVE  PInv'
<1>1. mishaps' \in 0..MaxMishaps
  BY MishapIsTyped DEF PInv
<1> QED
  BY <1>1, StepKeepsP DEF PInv, TypeOK

LEMMA BeginKeepsP ==
  ASSUME PInv, NEW c \in Calls, NEW r \in Call, Begin(c, r), WellFormed([r EXCEPT !.op = issued + 1]),
         ReadsStand(r, file),
         UNCHANGED <<file, rawSources, cached, log, lastBatch, mishaps, missed>>
  PROVE  PInv'
<1> DEFINE s == [r EXCEPT !.op = issued + 1]
<1>1. issued + 1 \in 1..MaxOps /\ issued' = issued + 1
  BY BoundAssumption DEF PInv, TypeOK, Begin
<1>2. s \in Call /\ s.pc = r.pc /\ s.read = r.read /\ s.at = r.at /\ s.plans = r.plans
  BY <1>1 DEF Call
<1>3. call' = [call EXCEPT ![c] = s] /\ Undisturbed(c)
  BY DEF Begin
<1>4. ReadsStand(s, file)
  BY <1>2 DEF ReadsStand
<1>5. missed' \subseteq (Pages \cup Sources) \X Files
  BY DEF PInv, TypeOK
<1>6. WellFormed(s) /\ issued' \in 0..MaxOps
  BY <1>1, BoundAssumption
<1>7. UNCHANGED <<file, rawSources, cached, log, lastBatch>> /\ NoMishap
  BY DEF NoMishap
<1> HIDE DEF s
<1> QED
  BY <1>2, <1>3, <1>4, <1>5, <1>6, <1>7, QuietStepKeepsP

\* A call that goes on with the same plans, source and number.
GoesOn(r, s) == r.pc # "idle" /\ s.plans = r.plans /\ s.source = r.source /\ s.op = r.op /\ OnPages(s)
                /\ (s.pc \in {"rollback", "restore"} => r.pc \in {"rollback", "restore"})

LEMMA GoingOnIsGood ==
  ASSUME NEW r, NEW s, WellFormed(r), GoesOn(r, s)
  PROVE  WellFormed(s)
  BY DEF WellFormed, GoesOn

-----------------------------------------------------------------------------
(***************************************************************************)
(* The steps, one after the other.                                         *)
(***************************************************************************)
LEMMA StartDeleteP ==
  ASSUME PInv, NEW c \in Calls, NEW p \in Pages, StartDelete(c, p) PROVE PInv'
<1> DEFINE r == [Idle EXCEPT !.pc = "names", !.targets = {p}]
<1>1. r \in Call /\ r.pc = "names" /\ r.plans = {} /\ r.source = {}
  BY IdleIsTyped DEF Call, Stops, Idle
<1>2. WellFormed([r EXCEPT !.op = issued + 1])
  BY <1>1, BoundAssumption DEF WellFormed, OnPages, Idle, StartDelete, Begin, PInv, TypeOK
<1>3. ReadsStand(r, file)
  BY <1>1 DEF ReadsStand
<1> HIDE DEF r
<1> QED
  BY <1>1, <1>2, <1>3, BeginKeepsP DEF StartDelete, r

LEMMA StartSourceP ==
  ASSUME PInv, NEW c \in Calls, NEW s \in Sources, StartSource(c, s) PROVE PInv'
<1>1. PICK related \in SUBSET {p \in Pages : Exists(p)} :
        Begin(c, [Idle EXCEPT !.pc = "unlink", !.source = {s}, !.todo = related])
  BY DEF StartSource
<1> DEFINE r == [Idle EXCEPT !.pc = "unlink", !.source = {s}, !.todo = related]
<1>2. r \in Call /\ r.pc = "unlink" /\ r.plans = {}
  BY IdleIsTyped DEF Call, Stops, Idle, Files
<1>3. WellFormed([r EXCEPT !.op = issued + 1])
  BY <1>1, BoundAssumption DEF WellFormed, OnPages, Idle, Begin, PInv, TypeOK
<1>4. ReadsStand(r, file)
  BY <1>2 DEF ReadsStand
<1>5. Begin(c, r) /\ UNCHANGED <<file, rawSources, cached, log, lastBatch, mishaps, missed>>
  BY <1>1 DEF StartSource
<1> HIDE DEF r
<1> QED
  BY <1>2, <1>3, <1>4, <1>5, BeginKeepsP

LEMMA StartPatchP ==
  ASSUME PInv, NEW c \in Calls, NEW b \in Batches, NEW pc \in {"preview", "patch"},
         StartPatch(c, b[1], b[2], pc)
  PROVE  PInv'
<1> DEFINE r == [Idle EXCEPT !.pc = pc, !.todo = b[1], !.meta = {b[2]}]
<1>1. b[1] \subseteq Pages /\ b[1] \subseteq Files /\ b[2] \in Metas
  BY ContentAssumption DEF Files
<1>2. r \in Call /\ r.pc = pc /\ r.plans = {}
  BY <1>1, IdleIsTyped DEF Call, Stops, Idle
<1>3. WellFormed([r EXCEPT !.op = issued + 1])
  BY <1>1, BoundAssumption DEF WellFormed, OnPages, Idle, Begin, StartPatch, PInv, TypeOK
<1>4. ReadsStand(r, file)
  BY <1>2 DEF ReadsStand
<1>5. Begin(c, r) /\ UNCHANGED <<file, rawSources, cached, log, lastBatch, mishaps, missed>>
  BY DEF StartPatch
<1> HIDE DEF r
<1> QED
  BY <1>2, <1>3, <1>4, <1>5, BeginKeepsP

LEMMA StartRollbackP ==
  ASSUME PInv, NEW c \in Calls, NEW p \in Pages, StartRollback(c, p) PROVE PInv'
<1> DEFINE r == [Idle EXCEPT !.pc = "rollback", !.at = p, !.plans = {<<p, lastBatch[p]>>}]
<1>1. p \in DOMAIN lastBatch /\ lastBatch[p] \in Plan /\ Patches(lastBatch[p])
  BY DEF StartRollback, PInv, TypeOK
<1>2. r \in Call /\ r.pc = "rollback"
  <2>1. {<<p, lastBatch[p]>>} \in SUBSET (Pages \X Plan) /\ p \in Files
    BY <1>1 DEF Files
  <2> QED
    BY <2>1, IdleIsTyped DEF Call, Stops, Idle
<1>3. WellFormed([r EXCEPT !.op = issued + 1])
  BY <1>1, BoundAssumption DEF WellFormed, OnPages, Idle, Begin, StartRollback, PInv, TypeOK
<1>4. ReadsStand(r, file)
  BY <1>2 DEF ReadsStand
<1>5. Begin(c, r) /\ UNCHANGED <<file, rawSources, cached, log, lastBatch, mishaps, missed>>
  BY DEF StartRollback
<1> HIDE DEF r
<1> QED
  BY <1>2, <1>3, <1>4, <1>5, BeginKeepsP

LEMMA BeginIngestP ==
  ASSUME PInv, NEW c \in Calls, NEW s \in Sources, NEW p \in Pages, BeginIngest(c, s, p) PROVE PInv'
<1> DEFINE r == [Idle EXCEPT !.pc = "stream", !.source = {s}, !.at = p,
                             !.read = {file[p]} \ {Absent}, !.keys = file[Index].refs]
<1>1. {file[p]} \ {Absent} \subseteq Content /\ file[Index].refs \subseteq Keys /\ p \in Files
  BY DEF PInv, TypeOK, Files, Content
<1>2. r \in Call /\ r.pc = "stream"
  BY <1>1, IdleIsTyped DEF Call, Stops, Idle
<1>3. WellFormed([r EXCEPT !.op = issued + 1])
  BY BoundAssumption DEF WellFormed, OnPages, Idle, Begin, BeginIngest, PInv, TypeOK
<1>4. ReadsStand(r, file)
  BY <1>2 DEF ReadsStand
<1>5. Begin(c, r) /\ UNCHANGED <<file, rawSources, cached, log, lastBatch, mishaps, missed>>
  BY DEF BeginIngest
<1> HIDE DEF r
<1> QED
  BY <1>2, <1>3, <1>4, <1>5, BeginKeepsP

\* A quiet step after which the call goes on, or has returned.
LEMMA QuietGoingOnP ==
  ASSUME PInv, NEW c \in Calls, NEW pc, At(c, pc), pc # "idle",
         NEW r \in Call, call' = [call EXCEPT ![c] = r], GoesOn(call[c], r) \/ r = Idle,
         UNCHANGED <<file, rawSources, cached, log, lastBatch>>, Mishap \/ NoMishap,
         missed' \subseteq (Pages \cup Sources) \X Files, ReadsStand(r, file)
  PROVE  PInv'
<1>1. WellFormed(r)
  BY GoingOnIsGood, IdleIsTyped DEF PInv
<1>2. Undisturbed(c) /\ issued' \in 0..MaxOps
  BY DEF At, PInv, TypeOK
<1> QED
  BY <1>1, <1>2, QuietStepKeepsP

LEMMA MissIsTyped ==
  ASSUME PInv, NEW c \in Calls, NEW whats \in SUBSET Deleted(c), NEW fs \in SUBSET Files,
         Miss(whats, fs) \/ UNCHANGED missed
  PROVE  missed' \subseteq (Pages \cup Sources) \X Files
<1>1. Deleted(c) \subseteq Pages \cup Sources
  BY CallIsTyped DEF PInv, Deleted
<1> QED
  BY <1>1 DEF Miss, PInv, TypeOK

\* What is deleted is the targets and the source.
LEMMA DeletedIs ==
  ASSUME NEW c \in Calls
  PROVE  call[c].targets \subseteq Deleted(c) /\ call[c].source \subseteq Deleted(c)
  BY DEF Deleted

LEMMA ReadNamesP == ASSUME PInv, NEW c \in Calls, ReadNames(c) PROVE PInv'
<1>1. PICK unread \in SUBSET call[c].targets :
       /\ IF \A p \in unread : ~Exists(p) THEN NoMishap ELSE Mishap
       /\ call' = [call EXCEPT ![c].pc = "delete", ![c].todo = call[c].targets,
            ![c].keys = {Slug[p] : p \in call[c].targets}
                        \cup {Title[p] : p \in call[c].targets \ unread}]
       /\ missed' = (missed \ (call[c].targets \X Files)) \cup (unread \X Files)
  BY DEF ReadNames
<1> DEFINE keys == {Slug[p] : p \in call[c].targets} \cup {Title[p] : p \in call[c].targets \ unread}
           r == [call[c] EXCEPT !.pc = "delete", !.todo = call[c].targets, !.keys = keys]
<1>2. call[c].pc = "names" /\ call[c] \in Call /\ call[c].targets \subseteq Pages
  BY CallIsTyped DEF ReadNames, At, PInv
<1>3. keys \subseteq Keys
  BY <1>2, NameAssumption
<1>4. r \in Call /\ r.pc = "delete" /\ GoesOn(call[c], r)
  BY <1>2, <1>3 DEF Call, Stops, Files, GoesOn, OnPages
<1>5. call' = [call EXCEPT ![c] = r]
  BY <1>1
<1>6. missed' \subseteq (Pages \cup Sources) \X Files
  BY <1>1, <1>2 DEF PInv, TypeOK
<1>7. ReadsStand(r, file)
  BY <1>4 DEF ReadsStand
<1>8. At(c, "names") /\ (Mishap \/ NoMishap) /\ UNCHANGED <<file, rawSources, cached, log, lastBatch>>
  BY <1>1 DEF ReadNames
<1> HIDE DEF r, keys
<1> QED
  BY <1>4, <1>5, <1>6, <1>7, <1>8, QuietGoingOnP

LEMMA ListP == ASSUME PInv, NEW c \in Calls, List(c) PROVE PInv'
<1>1. call[c].pc = "delete" /\ call[c] \in Call
  BY CallIsTyped DEF List, At, PInv
<1> DEFINE todo == {f \in Files : Exists(f)} \ call[c].gone
           r == [call[c] EXCEPT !.pc = "sweep", !.todo = todo]
<1>2. r \in Call /\ r.pc = "sweep" /\ GoesOn(call[c], r)
  BY <1>1 DEF Call, Stops, GoesOn, OnPages
<1>3. At(c, "delete") /\ UNCHANGED <<file, rawSources, cached, log, lastBatch>>
  BY DEF List
<1>4. CASE NoMishap /\ call' = [call EXCEPT ![c].pc = "sweep", ![c].todo = todo] /\ UNCHANGED missed
  <2>1. call' = [call EXCEPT ![c] = r]
    BY <1>4
  <2>2. missed' \subseteq (Pages \cup Sources) \X Files /\ ReadsStand(r, file)
    BY <1>2, <1>4 DEF ReadsStand, PInv, TypeOK
  <2> HIDE DEF r
  <2> QED
    BY <1>2, <1>3, <1>4, <2>1, <2>2, QuietGoingOnP
<1>5. CASE Mishap /\ Return(c) /\ Miss(Deleted(c), Files)
  <2>1. missed' \subseteq (Pages \cup Sources) \X Files
    BY <1>5, MissIsTyped
  <2> QED
    BY <1>3, <1>5, <2>1, IdleIsTyped, QuietGoingOnP DEF Return
<1> QED
  BY <1>4, <1>5 DEF List

LEMMA SweepP == ASSUME PInv, NEW c \in Calls, Sweep(c) PROVE PInv'
<1>1. call[c].pc = "sweep" /\ call[c] \in Call /\ call[c].todo \subseteq Files
  BY CallIsTyped DEF Sweep, At, PInv
<1>2. At(c, "sweep") /\ UNCHANGED <<file, rawSources, cached, log, lastBatch>>
  BY DEF Sweep
<1>3. PICK f \in call[c].todo :
       \/ /\ Unreadable(f)
          /\ call' = [call EXCEPT ![c] = Handled(c, f)]
          /\ Miss(call[c].targets, {f})
       \/ /\ Exists(f) /\ NoMishap
          /\ call' = [call EXCEPT ![c] =
               IF file[f].refs \cap call[c].keys = {} THEN Handled(c, f)
               ELSE [Handled(c, f) EXCEPT !.pc = "rewrite", !.at = f, !.read = {file[f]}]]
          /\ UNCHANGED missed
  BY DEF Sweep
<1>4. missed' \subseteq (Pages \cup Sources) \X Files
  BY <1>1, <1>3, MissIsTyped, DeletedIs
<1>5. Mishap \/ NoMishap
  BY <1>3 DEF Unreadable
<1>6. CASE call' = [call EXCEPT ![c] = Handled(c, f)]
  <2>1. Handled(c, f) \in Call /\ Handled(c, f).pc = "sweep" /\ GoesOn(call[c], Handled(c, f))
    BY <1>1 DEF Handled, Call, GoesOn, OnPages
  <2>2. ReadsStand(Handled(c, f), file)
    BY <2>1 DEF ReadsStand
  <2> QED
    BY <1>2, <1>4, <1>5, <1>6, <2>1, <2>2, QuietGoingOnP
<1>7. CASE Exists(f) /\ call' = [call EXCEPT ![c] = [Handled(c, f) EXCEPT !.pc = "rewrite", !.at = f, !.read = {file[f]}]]
  <2> DEFINE r == [Handled(c, f) EXCEPT !.pc = "rewrite", !.at = f, !.read = {file[f]}]
  <2>1. file[f] \in Content /\ f \in Files
    BY <1>1, <1>7 DEF Exists, PInv, TypeOK
  <2>2. r \in Call /\ r.pc = "rewrite" /\ r.read = {file[r.at]} /\ GoesOn(call[c], r)
    BY <1>1, <2>1 DEF Handled, Call, Stops, GoesOn, OnPages
  <2>3. ReadsStand(r, file)
    BY <2>2 DEF ReadsStand
  <2> HIDE DEF r
  <2> QED
    BY <1>2, <1>4, <1>5, <1>7, <2>2, <2>3, QuietGoingOnP DEF r
<1> QED
  BY <1>3, <1>6, <1>7

\* A step that may write a file, or the other variables, after which the call
\* goes on, or has returned, and is in no window.
LEMMA WritingGoingOnP ==
  ASSUME PInv, NEW c \in Calls, NEW pc, At(c, pc), pc # "idle",
         NEW r \in Call, call' = [call EXCEPT ![c] = r], GoesOn(call[c], r) \/ r = Idle,
         r.pc \notin {"keep", "rewrite", "patching", "restore"},
         file' \in [Files -> Content \cup {Absent}], file'[Index] # Absent,
         rawSources' \subseteq Sources, cached' \subseteq Sources, log' \subseteq 1..MaxOps,
         UNCHANGED lastBatch, Mishap \/ NoMishap,
         missed' \subseteq (Pages \cup Sources) \X Files
  PROVE  PInv'
<1>1. WellFormed(r)
  BY GoingOnIsGood, IdleIsTyped DEF PInv
<1>2. Undisturbed(c) /\ issued' \in 0..MaxOps /\ mishaps' \in 0..MaxMishaps
  BY MishapIsTyped DEF At, PInv, TypeOK
<1>3. ReadsStand(r, file')
  BY DEF ReadsStand
<1> QED
  BY <1>1, <1>2, <1>3, StepKeepsP

\* One file is written.
LEMMA WriteIsTyped ==
  ASSUME PInv, NEW f \in Files, NEW content \in Content, file' = [file EXCEPT ![f] = content]
  PROVE  file' \in [Files -> Content \cup {Absent}] /\ file'[Index] # Absent
  BY NameAssumption, ContentAssumption DEF PInv, TypeOK

LEMMA StripIsTyped ==
  ASSUME NEW r \in Content, NEW keys
  PROVE  StripRefs(r, keys) \in Content /\ StripRefs(r, keys).refs = r.refs \ keys
         /\ StripRefs(r, keys).sources = r.sources
  BY DEF StripRefs, Content

LEMMA RewriteP == ASSUME PInv, NEW c \in Calls, Rewrite(c) PROVE PInv'
<1>1. call[c].pc = "rewrite" /\ call[c] \in Call /\ call[c].at \in Files /\ call[c].read \subseteq Content
  BY CallIsTyped DEF Rewrite, At, PInv
<1>2. At(c, "rewrite") /\ UNCHANGED <<rawSources, cached, log, lastBatch>>
  BY DEF Rewrite
<1> DEFINE r == [call[c] EXCEPT !.pc = "sweep", !.read = {}]
<1>3. r \in Call /\ r.pc = "sweep" /\ GoesOn(call[c], r)
  BY <1>1 DEF Call, Stops, GoesOn, OnPages
<1>4. call' = [call EXCEPT ![c] = r]
  BY DEF Rewrite
<1>5. file' \in [Files -> Content \cup {Absent}] /\ file'[Index] # Absent
  <2>1. CASE UNCHANGED file
    BY <2>1 DEF PInv, TypeOK
  <2>2. ASSUME NEW x \in call[c].read, file' = [file EXCEPT ![call[c].at] = StripRefs(x, call[c].keys)]
        PROVE  file' \in [Files -> Content \cup {Absent}] /\ file'[Index] # Absent
    BY <1>1, <2>2, StripIsTyped, WriteIsTyped
  <2> QED
    BY <2>1, <2>2 DEF Rewrite, WriteBack
<1>6. missed' \subseteq (Pages \cup Sources) \X Files /\ (Mishap \/ NoMishap)
  BY <1>1, MissIsTyped, DeletedIs DEF Rewrite, WriteBack
<1>7. rawSources' \subseteq Sources /\ cached' \subseteq Sources /\ log' \subseteq 1..MaxOps
  BY <1>2 DEF PInv, TypeOK
<1> HIDE DEF r
<1> QED
  BY <1>2, <1>3, <1>4, <1>5, <1>6, <1>7, WritingGoingOnP

LEMMA EndSweepP == ASSUME PInv, NEW c \in Calls, EndSweep(c) PROVE PInv'
<1>1. call[c].pc = "sweep" /\ call[c] \in Call
  BY CallIsTyped DEF EndSweep, At, PInv
<1>2. At(c, "sweep") /\ UNCHANGED <<file, rawSources, cached, log, lastBatch>> /\ NoMishap
  BY DEF EndSweep, NoMishap
<1>3. missed' \subseteq (Pages \cup Sources) \X Files
  BY DEF EndSweep, PInv, TypeOK
<1> DEFINE r == [call[c] EXCEPT !.pc = "log"]
<1>4. r \in Call /\ r.pc = "log" /\ GoesOn(call[c], r)
  BY <1>1 DEF Call, Stops, GoesOn, OnPages
<1>5. ReadsStand(r, file)
  BY <1>4 DEF ReadsStand
<1>6. call' = [call EXCEPT ![c] = r] \/ call' = [call EXCEPT ![c] = Idle]
  BY DEF EndSweep, Return
<1> HIDE DEF r
<1> QED
  BY <1>2, <1>3, <1>4, <1>5, <1>6, IdleIsTyped, QuietGoingOnP

LEMMA DeleteOneP == ASSUME PInv, NEW c \in Calls, DeleteOne(c) PROVE PInv'
<1>1. call[c].pc = "delete" /\ call[c] \in Call
  BY CallIsTyped DEF DeleteOne, At, PInv
<1>2. At(c, "delete") /\ UNCHANGED <<rawSources, cached, log, lastBatch, missed>>
  BY DEF DeleteOne
<1>3. PICK p \in call[c].todo \cap Pages :
       \/ /\ Exists(p) /\ NoMishap
          /\ file' = [file EXCEPT ![p] = Absent]
          /\ call' = [call EXCEPT ![c] = [Handled(c, p) EXCEPT !.gone = @ \cup {p}]]
       \/ /\ IF Exists(p) THEN Mishap /\ "deletesSucceed" \notin Assumed ELSE NoMishap
          /\ call' = [call EXCEPT ![c] = Handled(c, p)]
          /\ UNCHANGED file
  BY DEF DeleteOne
<1> DEFINE r == [Handled(c, p) EXCEPT !.gone = @ \cup {p}]
<1>4. r \in Call /\ r.pc = "delete" /\ GoesOn(call[c], r)
  BY <1>1 DEF Call, Handled, GoesOn, OnPages
<1>5. Handled(c, p) \in Call /\ Handled(c, p).pc = "delete" /\ GoesOn(call[c], Handled(c, p))
  BY <1>1 DEF Call, Handled, GoesOn, OnPages
<1>6. file' \in [Files -> Content \cup {Absent}] /\ file'[Index] # Absent
  <2>1. p \in Pages /\ p # Index /\ Index \in Files
    BY NameAssumption DEF Files
  <2>2. file \in [Files -> Content \cup {Absent}] /\ file[Index] # Absent
    BY DEF PInv, TypeOK
  <2>3. file' = [file EXCEPT ![p] = Absent] \/ file' = file
    BY <1>3
  <2> QED
    BY <2>1, <2>2, <2>3
<1>7. rawSources' \subseteq Sources /\ cached' \subseteq Sources /\ log' \subseteq 1..MaxOps
      /\ missed' \subseteq (Pages \cup Sources) \X Files /\ (Mishap \/ NoMishap)
  BY <1>2, <1>3 DEF PInv, TypeOK
<1> HIDE DEF r
<1> QED
  BY <1>2, <1>3, <1>4, <1>5, <1>6, <1>7, WritingGoingOnP DEF r

LEMMA UnlinkP == ASSUME PInv, NEW c \in Calls, Unlink(c) PROVE PInv'
<1>1. call[c].pc = "unlink" /\ call[c] \in Call /\ call[c].todo \subseteq Pages
  BY CallIsTyped DEF Unlink, At, PInv, WellFormed, OnPages
<1>2. At(c, "unlink") /\ UNCHANGED <<file, cached, log, lastBatch, missed>>
  BY DEF Unlink
<1> DEFINE r == [call[c] EXCEPT !.pc = "fates"]
<1>3. r \in Call /\ r.pc = "fates" /\ GoesOn(call[c], r)
  BY <1>1 DEF Call, Stops, GoesOn, OnPages
<1>4. rawSources' \subseteq Sources /\ (Mishap \/ NoMishap)
  BY DEF Unlink, PInv, TypeOK
<1>5. call' = [call EXCEPT ![c] = r] \/ call' = [call EXCEPT ![c] = Idle]
  BY DEF Unlink, Return
<1>6. file' \in [Files -> Content \cup {Absent}] /\ file'[Index] # Absent /\ cached' \subseteq Sources
      /\ log' \subseteq 1..MaxOps /\ missed' \subseteq (Pages \cup Sources) \X Files
  BY <1>2 DEF PInv, TypeOK
<1>7. Idle.pc = "idle"
  BY DEF Idle
<1> HIDE DEF r
<1> QED
  BY <1>2, <1>3, <1>4, <1>5, <1>6, <1>7, IdleIsTyped, WritingGoingOnP

LEMMA DecideFateP == ASSUME PInv, NEW c \in Calls, DecideFate(c) PROVE PInv'
<1>1. call[c].pc = "fates" /\ call[c] \in Call /\ call[c].todo \subseteq Files
  BY CallIsTyped DEF DecideFate, At, PInv
<1>2. At(c, "fates") /\ UNCHANGED <<file, rawSources, cached, log, lastBatch>>
  BY DEF DecideFate
<1>3. PICK p \in call[c].todo, s \in call[c].source :
       \/ /\ Unreadable(p)
          /\ call' = [call EXCEPT ![c] = Handled(c, p)]
          /\ Miss({s}, {p})
       \/ /\ Exists(p) /\ NoMishap /\ UNCHANGED missed
          /\ call' = [call EXCEPT ![c] =
               CASE Fate(file[p].sources, s) = "skip" -> Handled(c, p)
                 [] Fate(file[p].sources, s) = "keep" ->
                      [Handled(c, p) EXCEPT !.pc = "keep", !.at = p, !.read = {file[p]}]
                 [] Fate(file[p].sources, s) = "delete" ->
                      [Handled(c, p) EXCEPT !.targets = @ \cup {p}]]
  BY DEF DecideFate
<1>4. call[c].todo \subseteq Pages /\ Handled(c, p).pc = "fates"
  BY <1>1 DEF PInv, WellFormed, OnPages, Handled
<1>5. missed' \subseteq (Pages \cup Sources) \X Files
  BY <1>1, <1>3, MissIsTyped, DeletedIs
<1>6. Mishap \/ NoMishap
  BY <1>3 DEF Unreadable
<1>7. CASE call' = [call EXCEPT ![c] = Handled(c, p)]
  <2>1. Handled(c, p) \in Call /\ GoesOn(call[c], Handled(c, p))
    BY <1>1, <1>4 DEF Handled, Call, GoesOn, OnPages
  <2>2. ReadsStand(Handled(c, p), file)
    BY <1>4 DEF ReadsStand
  <2> QED
    BY <1>2, <1>5, <1>6, <1>7, <2>1, <2>2, QuietGoingOnP
<1>8. CASE Exists(p) /\ call' = [call EXCEPT ![c] = [Handled(c, p) EXCEPT !.pc = "keep", !.at = p, !.read = {file[p]}]]
  <2> DEFINE r == [Handled(c, p) EXCEPT !.pc = "keep", !.at = p, !.read = {file[p]}]
  <2>1. file[p] \in Content /\ p \in Files
    BY <1>1, <1>8 DEF Exists, PInv, TypeOK
  <2>2. r \in Call /\ r.pc = "keep" /\ r.read = {file[r.at]} /\ GoesOn(call[c], r)
    BY <1>1, <1>4, <2>1 DEF Handled, Call, Stops, GoesOn, OnPages
  <2>3. ReadsStand(r, file)
    BY <2>2 DEF ReadsStand
  <2>4. call' = [call EXCEPT ![c] = r]
    BY <1>8
  <2> HIDE DEF r
  <2> QED
    BY <1>2, <1>5, <1>6, <2>2, <2>3, <2>4, QuietGoingOnP
<1>9. CASE call' = [call EXCEPT ![c] = [Handled(c, p) EXCEPT !.targets = @ \cup {p}]]
  <2> DEFINE r == [Handled(c, p) EXCEPT !.targets = @ \cup {p}]
  <2>1. r \in Call /\ r.pc = "fates" /\ GoesOn(call[c], r)
    BY <1>1, <1>4 DEF Handled, Call, GoesOn, OnPages
  <2>2. ReadsStand(r, file)
    BY <2>1 DEF ReadsStand
  <2>3. call' = [call EXCEPT ![c] = r]
    BY <1>9
  <2> HIDE DEF r
  <2> QED
    BY <1>2, <1>5, <1>6, <2>1, <2>2, <2>3, QuietGoingOnP
<1>10. Fate(file[p].sources, s) \in {"skip", "keep", "delete"}
  BY DEF Fate
<1> QED
  BY <1>3, <1>7, <1>8, <1>9, <1>10

LEMMA UnsourcedIsTyped ==
  ASSUME NEW r \in Content, NEW ss
  PROVE  [r EXCEPT !.sources = @ \ ss] \in Content
  BY DEF Content

LEMMA KeepP == ASSUME PInv, NEW c \in Calls, Keep(c) PROVE PInv'
<1>1. call[c].pc = "keep" /\ call[c] \in Call /\ call[c].at \in Files /\ call[c].read \subseteq Content
      /\ call[c].todo \subseteq Pages
  BY CallIsTyped DEF Keep, At, PInv, WellFormed, OnPages
<1>2. At(c, "keep") /\ UNCHANGED <<rawSources, cached, log, lastBatch>>
  BY DEF Keep
<1> DEFINE r == [call[c] EXCEPT !.pc = "fates", !.read = {}]
<1>3. r \in Call /\ r.pc = "fates" /\ GoesOn(call[c], r)
  BY <1>1 DEF Call, Stops, GoesOn, OnPages
<1>4. call' = [call EXCEPT ![c] = r]
  BY DEF Keep
<1>5. file' \in [Files -> Content \cup {Absent}] /\ file'[Index] # Absent
  <2>1. CASE UNCHANGED file
    BY <2>1 DEF PInv, TypeOK
  <2>2. ASSUME NEW x \in call[c].read, file' = [file EXCEPT ![call[c].at] = [x EXCEPT !.sources = @ \ call[c].source]]
        PROVE  file' \in [Files -> Content \cup {Absent}] /\ file'[Index] # Absent
    <3>1. [x EXCEPT !.sources = @ \ call[c].source] \in Content
      BY <1>1, UnsourcedIsTyped
    <3> QED
      BY <1>1, <2>2, <3>1, WriteIsTyped
  <2> QED
    BY <2>1, <2>2 DEF Keep, WriteBack
<1>6. missed' \subseteq (Pages \cup Sources) \X Files /\ (Mishap \/ NoMishap)
  BY <1>1, MissIsTyped, DeletedIs DEF Keep, WriteBack
<1>7. rawSources' \subseteq Sources /\ cached' \subseteq Sources /\ log' \subseteq 1..MaxOps
  BY <1>2 DEF PInv, TypeOK
<1> HIDE DEF r
<1> QED
  BY <1>2, <1>3, <1>4, <1>5, <1>6, <1>7, WritingGoingOnP

LEMMA EndFatesP == ASSUME PInv, NEW c \in Calls, EndFates(c) PROVE PInv'
<1>1. call[c].pc = "fates" /\ call[c] \in Call
  BY CallIsTyped DEF EndFates, At, PInv
<1>2. At(c, "fates") /\ UNCHANGED <<file, rawSources, cached, log, lastBatch>> /\ NoMishap
      /\ missed' \subseteq (Pages \cup Sources) \X Files
  BY DEF EndFates, NoMishap, PInv, TypeOK
<1> DEFINE r == [call[c] EXCEPT !.pc = IF call[c].targets = {} THEN "log" ELSE "names"]
<1>3. r \in Call /\ r.pc \in {"log", "names"} /\ GoesOn(call[c], r)
  BY <1>1 DEF Call, Stops, GoesOn, OnPages
<1>4. call' = [call EXCEPT ![c] = r] /\ ReadsStand(r, file)
  BY <1>3 DEF EndFates, ReadsStand
<1> HIDE DEF r
<1> QED
  BY <1>2, <1>3, <1>4, QuietGoingOnP

LEMMA AppendLogP == ASSUME PInv, NEW c \in Calls, AppendLog(c) PROVE PInv'
<1>1. call[c].pc = "log" /\ call[c] \in Call /\ call[c].op \in 1..MaxOps
  BY CallIsTyped DEF AppendLog, At, PInv, WellFormed
<1>2. At(c, "log") /\ UNCHANGED <<file, rawSources, cached, lastBatch, missed>>
  BY DEF AppendLog
<1> DEFINE r == [call[c] EXCEPT !.pc = "cache"]
<1>3. r \in Call /\ r.pc = "cache" /\ GoesOn(call[c], r)
  BY <1>1 DEF Call, Stops, GoesOn, OnPages
<1>4. call' = [call EXCEPT ![c] = r]
  BY DEF AppendLog
<1>5. log' \subseteq 1..MaxOps /\ (Mishap \/ NoMishap)
  BY <1>1 DEF AppendLog, PInv, TypeOK
<1>6. file' \in [Files -> Content \cup {Absent}] /\ file'[Index] # Absent /\ cached' \subseteq Sources
      /\ rawSources' \subseteq Sources /\ missed' \subseteq (Pages \cup Sources) \X Files
  BY <1>2 DEF PInv, TypeOK
<1> HIDE DEF r
<1> QED
  BY <1>2, <1>3, <1>4, <1>5, <1>6, WritingGoingOnP

LEMMA RemoveFromIngestCacheP == ASSUME PInv, NEW c \in Calls, RemoveFromIngestCache(c) PROVE PInv'
<1>1. At(c, "cache") /\ UNCHANGED <<file, rawSources, log, lastBatch, missed>>
  BY DEF RemoveFromIngestCache
<1>2. call' = [call EXCEPT ![c] = Idle] /\ Idle.pc = "idle" /\ Idle \in Call
  BY IdleIsTyped DEF RemoveFromIngestCache, Return, Idle
<1>3. cached' \subseteq Sources /\ (Mishap \/ NoMishap)
  BY DEF RemoveFromIngestCache, PInv, TypeOK
<1>4. file' \in [Files -> Content \cup {Absent}] /\ file'[Index] # Absent /\ log' \subseteq 1..MaxOps
      /\ rawSources' \subseteq Sources /\ missed' \subseteq (Pages \cup Sources) \X Files
  BY <1>1 DEF PInv, TypeOK
<1> QED
  BY <1>1, <1>2, <1>3, <1>4, WritingGoingOnP

LEMMA PlanIsGood ==
  ASSUME NEW r \in Content, NEW v \in Metas
  PROVE  SetMeta(r, v) \in Content /\ PlanFor(r, v) \in Plan /\ Patches(PlanFor(r, v))
         /\ PlanFor(r, v).before = r /\ PlanFor(r, v).after = SetMeta(r, v)
         /\ SetMeta(r, v).refs = r.refs /\ SetMeta(r, v).sources = r.sources
<1>1. SetMeta(r, v) \in Content /\ SetMeta(r, v).meta = v
      /\ SetMeta(r, v).refs = r.refs /\ SetMeta(r, v).sources = r.sources
  BY DEF SetMeta, Content
<1>2. PlanFor(r, v) \in Plan /\ PlanFor(r, v).before = r /\ PlanFor(r, v).after = SetMeta(r, v)
  BY <1>1 DEF PlanFor, Plan
<1> QED
  BY <1>1, <1>2 DEF Patches

\* A step of a patch, which may add a plan.
LEMMA PlanningIsGood ==
  ASSUME NEW r, NEW s, WellFormed(r), s.pc \in {"preview", "patch", "patching"}, OnPages(s),
         r.pc # "idle", s.op = r.op, s.source = r.source,
         \A item \in s.plans : item \in r.plans \/ Patches(item[2])
  PROVE  WellFormed(s)
  BY DEF WellFormed

LEMMA PlanItemP == ASSUME PInv, NEW c \in Calls, PlanItem(c) PROVE PInv'
<1>1. call[c] \in Call /\ call[c].pc \in {"preview", "patch"} /\ call[c].todo \subseteq Pages
      /\ call[c].meta \subseteq Metas /\ WellFormed(call[c]) /\ call[c].plans \subseteq Pages \X Plan
  BY CallIsTyped DEF PlanItem, At, PInv, WellFormed, OnPages
<1>2. PICK p \in call[c].todo, v \in call[c].meta :
       \/ Unreadable(p) /\ call' = [call EXCEPT ![c] = Handled(c, p)]
       \/ /\ Exists(p) /\ NoMishap
          /\ call' = [call EXCEPT ![c] =
               IF call[c].pc = "preview" \/ file[p].meta = v
               THEN [Handled(c, p) EXCEPT !.plans = @ \cup {<<p, PlanFor(file[p], v)>>}]
               ELSE [Handled(c, p) EXCEPT !.pc = "patching", !.at = p, !.read = {file[p]}]]
  BY DEF PlanItem
<1>3. /\ UNCHANGED <<file, rawSources, cached, log, lastBatch>> /\ (Mishap \/ NoMishap)
      /\ issued' \in 0..MaxOps /\ Undisturbed(c) /\ missed' \subseteq (Pages \cup Sources) \X Files
  BY <1>2 DEF PlanItem, At, Unreadable, PInv, TypeOK
<1>4. p \in Pages /\ p \in Files
  BY <1>1 DEF Files
<1>5. CASE call' = [call EXCEPT ![c] = Handled(c, p)]
  <2>1. /\ Handled(c, p) \in Call /\ OnPages(Handled(c, p)) /\ Handled(c, p).pc = call[c].pc
        /\ Handled(c, p).op = call[c].op /\ Handled(c, p).source = call[c].source
        /\ Handled(c, p).plans = call[c].plans
    BY <1>1 DEF Handled, Call, OnPages
  <2>2. WellFormed(Handled(c, p)) /\ ReadsStand(Handled(c, p), file)
    BY <1>1, <2>1, PlanningIsGood DEF ReadsStand
  <2> QED
    BY <1>3, <1>5, <2>1, <2>2, QuietStepKeepsP
<1>6. CASE Exists(p) /\ call' = [call EXCEPT ![c] = [Handled(c, p) EXCEPT !.plans = @ \cup {<<p, PlanFor(file[p], v)>>}]]
  <2> DEFINE item == <<p, PlanFor(file[p], v)>>
             r == [Handled(c, p) EXCEPT !.plans = @ \cup {item}]
  <2>1. file[p] \in Content
    BY <1>4, <1>6 DEF Exists, PInv, TypeOK
  <2>2. item \in Pages \X Plan /\ Patches(item[2])
    BY <1>1, <1>4, <2>1, PlanIsGood
  <2> HIDE DEF item
  <2>3. /\ r \in Call /\ OnPages(r) /\ r.pc = call[c].pc
        /\ r.op = call[c].op /\ r.source = call[c].source /\ r.plans = call[c].plans \cup {item}
    BY <1>1, <2>2 DEF Handled, Call, OnPages
  <2>4. call' = [call EXCEPT ![c] = r]
    BY <1>6 DEF item
  <2> HIDE DEF r
  <2>5. \A x \in r.plans : x \in call[c].plans \/ Patches(x[2])
    BY <2>2, <2>3
  <2>6. WellFormed(r) /\ ReadsStand(r, file)
    BY <1>1, <2>3, <2>5, PlanningIsGood DEF ReadsStand
  <2> QED
    BY <1>3, <2>3, <2>4, <2>6, QuietStepKeepsP
<1>7. CASE Exists(p) /\ call' = [call EXCEPT ![c] = [Handled(c, p) EXCEPT !.pc = "patching", !.at = p, !.read = {file[p]}]]
  <2> DEFINE r == [Handled(c, p) EXCEPT !.pc = "patching", !.at = p, !.read = {file[p]}]
  <2>1. file[p] \in Content
    BY <1>4, <1>7 DEF Exists, PInv, TypeOK
  <2>2. /\ r \in Call /\ OnPages(r) /\ r.pc = "patching" /\ r.read = {file[r.at]}
        /\ r.op = call[c].op /\ r.source = call[c].source /\ r.plans = call[c].plans
    BY <1>1, <1>4, <2>1 DEF Handled, Call, OnPages, Stops
  <2>3. call' = [call EXCEPT ![c] = r]
    BY <1>7
  <2> HIDE DEF r
  <2>4. WellFormed(r) /\ ReadsStand(r, file)
    BY <1>1, <2>2, PlanningIsGood DEF ReadsStand
  <2> QED
    BY <1>3, <2>2, <2>3, <2>4, QuietStepKeepsP
<1> QED
  BY <1>2, <1>5, <1>6, <1>7

LEMMA PatchP == ASSUME PInv, NEW c \in Calls, Patch(c) PROVE PInv'
<1>1. /\ call[c] \in Call /\ call[c].pc = "patching" /\ call[c].at \in Pages /\ call[c].at \in Files
      /\ call[c].todo \subseteq Pages /\ call[c].meta \subseteq Metas /\ call[c].read \subseteq Content
      /\ WellFormed(call[c]) /\ call[c].plans \subseteq Pages \X Plan
  BY CallIsTyped DEF Patch, At, PInv, WellFormed, OnPages
<1>2. PICK v \in call[c].meta, x \in call[c].read :
       \/ /\ NoMishap
          /\ file' = [file EXCEPT ![call[c].at] = SetMeta(x, v)]
          /\ call' = [call EXCEPT ![c].pc = "patch", ![c].read = {},
                                  ![c].plans = @ \cup {<<call[c].at, PlanFor(x, v)>>}]
       \/ Mishap /\ UNCHANGED file /\ call' = [call EXCEPT ![c].pc = "patch", ![c].read = {}]
  BY DEF Patch
<1>3. UNCHANGED <<rawSources, cached, log, lastBatch, missed, issued>> /\ Undisturbed(c) /\ (Mishap \/ NoMishap)
  BY <1>2 DEF Patch, At
<1>4. rawSources' \subseteq Sources /\ cached' \subseteq Sources /\ log' \subseteq 1..MaxOps
      /\ issued' \in 0..MaxOps /\ mishaps' \in 0..MaxMishaps /\ missed' \subseteq (Pages \cup Sources) \X Files
  BY <1>3, MishapIsTyped DEF PInv, TypeOK
<1> DEFINE item == <<call[c].at, PlanFor(x, v)>>
<1>5. item \in Pages \X Plan /\ Patches(item[2]) /\ SetMeta(x, v) \in Content
  BY <1>1, PlanIsGood
<1> HIDE DEF item
<1> DEFINE r == [call[c] EXCEPT !.pc = "patch", !.read = {}, !.plans = @ \cup {item}]
           s == [call[c] EXCEPT !.pc = "patch", !.read = {}]
<1>6. /\ r \in Call /\ OnPages(r) /\ r.pc = "patch"
      /\ r.op = call[c].op /\ r.source = call[c].source /\ r.plans = call[c].plans \cup {item}
  BY <1>1, <1>5 DEF Call, OnPages, Stops
<1>7. /\ s \in Call /\ OnPages(s) /\ s.pc = "patch"
      /\ s.op = call[c].op /\ s.source = call[c].source /\ s.plans = call[c].plans
  BY <1>1 DEF Call, OnPages, Stops
<1>8. \/ file' = [file EXCEPT ![call[c].at] = SetMeta(x, v)] /\ call' = [call EXCEPT ![c] = r]
      \/ UNCHANGED file /\ call' = [call EXCEPT ![c] = s]
  BY <1>2 DEF item
<1> HIDE DEF r, s
<1>9. file' \in [Files -> Content \cup {Absent}] /\ file'[Index] # Absent
  <2>1. UNCHANGED file => file' \in [Files -> Content \cup {Absent}] /\ file'[Index] # Absent
    BY DEF PInv, TypeOK
  <2> QED
    BY <1>1, <1>5, <1>8, <2>1, WriteIsTyped
<1>10. \A i \in r.plans : i \in call[c].plans \/ Patches(i[2])
  BY <1>5, <1>6
<1>11. WellFormed(r) /\ WellFormed(s) /\ ReadsStand(r, file') /\ ReadsStand(s, file')
  BY <1>1, <1>6, <1>7, <1>10, PlanningIsGood DEF ReadsStand
<1> QED
  BY <1>3, <1>4, <1>6, <1>7, <1>8, <1>9, <1>11, StepKeepsP

LEMMA EndPatchP == ASSUME PInv, NEW c \in Calls, EndPatch(c) PROVE PInv'
<1>1. call[c].plans \subseteq Pages \X Plan /\ \A item \in call[c].plans : Patches(item[2])
  BY CallIsTyped DEF PInv, WellFormed
<1> DEFINE D == {item[1] : item \in call[c].plans}
           of(p) == CHOOSE item \in call[c].plans : item[1] = p
<1>2. lastBatch' = [p \in D |-> of(p)[2]]
  BY DEF EndPatch
<1>3. ASSUME NEW p \in D PROVE of(p) \in call[c].plans
  OBVIOUS
<1> HIDE DEF of
<1>4. D \subseteq Pages
  BY <1>1
<1> HIDE DEF D
<1>5. DOMAIN lastBatch' = D /\ \A p \in D : lastBatch'[p] \in Plan /\ Patches(lastBatch'[p])
  BY <1>1, <1>2, <1>3
<1>6. call' = [call EXCEPT ![c] = Idle]
  BY DEF EndPatch, Return
<1>7. UNCHANGED <<file, rawSources, cached, log, mishaps, missed, issued>>
  BY DEF EndPatch, At
<1>8. TypeOK'
  BY <1>4, <1>5, <1>6, <1>7, IdleIsTyped DEF PInv, TypeOK
<1>9. \A d \in Calls : call'[d] = call[d] \/ call'[d] = Idle
  BY <1>6 DEF PInv, TypeOK
<1> QED
  BY <1>5, <1>7, <1>8, <1>9, IdleIsTyped DEF PInv

LEMMA CheckRollbackP == ASSUME PInv, NEW c \in Calls, CheckRollback(c) PROVE PInv'
<1>1. call[c] \in Call /\ call[c].pc = "rollback" /\ WellFormed(call[c])
  BY CallIsTyped DEF CheckRollback, At, PInv
<1>2. PICK item \in call[c].plans :
       \/ Unreadable(call[c].at) /\ Return(c)
       \/ /\ Exists(call[c].at) /\ NoMishap
          /\ IF Safe(file[call[c].at], item[2])
             THEN call' = [call EXCEPT ![c].pc = "restore"]
             ELSE Return(c)
  BY DEF CheckRollback
<1>3. At(c, "rollback") /\ UNCHANGED <<file, rawSources, cached, log, lastBatch>> /\ (Mishap \/ NoMishap)
      /\ missed' \subseteq (Pages \cup Sources) \X Files
  BY <1>2 DEF CheckRollback, Unreadable, PInv, TypeOK
<1>4. CASE Return(c)
  BY <1>3, <1>4, IdleIsTyped, QuietGoingOnP DEF Return
<1>5. CASE Safe(file[call[c].at], item[2]) /\ call' = [call EXCEPT ![c].pc = "restore"]
  <2> DEFINE r == [call[c] EXCEPT !.pc = "restore"]
  <2>1. r \in Call /\ r.pc = "restore" /\ GoesOn(call[c], r) /\ r.plans = call[c].plans /\ r.at = call[c].at
    BY <1>1 DEF Call, Stops, GoesOn, OnPages
  <2>2. \A x \in call[c].plans : x = item
    BY <1>1 DEF WellFormed
  <2>3. call' = [call EXCEPT ![c] = r]
    BY <1>5
  <2> HIDE DEF r
  <2>4. ReadsStand(r, file)
    BY <1>5, <2>1, <2>2 DEF ReadsStand, Safe
  <2> QED
    BY <1>3, <2>1, <2>3, <2>4, QuietGoingOnP
<1> QED
  BY <1>2, <1>4, <1>5

LEMMA RestoreP == ASSUME PInv, NEW c \in Calls, Restore(c) PROVE PInv'
<1>1. call[c] \in Call /\ call[c].at \in Files /\ call[c].plans \subseteq Pages \X Plan
  BY CallIsTyped DEF PInv
<1>2. At(c, "restore") /\ UNCHANGED <<rawSources, cached, log, lastBatch, missed>> /\ (Mishap \/ NoMishap)
  BY DEF Restore
<1>3. file' \in [Files -> Content \cup {Absent}] /\ file'[Index] # Absent
  <2>1. CASE UNCHANGED file
    BY <2>1 DEF PInv, TypeOK
  <2>2. ASSUME NEW item \in call[c].plans, file' = [file EXCEPT ![call[c].at] = item[2].before]
        PROVE  file' \in [Files -> Content \cup {Absent}] /\ file'[Index] # Absent
    <3>1. item[2].before \in Content
      BY <1>1 DEF Plan
    <3> QED
      BY <1>1, <2>2, <3>1, WriteIsTyped
  <2> QED
    BY <2>1, <2>2 DEF Restore
<1>4. call' = [call EXCEPT ![c] = Idle] /\ Idle.pc = "idle" /\ Idle \in Call
  BY IdleIsTyped DEF Restore, Return, Idle
<1>5. rawSources' \subseteq Sources /\ cached' \subseteq Sources /\ log' \subseteq 1..MaxOps
      /\ missed' \subseteq (Pages \cup Sources) \X Files
  BY <1>2 DEF PInv, TypeOK
<1> QED
  BY <1>2, <1>3, <1>4, <1>5, WritingGoingOnP

\* What an ingest writes: its page, with all that it has read of it, and the
\* index that it has read, with one entry more.
Ingested(c, r, ref) ==
  /\ r \in Content
  /\ file' = [file EXCEPT ![call[c].at] = r, ![Index].refs = call[c].keys \cup {Slug[call[c].at]}]
  /\ \/ call[c].read = {} /\ r.refs = {ref} /\ r.sources = call[c].source
     \/ \E x \in call[c].read : r.refs = x.refs \cup {ref} /\ r.sources = x.sources \cup call[c].source

LEMMA IngestWrites ==
  ASSUME PInv, NEW c \in Calls, EndIngest(c)
  PROVE  /\ call[c].at \in Pages
         /\ \E r \in Content, q \in Pages : (Exists(q) \/ q = call[c].at) /\ Ingested(c, r, Slug[q])
<1>1. /\ call[c] \in Call /\ call[c].pc = "stream" /\ call[c].at \in Pages /\ call[c].op \in 1..MaxOps
      /\ call[c].read \subseteq Content /\ call[c].source \subseteq Sources
  BY CallIsTyped DEF EndIngest, At, PInv, WellFormed, OnPages
<1>2. PICK ref \in {Slug[q] : q \in {q \in Pages : Exists(q)}} \cup {Slug[call[c].at]} :
       LET new == [refs |-> {ref}, sources |-> call[c].source, text |-> {call[c].op},
                   meta |-> CHOOSE v \in Metas : TRUE]
           page == IF call[c].read = {} THEN {new}
                   ELSE {[r EXCEPT !.refs = @ \cup {ref}, !.sources = @ \cup call[c].source,
                                   !.text = @ \cup {call[c].op}] : r \in call[c].read}
       IN \E r \in page :
            file' = [file EXCEPT ![call[c].at] = r,
                                 ![Index].refs = call[c].keys \cup {Slug[call[c].at]}]
  BY DEF EndIngest
<1>3. PICK q \in Pages : (Exists(q) \/ q = call[c].at) /\ ref = Slug[q]
  BY <1>1
<1>4. ref \in Keys
  BY <1>3, NameAssumption
<1>5. CASE call[c].read = {}
  <2> DEFINE new == [refs |-> {ref}, sources |-> call[c].source, text |-> {call[c].op},
                     meta |-> CHOOSE v \in Metas : TRUE]
  <2>1. Initial[Index] \in Content
    BY ContentAssumption DEF Files
  <2>2. (CHOOSE v \in Metas : TRUE) \in Metas
    BY <2>1 DEF Content
  <2>3. new \in Content /\ new.refs = {ref} /\ new.sources = call[c].source
    BY <1>1, <1>4, <2>2 DEF Content
  <2>4. file' = [file EXCEPT ![call[c].at] = new, ![Index].refs = call[c].keys \cup {Slug[call[c].at]}]
    BY <1>2, <1>5
  <2> HIDE DEF new
  <2>5. Ingested(c, new, Slug[q])
    BY <1>3, <1>5, <2>3, <2>4 DEF Ingested
  <2> QED
    BY <1>1, <1>3, <2>3, <2>5
<1>6. CASE call[c].read # {}
  <2>1. PICK x \in call[c].read :
          file' = [file EXCEPT ![call[c].at] = [x EXCEPT !.refs = @ \cup {ref}, !.sources = @ \cup call[c].source,
                                                         !.text = @ \cup {call[c].op}],
                               ![Index].refs = call[c].keys \cup {Slug[call[c].at]}]
    BY <1>2, <1>6
  <2> DEFINE r == [x EXCEPT !.refs = @ \cup {ref}, !.sources = @ \cup call[c].source, !.text = @ \cup {call[c].op}]
  <2>2. r \in Content /\ r.refs = x.refs \cup {ref} /\ r.sources = x.sources \cup call[c].source
    BY <1>1, <1>4 DEF Content
  <2>3. file' = [file EXCEPT ![call[c].at] = r, ![Index].refs = call[c].keys \cup {Slug[call[c].at]}]
    BY <2>1
  <2> HIDE DEF r
  <2>4. Ingested(c, r, Slug[q])
    BY <1>3, <2>2, <2>3 DEF Ingested
  <2> QED
    BY <1>1, <1>3, <2>2, <2>4
<1> QED
  BY <1>5, <1>6

\* Both files that an ingest writes are there afterwards, all others as before.
LEMMA IngestedFiles ==
  ASSUME PInv, NEW c \in Calls, call[c].at \in Pages, NEW r, NEW ref, Ingested(c, r, ref)
  PROVE  /\ file' \in [Files -> Content \cup {Absent}]
         /\ file'[call[c].at] = r /\ r # Absent
         /\ file'[Index] # Absent /\ file'[Index].refs = call[c].keys \cup {Slug[call[c].at]}
         /\ \A f \in Files \ {call[c].at, Index} : file'[f] = file[f]
<1>1. file \in [Files -> Content \cup {Absent}] /\ file[Index] \in Content /\ Index \in Files /\ call[c].at \in Files
  BY DEF PInv, TypeOK, Files
<1>2. call[c].at # Index /\ call[c].keys \subseteq Keys /\ Slug[call[c].at] \in Keys
  BY CallIsTyped, NameAssumption DEF PInv
<1> DEFINE refs == call[c].keys \cup {Slug[call[c].at]}
           new == [file[Index] EXCEPT !.refs = refs]
<1>3. new \in Content /\ new.refs = refs
  BY <1>1, <1>2 DEF Content
<1>4. file' = [file EXCEPT ![call[c].at] = r, ![Index] = new] /\ r \in Content
  BY <1>1, <1>2 DEF Ingested
<1> HIDE DEF new
<1> QED
  BY <1>1, <1>2, <1>3, <1>4, ContentAssumption

LEMMA EndIngestP == ASSUME PInv, NEW c \in Calls, EndIngest(c) PROVE PInv'
<1>1. PICK r \in Content, q \in Pages : Ingested(c, r, Slug[q])
  BY IngestWrites
<1>2. file' \in [Files -> Content \cup {Absent}] /\ file'[Index] # Absent
  BY <1>1, IngestWrites, IngestedFiles
<1>3. At(c, "stream") /\ UNCHANGED <<rawSources, lastBatch, mishaps, missed>>
  BY DEF EndIngest
<1>4. call' = [call EXCEPT ![c] = Idle] /\ Idle.pc = "idle" /\ Idle \in Call
  BY IdleIsTyped DEF EndIngest, Return, Idle
<1>5. call[c].op \in 1..MaxOps /\ call[c].source \subseteq Sources
  BY <1>3, CallIsTyped DEF PInv, At, WellFormed
<1>6. rawSources' \subseteq Sources /\ cached' \subseteq Sources /\ log' \subseteq 1..MaxOps
      /\ missed' \subseteq (Pages \cup Sources) \X Files /\ NoMishap
  BY <1>3, <1>5 DEF EndIngest, PInv, TypeOK, NoMishap
<1> QED
  BY <1>2, <1>3, <1>4, <1>6, WritingGoingOnP

LEMMA CrashP == ASSUME PInv, Crash PROVE PInv'
<1>1. mishaps' \in 0..MaxMishaps
  BY MishapIsTyped DEF Crash, Mishap, PInv
<1>2. \A c \in Calls : Deleted(c) \subseteq Pages \cup Sources
  BY CallIsTyped DEF PInv, Deleted
<1>3. missed' \subseteq (Pages \cup Sources) \X Files
  BY <1>2 DEF Crash, PInv, TypeOK
<1>4. call' = [c \in Calls |-> Idle] /\ DOMAIN lastBatch' = {}
  BY DEF Crash
<1>5. UNCHANGED <<file, rawSources, cached, log, issued>>
  BY DEF Crash
<1>6. TypeOK'
  BY <1>1, <1>3, <1>4, <1>5, IdleIsTyped DEF PInv, TypeOK
<1> QED
  BY <1>4, <1>6, IdleIsTyped DEF PInv

LEMMA InitPInv == Init => PInv
<1> SUFFICES ASSUME Init PROVE PInv
  OBVIOUS
<1>1. call = [c \in Calls |-> Idle] /\ DOMAIN lastBatch = {}
  BY DEF Init
<1>2. TypeOK
  BY <1>1, IdleIsTyped, ContentAssumption, BoundAssumption DEF Init, TypeOK
<1> QED
  BY <1>1, <1>2, IdleIsTyped DEF PInv

LEMMA NextPInv == ASSUME PInv, [Next]_vars PROVE PInv'
<1>1. CASE UNCHANGED vars
  BY <1>1 DEF vars, PInv, TypeOK
<1>2. ASSUME NEW c \in Calls, Start(c) PROVE PInv'
  <2>1. ASSUME NEW p \in Pages, StartDelete(c, p) \/ StartRollback(c, p) PROVE PInv'
    BY <2>1, StartDeleteP, StartRollbackP
  <2>2. ASSUME NEW s \in Sources, StartSource(c, s) \/ \E p \in Pages : BeginIngest(c, s, p) PROVE PInv'
    BY <2>2, StartSourceP, BeginIngestP
  <2>3. ASSUME NEW b \in Batches, NEW pc \in {"preview", "patch"}, StartPatch(c, b[1], b[2], pc) PROVE PInv'
    BY <2>3, StartPatchP
  <2> QED
    BY <1>2, <2>1, <2>2, <2>3 DEF Start
<1>3. ASSUME NEW c \in Calls, Step(c) PROVE PInv'
  BY <1>3, ReadNamesP, DeleteOneP, ListP, SweepP, RewriteP, EndSweepP, UnlinkP, DecideFateP, KeepP, EndFatesP,
     AppendLogP, RemoveFromIngestCacheP, PlanItemP, PatchP, EndPatchP, CheckRollbackP, RestoreP, EndIngestP
  DEF Step
<1> QED
  BY <1>1, <1>2, <1>3, CrashP DEF Next

\* Every variable keeps its type, whatever overlaps and whatever fails.
THEOREM TypeCorrect == Spec => []TypeOK
<1>1. PInv => TypeOK
  BY DEF PInv
<1> QED
  BY <1>1, InitPInv, NextPInv, PTL DEF Spec

-----------------------------------------------------------------------------
(***************************************************************************)
(* Rollbacks.                                                              *)
(***************************************************************************)
\* Who acts is at the await its step begins with, and nobody else is about to write.
LEMMA StepIsAt ==
  ASSUME NEW c \in Calls, Start(c) \/ Step(c)
  PROVE  /\ Undisturbed(c)
         /\ Start(c) => call[c].pc = "idle"
         /\ call[c].pc = "patching" => Patch(c)
         /\ call[c].pc = "restore" => Restore(c)
         /\ call[c].pc = "keep" => Keep(c)
         /\ call[c].pc = "rewrite" => Rewrite(c)
<1>1. Start(c) => Undisturbed(c) /\ call[c].pc = "idle"
  BY DEF Start, StartDelete, StartRollback, StartSource, BeginIngest, StartPatch, Begin
<1>2. ASSUME Step(c)
      PROVE  \E pc \in Stops : At(c, pc) /\ (pc = "patching" => Patch(c)) /\ (pc = "restore" => Restore(c))
                                       /\ (pc = "keep" => Keep(c)) /\ (pc = "rewrite" => Rewrite(c))
  <2>1. CASE ReadNames(c) \/ DeleteOne(c) \/ List(c) \/ Sweep(c) \/ EndSweep(c)
             \/ Unlink(c) \/ DecideFate(c) \/ EndFates(c)
    BY <2>1 DEF ReadNames, DeleteOne, List, Sweep, EndSweep, Unlink, DecideFate, EndFates, Stops
  <2>2. CASE AppendLog(c) \/ RemoveFromIngestCache(c) \/ PlanItem(c) \/ EndPatch(c) \/ CheckRollback(c)
             \/ EndIngest(c)
    BY <2>2 DEF AppendLog, RemoveFromIngestCache, PlanItem, EndPatch, CheckRollback, EndIngest, Stops
  <2>3. CASE Keep(c)
    BY <2>3 DEF Keep, Stops
  <2>4. CASE Rewrite(c)
    BY <2>4 DEF Rewrite, Stops
  <2>5. CASE Patch(c)
    BY <2>5 DEF Patch, Stops
  <2>6. CASE Restore(c)
    BY <2>6 DEF Restore, Stops
  <2> QED
    BY <1>2, <2>1, <2>2, <2>3, <2>4, <2>5, <2>6 DEF Step
<1>3. Step(c) => Undisturbed(c)
  BY <1>2 DEF At
<1> QED
  BY <1>1, <1>2, <1>3 DEF At

\* A call that is about to write is the only one that acts.
LEMMA WindowsAreQuiet ==
  ASSUME "shortWindows" \in Assumed, NEW c \in Calls, InWindow(c), Next
  PROVE  Crash \/ Step(c)
<1>1. ASSUME NEW d \in Calls, Start(d) \/ Step(d) PROVE d = c
  BY <1>1, StepIsAt DEF Undisturbed
<1>2. ~Start(c)
  BY StepIsAt DEF InWindow
<1> QED
  BY <1>1, <1>2 DEF Next

OwnPatchOnly(c) ==
  (call[c].pc \in {"restore", "patching"} /\ call'[c].pc # call[c].pc) =>
     LET f == call[c].at IN
       Exists(f) /\ file'[f] # Absent => SetMeta(file[f], file'[f].meta) = file'[f]

LEMMA PatchIsOwn ==
  ASSUME "shortWindows" \in Assumed, PInv, NEW c \in Calls, [Next]_vars
  PROVE  OwnPatchOnly(c)
<1> DEFINE f == call[c].at
<1> SUFFICES ASSUME call[c].pc \in {"restore", "patching"}, call'[c].pc # call[c].pc,
                    Exists(f), file'[f] # Absent
             PROVE  SetMeta(file[f], file'[f].meta) = file'[f]
  BY DEF OwnPatchOnly
<1>1. f \in Files /\ file \in [Files -> Content \cup {Absent}] /\ file[f] \in Content
  BY CallIsTyped DEF PInv, TypeOK, Exists
<1>2. \A r \in Content : SetMeta(r, r.meta) = r
  BY DEF SetMeta, Content
<1>3. CASE UNCHANGED file
  BY <1>1, <1>2, <1>3
<1>4. ReadsStand(call[c], file)
  BY DEF PInv
<1>5. CASE call[c].pc = "patching" /\ Patch(c)
  <2>1. PICK v \in call[c].meta, r \in call[c].read :
          file' = [file EXCEPT ![f] = SetMeta(r, v)] \/ UNCHANGED file
    BY <1>5 DEF Patch
  <2>2. r = file[f] /\ v \in Metas
    BY <1>4, <1>5, CallIsTyped DEF ReadsStand, PInv
  <2>3. SetMeta(file[f], v).meta = v
    BY <1>1, <2>2 DEF SetMeta, Content
  <2> QED
    BY <1>1, <1>3, <2>1, <2>2, <2>3
<1>6. CASE call[c].pc = "restore" /\ Restore(c)
  <2>1. CASE ~UNCHANGED file
    <3>1. PICK item \in call[c].plans : file' = [file EXCEPT ![f] = item[2].before]
      BY <1>6, <2>1 DEF Restore
    <3>2. item[2] \in Plan /\ Patches(item[2]) /\ file[f] = item[2].after
      BY <1>4, <1>6, CallIsTyped DEF PInv, WellFormed, ReadsStand
    <3>3. file'[f] = item[2].before /\ item[2].before \in Content /\ item[2].after \in Content
      BY <1>1, <3>1, <3>2 DEF Plan
    <3>4. file[f] = SetMeta(file'[f], file[f].meta)
      BY <3>2, <3>3 DEF Patches
    <3>5. \A r, s \in Content : s = SetMeta(r, s.meta) => SetMeta(s, r.meta) = r
      BY DEF SetMeta, Content
    <3> QED
      BY <1>1, <3>3, <3>4, <3>5
  <2> QED
    BY <1>3, <2>1
<1>7. CASE UNCHANGED vars
  BY <1>3, <1>7 DEF vars
<1>8. CASE Crash
  BY <1>3, <1>8 DEF Crash
<1>9. InWindow(c)
  BY DEF InWindow
<1> QED
  BY <1>5, <1>6, <1>7, <1>8, <1>9, WindowsAreQuiet, StepIsAt

\* With nobody between the comparison and the restore, and between the read and
\* the write of a patch, a rollback takes back its own patch or nothing
\* (memory-ops-rollback.ts): RollbackTakesBackItsPatchOnly.
THEOREM RollbacksAreExact ==
  ASSUME "shortWindows" \in Assumed
  PROVE  Spec => RollbackTakesBackItsPatchOnly
<1>1. ASSUME PInv, [Next]_vars PROVE \A c \in Calls : OwnPatchOnly(c)
  BY <1>1, PatchIsOwn
<1>2. PInv /\ [Next]_vars => [\A c \in Calls : OwnPatchOnly(c)]_vars
  BY <1>1
<1>3. [\A c \in Calls : OwnPatchOnly(c)]_vars =>
      [\A c \in Calls : (call[c].pc \in {"restore", "patching"} /\ call'[c].pc # call[c].pc) =>
         LET f == call[c].at IN
           Exists(f) /\ file'[f] # Absent => SetMeta(file[f], file'[f].meta) = file'[f]]_vars
  BY DEF OwnPatchOnly
<1> QED
  BY <1>2, <1>3, InitPInv, NextPInv, PTL DEF Spec, RollbackTakesBackItsPatchOnly

-----------------------------------------------------------------------------
(***************************************************************************)
(* The invariant, for what is deleted.                                     *)
(***************************************************************************)
OnTime == {"shortWindows", "ingestWaits", "deletesSucceed"} \subseteq Assumed

\* No two pages share a name.  The code does not ensure it: with two pages of
\* one title a cascade strips the references to the one that stays as well.
NamesApart == \A p, q \in Pages : p # q => Names(p) \cap Names(q) = {}

\* What a cascade has to delete goes, and stays away while it is under way.
TargetsGo(r, files) ==
  /\ r.pc \in {"idle", "stream"} => r.targets = {} /\ r.gone = {}
  /\ \A p \in r.gone : files[p] = Absent
  /\ r.pc = "delete" => r.todo \subseteq r.targets /\ \A p \in r.targets \ r.todo : files[p] = Absent
  /\ r.pc \in {"sweep", "rewrite"} => \A p \in r.targets : files[p] = Absent
NamesAreTheirs(r) ==
  r.pc \in {"delete", "sweep", "rewrite"} => \A k \in r.keys : \E p \in r.targets : k \in Names(p)

\* A source that goes takes along only pages without another one, and has
\* looked at all that have it.
SourceGoes(r, files) ==
  /\ r.pc = "unlink" => \A p \in Pages, s \in r.source :
       files[p] # Absent /\ s \in files[p].sources => p \in r.todo
  /\ r.source # {} => \A p \in r.targets : files[p] # Absent => files[p].sources \subseteq r.source
StreamStands(r, files, raw) ==
  r.pc = "stream" => /\ r.read = {files[r.at]} \ {Absent} /\ r.keys = files[Index].refs
                     /\ r.source \subseteq raw
CallFits(r, files, raw) ==
  TargetsGo(r, files) /\ NamesAreTheirs(r) /\ SourceGoes(r, files) /\ StreamStands(r, files, raw)

StreamsAlone(calls) ==
  \A c, d \in Calls : calls[c].pc = "stream" /\ d # c => calls[d].pc = "idle"

\* A file that refers to a page that is gone is one a failure has left, or
\* one that a cascade under way is going to look at, by all of the page's names.
Dangles(files, p, f) == files[p] = Absent /\ files[f] # Absent /\ files[f].refs \cap Names(p) # {}
Watches(r, p, f) ==
  /\ p \in r.targets
  /\ \/ r.pc \in {"fates", "keep", "names"}
     \/ /\ Names(p) \subseteq r.keys
        /\ \/ r.pc = "delete"
           \/ r.pc \in {"sweep", "rewrite"} /\ f \in r.todo
           \/ r.pc = "rewrite" /\ f = r.at
RefsCovered(files, calls, miss) ==
  \A p \in Pages, f \in Files : (Initial[p] # Absent /\ Dangles(files, p, f)) =>
    <<p, f>> \in miss \/ \E c \in Calls : Watches(calls[c], p, f)

\* A page that is about to be deleted is known by all its names to somebody
\* who is about to sweep, or is written off.
Knows(r, p) == r.pc = "delete" /\ p \in r.targets /\ Names(p) \subseteq r.keys
NamesCovered(files, calls, miss) ==
  \A c \in Calls, p \in Pages : calls[c].pc = "delete" /\ p \in calls[c].todo /\ files[p] # Absent =>
    (\A f \in Files : <<p, f>> \in miss) \/ \E d \in Calls : Knows(calls[d], p)

\* A page that names a source that is gone is one a failure has left, or one
\* that a deletion under way is going to look at.
Follows(r, p, s) ==
  /\ s \in r.source
  /\ \/ r.pc \in {"fates", "keep"} /\ p \in r.todo
     \/ r.pc = "keep" /\ p = r.at
     \/ r.pc \in {"fates", "keep", "names"} /\ p \in r.targets
     \/ r.pc = "delete" /\ p \in r.todo
SourcesCovered(files, raw, calls, miss) ==
  \A p \in Pages : files[p] # Absent => \A s \in files[p].sources \ raw :
    <<s, p>> \in miss \/ \E c \in Calls : Follows(calls[c], p, s)

Covered(files, raw, calls, miss) ==
  RefsCovered(files, calls, miss) /\ NamesCovered(files, calls, miss) /\ SourcesCovered(files, raw, calls, miss)

WInv ==
  /\ PInv
  /\ \A c \in Calls : CallFits(call[c], file, rawSources)
  /\ StreamsAlone(call)
  /\ Covered(file, rawSources, call, missed)

-----------------------------------------------------------------------------
(***************************************************************************)
(* A step hands over what is to be looked at.                              *)
(***************************************************************************)
\* Files go, and lose references and sources.
Shrinks(files, files2) ==
  \A f \in Files : files2[f] # Absent =>
    files[f] # Absent /\ files2[f].refs \subseteq files[f].refs /\ files2[f].sources \subseteq files[f].sources

MissesStay(r) ==
  /\ \A p \in Pages, f \in Files : <<p, f>> \in missed =>
       <<p, f>> \in missed' \/ (file'[p] # Absent /\ Knows(r, p))
  /\ \A s \in Sources, p \in Pages : <<s, p>> \in missed => <<s, p>> \in missed'
RefsHanded(c, r) ==
  \A p \in Pages, f \in Files : Dangles(file', p, f) =>
    /\ file[p] = Absent /\ Watches(call[c], p, f) => Watches(r, p, f) \/ <<p, f>> \in missed'
    /\ file[p] # Absent => <<p, f>> \in missed' \/ \E d \in Calls : Watches(call'[d], p, f)
NamesHanded(c, r) ==
  \A p \in Pages : file'[p] # Absent =>
    /\ r.pc = "delete" /\ p \in r.todo =>
         \/ call[c].pc = "delete" /\ p \in call[c].todo
         \/ \A f \in Files : <<p, f>> \in missed'
         \/ Knows(r, p)
    /\ Knows(call[c], p) => Knows(r, p) \/ \A f \in Files : <<p, f>> \in missed'
SourcesHanded(c, r) ==
  \A p \in Pages : file'[p] # Absent => \A s \in file'[p].sources :
    /\ Follows(call[c], p, s) => Follows(r, p, s) \/ <<s, p>> \in missed'
    /\ s \in rawSources \ rawSources' => Follows(r, p, s)
HandsOver(c, r) == MissesStay(r) /\ RefsHanded(c, r) /\ NamesHanded(c, r) /\ SourcesHanded(c, r)

\* The other calls.
LEMMA OthersFit ==
  ASSUME NEW r \in Call, NEW files, NEW files2, NEW raw, NEW raw2,
         CallFits(r, files, raw), Shrinks(files, files2), r.pc # "stream"
  PROVE  CallFits(r, files2, raw2)
<1>1. r.gone \subseteq Pages /\ r.targets \subseteq Pages /\ Pages \subseteq Files
  BY DEF Call, Files
<1>2. TargetsGo(r, files2)
  BY <1>1 DEF CallFits, TargetsGo, Shrinks
<1>3. SourceGoes(r, files2)
  BY <1>1 DEF CallFits, SourceGoes, Shrinks
<1> QED
  BY <1>2, <1>3 DEF CallFits, StreamStands

LEMMA StepKeepsW ==
  ASSUME WInv, PInv', NEW c \in Calls, NEW r \in Call, call' = [call EXCEPT ![c] = r],
         Shrinks(file, file'), \A d \in Calls \ {c} : call[d].pc # "stream",
         r.pc = "stream" => \A d \in Calls \ {c} : call[d].pc = "idle",
         CallFits(r, file', rawSources'), HandsOver(c, r)
  PROVE  WInv'
<1>1. /\ call'[c] = r
      /\ \A d \in Calls \ {c} : call'[d] = call[d] /\ call[d] \in Call
  BY CallIsTyped DEF WInv, PInv, TypeOK
<1>2. ASSUME NEW d \in Calls PROVE CallFits(call'[d], file', rawSources')
  BY <1>1, OthersFit DEF WInv
<1>3. StreamsAlone(call')
  BY <1>1 DEF StreamsAlone
<1>4. RefsCovered(file', call', missed')
  <2> SUFFICES ASSUME NEW p \in Pages, NEW f \in Files, Initial[p] # Absent, Dangles(file', p, f)
               PROVE  <<p, f>> \in missed' \/ \E d \in Calls : Watches(call'[d], p, f)
    BY DEF RefsCovered
  <2>1. CASE file[p] # Absent
    BY <2>1 DEF HandsOver, RefsHanded
  <2>2. CASE file[p] = Absent
    <3>1. Dangles(file, p, f)
      BY <2>2 DEF Dangles, Shrinks
    <3>2. CASE <<p, f>> \in missed
      BY <3>2 DEF HandsOver, MissesStay, Dangles
    <3>3. ASSUME NEW d \in Calls, Watches(call[d], p, f) PROVE <<p, f>> \in missed' \/ Watches(call'[d], p, f)
      BY <1>1, <2>2, <3>3 DEF HandsOver, RefsHanded
    <3> QED
      BY <3>1, <3>2, <3>3 DEF WInv, Covered, RefsCovered
  <2> QED
    BY <2>1, <2>2
<1>5. NamesCovered(file', call', missed')
  <2> SUFFICES ASSUME NEW d \in Calls, NEW p \in Pages,
                      call'[d].pc = "delete", p \in call'[d].todo, file'[p] # Absent
               PROVE  (\A f \in Files : <<p, f>> \in missed') \/ \E e \in Calls : Knows(call'[e], p)
    BY DEF NamesCovered
  <2>1. file[p] # Absent
    BY DEF Shrinks, Files
  <2>2. CASE (\A f \in Files : <<p, f>> \in missed) \/ \E e \in Calls : Knows(call[e], p)
    <3>1. CASE \A f \in Files : <<p, f>> \in missed
      BY <1>1, <3>1 DEF HandsOver, MissesStay
    <3>2. ASSUME NEW e \in Calls, Knows(call[e], p)
          PROVE  (\A f \in Files : <<p, f>> \in missed') \/ Knows(call'[e], p)
      BY <1>1, <3>2 DEF HandsOver, NamesHanded
    <3> QED
      BY <2>2, <3>1, <3>2
  <2>3. CASE d # c
    BY <1>1, <2>1, <2>2, <2>3 DEF WInv, Covered, NamesCovered
  <2>4. CASE d = c
    <3>1. CASE call[c].pc = "delete" /\ p \in call[c].todo
      BY <2>1, <2>2, <3>1 DEF WInv, Covered, NamesCovered
    <3> QED
      BY <1>1, <2>4, <3>1 DEF HandsOver, NamesHanded
  <2> QED
    BY <2>3, <2>4
<1>6. SourcesCovered(file', rawSources', call', missed')
  <2> SUFFICES ASSUME NEW p \in Pages, file'[p] # Absent, NEW s \in file'[p].sources, s \notin rawSources'
               PROVE  <<s, p>> \in missed' \/ \E d \in Calls : Follows(call'[d], p, s)
    BY DEF SourcesCovered
  <2>1. file[p] # Absent /\ s \in file[p].sources
    BY DEF Shrinks, Files
  <2>2. CASE s \in rawSources
    BY <1>1, <2>2 DEF HandsOver, SourcesHanded
  <2>3. CASE s \notin rawSources
    <3>1. s \in Sources
      <4>1. file' \in [Files -> Content \cup {Absent}] /\ p \in Files
        BY DEF PInv, TypeOK, Files
      <4> QED
        BY <4>1 DEF Content
    <3>2. ASSUME NEW d \in Calls, Follows(call[d], p, s) PROVE <<s, p>> \in missed' \/ Follows(call'[d], p, s)
      BY <1>1, <3>2 DEF HandsOver, SourcesHanded
    <3> QED
      BY <2>1, <2>3, <3>1, <3>2 DEF WInv, Covered, SourcesCovered, HandsOver, MissesStay
  <2> QED
    BY <2>2, <2>3
<1> QED
  BY <1>2, <1>3, <1>4, <1>5, <1>6 DEF WInv, Covered

LEMMA IdleFits == \A files, raw : CallFits(Idle, files, raw)
  BY DEF Idle, CallFits, TargetsGo, NamesAreTheirs, SourceGoes, StreamStands

\* A call that has nothing to look at has nothing to hand over.
Inert(c) ==
  /\ call[c].pc # "delete"
  /\ \A p \in Pages, f \in Files : ~Watches(call[c], p, f)
  /\ \A p \in Pages, s \in Sources : ~Follows(call[c], p, s)

LEMMA InertKeepsW ==
  ASSUME WInv, PInv', NEW c \in Calls, NEW r \in Call, call' = [call EXCEPT ![c] = r],
         Shrinks(file, file'), \A p \in Pages : file[p] # Absent => file'[p] # Absent,
         \A d \in Calls \ {c} : call[d].pc # "stream",
         r.pc = "stream" => \A d \in Calls \ {c} : call[d].pc = "idle",
         CallFits(r, file', rawSources'), Inert(c), r.pc # "delete", UNCHANGED <<rawSources, missed>>
  PROVE  WInv'
<1>1. ASSUME NEW p \in Pages, file'[p] # Absent PROVE file'[p].sources \subseteq Sources
  BY <1>1 DEF PInv, TypeOK, Content, Files
<1>2. MissesStay(r) /\ RefsHanded(c, r) /\ NamesHanded(c, r)
  BY DEF MissesStay, RefsHanded, NamesHanded, Inert, Dangles, Knows
<1>3. SourcesHanded(c, r)
  BY <1>1 DEF SourcesHanded, Inert
<1> QED
  BY <1>2, <1>3, StepKeepsW DEF HandsOver

\* Whoever acts does so without an ingest.
LEMMA ActsApart ==
  ASSUME WInv, NEW c \in Calls, NEW pc, At(c, pc), pc # "idle"
  PROVE  \A d \in Calls \ {c} : call[d].pc # "stream"
  BY DEF WInv, StreamsAlone, At

LEMMA SameShrinks == Shrinks(file, file)
  BY DEF Shrinks

\* A call begins.
LEMMA BeginKeepsW ==
  ASSUME OnTime, WInv, PInv', NEW c \in Calls, NEW r \in Call, Begin(c, r), r.pc # "idle", r.pc # "delete",
         r.pc = "stream" => \A d \in Calls \ {c} : call[d].pc = "idle",
         CallFits(r, file, rawSources), UNCHANGED <<file, rawSources, missed>>
  PROVE  WInv'
<1> DEFINE s == [r EXCEPT !.op = issued + 1]
<1>1. /\ s.pc = r.pc /\ s.targets = r.targets /\ s.gone = r.gone /\ s.todo = r.todo /\ s.keys = r.keys
      /\ s.source = r.source /\ s.read = r.read /\ s.at = r.at
  BY DEF Call
<1>2. call' = [call EXCEPT ![c] = s] /\ issued < MaxOps /\ call[c].pc = "idle"
      /\ \A d \in Calls : call[d].pc # "stream"
  BY DEF Begin, OnTime
<1>3. s \in Call
  <2>1. issued + 1 \in 0..MaxOps
    BY <1>2, BoundAssumption DEF WInv, PInv, TypeOK
  <2> QED
    BY <2>1 DEF Call
<1> HIDE DEF s
<1>4. CallFits(s, file, rawSources)
  BY <1>1 DEF CallFits, TargetsGo, NamesAreTheirs, SourceGoes, StreamStands
<1>5. Inert(c)
  BY <1>2 DEF Inert, Watches, Follows
<1> QED
  BY <1>1, <1>2, <1>3, <1>4, <1>5, InertKeepsW, SameShrinks

LEMMA StartDeleteW ==
  ASSUME OnTime, WInv, PInv', NEW c \in Calls, NEW p \in Pages, StartDelete(c, p) PROVE WInv'
<1> DEFINE r == [Idle EXCEPT !.pc = "names", !.targets = {p}]
<1>1. r \in Call /\ r.pc = "names" /\ r.source = {} /\ r.gone = {}
  BY IdleIsTyped DEF Call, Stops, Idle
<1>2. CallFits(r, file, rawSources)
  BY <1>1 DEF CallFits, TargetsGo, NamesAreTheirs, SourceGoes, StreamStands
<1>3. Begin(c, r) /\ UNCHANGED <<file, rawSources, missed>>
  BY DEF StartDelete
<1> HIDE DEF r
<1> QED
  BY <1>1, <1>2, <1>3, BeginKeepsW

LEMMA StartSourceW ==
  ASSUME OnTime, WInv, PInv', NEW c \in Calls, NEW s \in Sources, StartSource(c, s) PROVE WInv'
<1>1. PICK related \in SUBSET {p \in Pages : Exists(p)} :
        /\ {p \in Pages : Exists(p) /\ s \in file[p].sources} \subseteq related
        /\ Begin(c, [Idle EXCEPT !.pc = "unlink", !.source = {s}, !.todo = related])
  BY DEF StartSource
<1> DEFINE r == [Idle EXCEPT !.pc = "unlink", !.source = {s}, !.todo = related]
<1>2. r \in Call /\ r.pc = "unlink" /\ r.source = {s} /\ r.gone = {} /\ r.targets = {} /\ r.todo = related
  BY IdleIsTyped DEF Call, Stops, Idle, Files
<1>3. CallFits(r, file, rawSources)
  BY <1>1, <1>2 DEF CallFits, TargetsGo, NamesAreTheirs, SourceGoes, StreamStands, Exists
<1>4. Begin(c, r) /\ UNCHANGED <<file, rawSources, missed>>
  BY <1>1 DEF StartSource
<1> HIDE DEF r
<1> QED
  BY <1>2, <1>3, <1>4, BeginKeepsW

LEMMA StartPatchW ==
  ASSUME OnTime, WInv, PInv', NEW c \in Calls, NEW b \in Batches, NEW pc \in {"preview", "patch"},
         StartPatch(c, b[1], b[2], pc)
  PROVE  WInv'
<1> DEFINE r == [Idle EXCEPT !.pc = pc, !.todo = b[1], !.meta = {b[2]}]
<1>1. b[1] \subseteq Files /\ b[2] \in Metas
  BY ContentAssumption DEF Files
<1>2. r \in Call /\ r.pc = pc /\ r.source = {} /\ r.gone = {} /\ r.targets = {}
  BY <1>1, IdleIsTyped DEF Call, Stops, Idle
<1>3. CallFits(r, file, rawSources)
  BY <1>2 DEF CallFits, TargetsGo, NamesAreTheirs, SourceGoes, StreamStands
<1>4. Begin(c, r) /\ UNCHANGED <<file, rawSources, missed>>
  BY DEF StartPatch
<1> HIDE DEF r
<1> QED
  BY <1>2, <1>3, <1>4, BeginKeepsW

LEMMA StartRollbackW ==
  ASSUME OnTime, WInv, PInv', NEW c \in Calls, NEW p \in Pages, StartRollback(c, p) PROVE WInv'
<1> DEFINE r == [Idle EXCEPT !.pc = "rollback", !.at = p, !.plans = {<<p, lastBatch[p]>>}]
<1>1. p \in DOMAIN lastBatch /\ lastBatch[p] \in Plan
  BY DEF StartRollback, WInv, PInv, TypeOK
<1>2. r \in Call /\ r.pc = "rollback" /\ r.source = {} /\ r.gone = {} /\ r.targets = {}
  <2>1. {<<p, lastBatch[p]>>} \in SUBSET (Pages \X Plan) /\ p \in Files
    BY <1>1 DEF Files
  <2> QED
    BY <2>1, IdleIsTyped DEF Call, Stops, Idle
<1>3. CallFits(r, file, rawSources)
  BY <1>2 DEF CallFits, TargetsGo, NamesAreTheirs, SourceGoes, StreamStands
<1>4. Begin(c, r) /\ UNCHANGED <<file, rawSources, missed>>
  BY DEF StartRollback
<1> HIDE DEF r
<1> QED
  BY <1>2, <1>3, <1>4, BeginKeepsW

LEMMA BeginIngestW ==
  ASSUME OnTime, WInv, PInv', NEW c \in Calls, NEW s \in Sources, NEW p \in Pages, BeginIngest(c, s, p)
  PROVE  WInv'
<1> DEFINE r == [Idle EXCEPT !.pc = "stream", !.source = {s}, !.at = p,
                             !.read = {file[p]} \ {Absent}, !.keys = file[Index].refs]
<1>1. {file[p]} \ {Absent} \subseteq Content /\ file[Index].refs \subseteq Keys /\ p \in Files
  BY DEF WInv, PInv, TypeOK, Files, Content
<1>2. /\ r \in Call /\ r.pc = "stream" /\ r.source = {s} /\ r.gone = {} /\ r.targets = {}
      /\ r.at = p /\ r.read = {file[p]} \ {Absent} /\ r.keys = file[Index].refs
  BY <1>1, IdleIsTyped DEF Call, Stops, Idle
<1>3. Begin(c, r) /\ UNCHANGED <<file, rawSources, missed>> /\ s \in rawSources
      /\ \A d \in Calls : call[d].pc = "idle"
  BY DEF BeginIngest, OnTime
<1> HIDE DEF r
<1>4. CallFits(r, file, rawSources)
  BY <1>2, <1>3 DEF CallFits, TargetsGo, NamesAreTheirs, SourceGoes, StreamStands
<1> QED
  BY <1>2, <1>3, <1>4, BeginKeepsW

-----------------------------------------------------------------------------
(***************************************************************************)
(* The steps that look for nothing.                                        *)
(***************************************************************************)
QuietPcs == {"log", "cache", "preview", "patch", "patching", "rollback", "restore"}
SameTargets(r, s) == s.targets = r.targets /\ s.gone = r.gone /\ s.source = r.source

LEMMA QuietFits ==
  ASSUME NEW r \in Call, NEW s \in Call, NEW files, NEW files2, NEW raw, NEW raw2,
         CallFits(r, files, raw), Shrinks(files, files2), SameTargets(r, s), s.pc \in QuietPcs
  PROVE  CallFits(s, files2, raw2)
<1>1. r.gone \subseteq Files /\ r.targets \subseteq Files
  BY DEF Call, Files
<1>2. TargetsGo(s, files2)
  BY <1>1 DEF CallFits, TargetsGo, Shrinks, SameTargets, QuietPcs
<1>3. SourceGoes(s, files2)
  BY <1>1 DEF CallFits, SourceGoes, Shrinks, SameTargets, QuietPcs
<1>4. NamesAreTheirs(s) /\ StreamStands(s, files2, raw2)
  BY DEF NamesAreTheirs, StreamStands, QuietPcs
<1> QED
  BY <1>2, <1>3, <1>4 DEF CallFits

LEMMA QuietIsInert ==
  ASSUME NEW c \in Calls, call[c].pc \in QuietPcs \/ (call[c].pc = "sweep" /\ call[c].todo = {})
  PROVE  Inert(c)
  BY DEF Inert, QuietPcs, Watches, Follows

LEMMA QuietKeepsW ==
  ASSUME WInv, PInv', NEW c \in Calls, NEW r \in Call, NEW pc, At(c, pc), pc # "idle",
         call' = [call EXCEPT ![c] = r], r = Idle \/ (r.pc \in QuietPcs /\ SameTargets(call[c], r)),
         Inert(c), Shrinks(file, file'), \A p \in Pages : file[p] # Absent => file'[p] # Absent,
         UNCHANGED <<rawSources, missed>>
  PROVE  WInv'
<1>1. CallFits(r, file', rawSources')
  BY CallIsTyped, QuietFits, IdleFits DEF WInv, PInv
<1>2. r.pc # "stream" /\ r.pc # "delete"
  BY DEF Idle, QuietPcs
<1> QED
  BY <1>1, <1>2, InertKeepsW, ActsApart

LEMMA EndSweepW == ASSUME WInv, PInv', NEW c \in Calls, EndSweep(c) PROVE WInv'
<1>1. call[c] \in Call /\ At(c, "sweep") /\ call[c].pc = "sweep" /\ call[c].todo = {}
  BY CallIsTyped DEF EndSweep, At, WInv, PInv
<1> DEFINE r == [call[c] EXCEPT !.pc = "log"]
<1>2. r \in Call /\ r.pc = "log" /\ SameTargets(call[c], r)
  BY <1>1 DEF Call, Stops, SameTargets
<1>3. call' = [call EXCEPT ![c] = r] \/ call' = [call EXCEPT ![c] = Idle]
  BY DEF EndSweep, Return
<1>4. UNCHANGED <<file, rawSources, missed>> /\ Inert(c) /\ r.pc \in QuietPcs
  BY <1>1, <1>2, QuietIsInert DEF EndSweep, QuietPcs
<1> HIDE DEF r
<1> QED
  BY <1>1, <1>2, <1>3, <1>4, IdleIsTyped, QuietKeepsW, SameShrinks

LEMMA LogAndCacheW == ASSUME WInv, PInv', NEW c \in Calls, AppendLog(c) \/ RemoveFromIngestCache(c) PROVE WInv'
<1>1. call[c] \in Call /\ (At(c, "log") \/ At(c, "cache")) /\ call[c].pc \in {"log", "cache"}
  BY CallIsTyped DEF AppendLog, RemoveFromIngestCache, At, WInv, PInv
<1> DEFINE r == [call[c] EXCEPT !.pc = "cache"]
<1>2. r \in Call /\ r.pc = "cache" /\ SameTargets(call[c], r)
  BY <1>1 DEF Call, Stops, SameTargets
<1>3. call' = [call EXCEPT ![c] = r] \/ call' = [call EXCEPT ![c] = Idle]
  BY DEF AppendLog, RemoveFromIngestCache, Return
<1>4. UNCHANGED <<file, rawSources, missed>> /\ Inert(c) /\ r.pc \in QuietPcs
  BY <1>1, <1>2, QuietIsInert DEF AppendLog, RemoveFromIngestCache, QuietPcs
<1> HIDE DEF r
<1> QED
  BY <1>1, <1>2, <1>3, <1>4, IdleIsTyped, QuietKeepsW, SameShrinks

\* Plans are made, and dealt with, in calls that look for nothing.
LEMMA PlanningKeepsW ==
  ASSUME WInv, PInv', NEW c \in Calls, PlanItem(c) \/ EndPatch(c) \/ CheckRollback(c)
  PROVE  WInv'
<1>1. call[c] \in Call /\ call[c].pc \in {"preview", "patch", "rollback"} /\ At(c, call[c].pc)
      /\ UNCHANGED <<file, rawSources, missed>>
  BY CallIsTyped DEF PlanItem, EndPatch, CheckRollback, At, WInv, PInv
<1>2. call'[c] \in Call /\ call' \in [Calls -> Call]
  BY DEF PInv, TypeOK
<1>3. call'[c] = Idle \/ (call'[c].pc \in QuietPcs /\ SameTargets(call[c], call'[c]))
  <2>1. ASSUME NEW r \in Call, call' = [call EXCEPT ![c] = r], r.pc \in QuietPcs, SameTargets(call[c], r)
        PROVE  call'[c].pc \in QuietPcs /\ SameTargets(call[c], call'[c])
    BY <2>1 DEF WInv, PInv, TypeOK
  <2>2. CASE Return(c)
    BY <2>2 DEF Return, WInv, PInv, TypeOK
  <2>3. CASE CheckRollback(c)
    <3> DEFINE r == [call[c] EXCEPT !.pc = "restore"]
    <3>1. r \in Call /\ r.pc \in QuietPcs /\ SameTargets(call[c], r)
      BY <1>1 DEF Call, Stops, QuietPcs, SameTargets
    <3>2. Return(c) \/ call' = [call EXCEPT ![c] = r]
      BY <2>3 DEF CheckRollback
    <3> HIDE DEF r
    <3> QED
      BY <2>1, <2>2, <3>1, <3>2
  <2>4. CASE PlanItem(c)
    <3>1. PICK p \in call[c].todo, v \in call[c].meta :
            \/ call' = [call EXCEPT ![c] = Handled(c, p)]
            \/ call' = [call EXCEPT ![c] = [Handled(c, p) EXCEPT !.plans = @ \cup {<<p, PlanFor(file[p], v)>>}]]
            \/ call' = [call EXCEPT ![c] = [Handled(c, p) EXCEPT !.pc = "patching", !.at = p, !.read = {file[p]}]]
      BY <2>4 DEF PlanItem
    <3> DEFINE r1 == Handled(c, p)
               r2 == [Handled(c, p) EXCEPT !.plans = @ \cup {<<p, PlanFor(file[p], v)>>}]
               r3 == [Handled(c, p) EXCEPT !.pc = "patching", !.at = p, !.read = {file[p]}]
    <3>2. ASSUME NEW r \in {r1, r2, r3} PROVE r.pc \in {call[c].pc, "patching"} /\ SameTargets(call[c], r)
      BY <1>1 DEF Handled, Call, SameTargets
    <3>3. call[c].pc \in {"preview", "patch"}
      BY <2>4 DEF PlanItem, At
    <3>4. PICK r \in {r1, r2, r3} : call' = [call EXCEPT ![c] = r]
      BY <3>1
    <3> HIDE DEF r1, r2, r3
    <3>5. call'[c] = r
      BY <3>4 DEF WInv, PInv, TypeOK
    <3> QED
      BY <3>2, <3>3, <3>5 DEF QuietPcs
  <2> QED
    BY <2>2, <2>3, <2>4 DEF EndPatch
<1>4. call' = [call EXCEPT ![c] = call'[c]]
  <2>1. \A d \in Calls \ {c} : call'[d] = call[d]
    BY DEF PlanItem, EndPatch, CheckRollback, Return, WInv, PInv, TypeOK
  <2> QED
    BY <1>2, <2>1 DEF WInv, PInv, TypeOK
<1>5. Inert(c)
  BY <1>1, QuietIsInert DEF QuietPcs
<1> QED
  BY <1>1, <1>2, <1>3, <1>4, <1>5, QuietKeepsW, SameShrinks

\* Writing back a page with its references and its sources.
LEMMA OneShrinks ==
  ASSUME PInv, NEW f \in Files, NEW content \in Content, file' = [file EXCEPT ![f] = content],
         file[f] # Absent, content.refs \subseteq file[f].refs, content.sources \subseteq file[f].sources
  PROVE  Shrinks(file, file') /\ \A p \in Pages : file[p] # Absent => file'[p] # Absent
  BY ContentAssumption DEF PInv, TypeOK, Shrinks

LEMMA PatchW == ASSUME OnTime, WInv, PInv', NEW c \in Calls, Patch(c) PROVE WInv'
<1>1. /\ call[c] \in Call /\ At(c, "patching") /\ call[c].pc = "patching" /\ call[c].at \in Files
      /\ call[c].meta \subseteq Metas /\ call[c].read \subseteq Content /\ ReadsStand(call[c], file)
  BY CallIsTyped DEF Patch, At, WInv, PInv, OnTime
<1>2. PICK v \in call[c].meta, x \in call[c].read :
        file' = [file EXCEPT ![call[c].at] = SetMeta(x, v)] \/ UNCHANGED file
  BY DEF Patch
<1>3. x = file[call[c].at] /\ x # Absent /\ v \in Metas /\ x \in Content
  BY <1>1, ContentAssumption DEF ReadsStand
<1>4. Shrinks(file, file') /\ \A p \in Pages : file[p] # Absent => file'[p] # Absent
  <2>1. CASE UNCHANGED file
    BY <2>1, SameShrinks
  <2>2. CASE file' = [file EXCEPT ![call[c].at] = SetMeta(x, v)]
    BY <1>1, <1>3, <2>2, PlanIsGood, OneShrinks DEF WInv
  <2> QED
    BY <1>2, <2>1, <2>2
<1>5. call'[c] \in Call /\ call' \in [Calls -> Call]
  BY DEF PInv, TypeOK
<1>6. call'[c].pc \in QuietPcs /\ SameTargets(call[c], call'[c]) /\ call' = [call EXCEPT ![c] = call'[c]]
  <2>1. PICK plans : call' = [call EXCEPT ![c].pc = "patch", ![c].read = {}, ![c].plans = plans]
                     \/ call' = [call EXCEPT ![c].pc = "patch", ![c].read = {}]
    BY DEF Patch
  <2> DEFINE r1 == [call[c] EXCEPT !.pc = "patch", !.read = {}, !.plans = plans]
             r2 == [call[c] EXCEPT !.pc = "patch", !.read = {}]
  <2>2. ASSUME NEW r \in {r1, r2} PROVE r.pc = "patch" /\ SameTargets(call[c], r)
    BY <1>1 DEF Call, SameTargets
  <2>3. call' = [call EXCEPT ![c] = r1] \/ call' = [call EXCEPT ![c] = r2]
    BY <2>1
  <2>4. PICK r \in {r1, r2} : call' = [call EXCEPT ![c] = r]
    BY <2>3
  <2> HIDE DEF r1, r2
  <2>5. call'[c] = r
    BY <2>4 DEF WInv, PInv, TypeOK
  <2> QED
    BY <2>2, <2>4, <2>5 DEF QuietPcs
<1>7. Inert(c) /\ UNCHANGED <<rawSources, missed>>
  BY <1>1, QuietIsInert DEF QuietPcs, Patch
<1> QED
  BY <1>1, <1>4, <1>5, <1>6, <1>7, QuietKeepsW

LEMMA RestoreW == ASSUME OnTime, WInv, PInv', NEW c \in Calls, Restore(c) PROVE WInv'
<1>1. /\ call[c] \in Call /\ At(c, "restore") /\ call[c].pc = "restore" /\ call[c].at \in Files
      /\ call[c].plans \subseteq Pages \X Plan /\ ReadsStand(call[c], file) /\ WellFormed(call[c])
  BY CallIsTyped DEF Restore, At, WInv, PInv, OnTime
<1>2. Shrinks(file, file') /\ \A p \in Pages : file[p] # Absent => file'[p] # Absent
  <2>1. CASE UNCHANGED file
    BY <2>1, SameShrinks
  <2>2. ASSUME NEW item \in call[c].plans, file' = [file EXCEPT ![call[c].at] = item[2].before]
        PROVE  Shrinks(file, file') /\ \A p \in Pages : file[p] # Absent => file'[p] # Absent
    <3>1. item[2] \in Plan /\ Patches(item[2]) /\ file[call[c].at] = item[2].after
      BY <1>1 DEF ReadsStand, WellFormed
    <3>2. item[2].before \in Content /\ item[2].after \in Content /\ item[2].after # Absent
      BY <3>1, ContentAssumption DEF Plan
    <3>3. item[2].after.meta \in Metas
      BY <3>2 DEF Content
    <3>4. item[2].before.refs = item[2].after.refs /\ item[2].before.sources = item[2].after.sources
      BY <3>1, <3>2, <3>3, PlanIsGood DEF Patches
    <3> QED
      BY <1>1, <2>2, <3>1, <3>2, <3>4, OneShrinks DEF WInv
  <2> QED
    BY <2>1, <2>2 DEF Restore
<1>3. call' = [call EXCEPT ![c] = Idle] /\ UNCHANGED <<rawSources, missed>>
  BY DEF Restore, Return
<1>4. Inert(c)
  BY <1>1, QuietIsInert DEF QuietPcs
<1> QED
  BY <1>1, <1>2, <1>3, <1>4, IdleIsTyped, QuietKeepsW

-----------------------------------------------------------------------------
(***************************************************************************)
(* The cascade.                                                            *)
(***************************************************************************)
\* What is known of a call that is about to act.
LEMMA ActingFits ==
  ASSUME WInv, NEW c \in Calls, NEW pc, At(c, pc), pc # "idle"
  PROVE  /\ call[c] \in Call /\ call[c].pc = pc /\ CallFits(call[c], file, rawSources)
         /\ call[c].todo \subseteq Files /\ call[c].targets \subseteq Pages /\ call[c].gone \subseteq Pages
         /\ WellFormed(call[c]) /\ \A d \in Calls \ {c} : call[d].pc # "stream"
         /\ OnTime => ReadsStand(call[c], file)
  BY CallIsTyped, ActsApart DEF WInv, PInv, At, OnTime

\* A step that writes no file hands over what it is looking at.
LEMMA IdleFileKeepsW ==
  ASSUME WInv, PInv', NEW c \in Calls, NEW r \in Call, NEW pc, At(c, pc), pc # "idle", r.pc # "stream",
         call' = [call EXCEPT ![c] = r], UNCHANGED <<file, rawSources>>,
         CallFits(r, file, rawSources), MissesStay(r), NamesHanded(c, r),
         \A p \in Pages, f \in Files : Dangles(file, p, f) /\ Watches(call[c], p, f) =>
           Watches(r, p, f) \/ <<p, f>> \in missed',
         \A p \in Pages : file[p] # Absent => \A s \in file[p].sources :
           Follows(call[c], p, s) => Follows(r, p, s) \/ <<s, p>> \in missed'
  PROVE  WInv'
<1>1. RefsHanded(c, r)
  BY DEF RefsHanded, Dangles
<1>2. SourcesHanded(c, r)
  BY DEF SourcesHanded
<1> QED
  BY <1>1, <1>2, ActsApart, SameShrinks, StepKeepsW DEF HandsOver

LEMMA ReadNamesW == ASSUME WInv, PInv', NEW c \in Calls, ReadNames(c) PROVE WInv'
<1>1. /\ At(c, "names") /\ call[c] \in Call /\ call[c].pc = "names" /\ CallFits(call[c], file, rawSources)
      /\ call[c].targets \subseteq Pages
  BY ActingFits DEF ReadNames
<1>2. PICK unread \in SUBSET call[c].targets :
        /\ {p \in call[c].targets : ~Exists(p)} \subseteq unread
        /\ call' = [call EXCEPT ![c].pc = "delete", ![c].todo = call[c].targets,
             ![c].keys = {Slug[p] : p \in call[c].targets} \cup {Title[p] : p \in call[c].targets \ unread}]
        /\ missed' = (missed \ (call[c].targets \X Files)) \cup (unread \X Files)
  BY DEF ReadNames
<1> DEFINE keys == {Slug[p] : p \in call[c].targets} \cup {Title[p] : p \in call[c].targets \ unread}
           r == [call[c] EXCEPT !.pc = "delete", !.todo = call[c].targets, !.keys = keys]
<1>3. keys \subseteq Keys /\ \A k \in keys : \E p \in call[c].targets : k \in Names(p)
  BY <1>1, NameAssumption DEF Names
<1>4. \A p \in call[c].targets \ unread : Names(p) \subseteq keys
  BY DEF Names
<1> HIDE DEF keys
<1>5. /\ r \in Call /\ r.pc = "delete" /\ r.todo = call[c].targets /\ r.keys = keys /\ r.targets = call[c].targets
      /\ r.source = call[c].source /\ r.gone = call[c].gone
  BY <1>1, <1>3 DEF Call, Stops, Files
<1>6. call' = [call EXCEPT ![c] = r] /\ UNCHANGED <<file, rawSources>>
  BY <1>2 DEF ReadNames, keys
<1> HIDE DEF r
<1>7. CallFits(r, file, rawSources)
  BY <1>1, <1>3, <1>5 DEF CallFits, TargetsGo, NamesAreTheirs, SourceGoes, StreamStands
<1>8. \A p \in call[c].targets : (\A f \in Files : <<p, f>> \in missed') \/ (file[p] # Absent /\ Knows(r, p))
  BY <1>1, <1>2, <1>4, <1>5 DEF Knows, Exists
<1>9. MissesStay(r)
  <2>1. ASSUME NEW p \in Pages, NEW f \in Files, <<p, f>> \in missed
        PROVE  <<p, f>> \in missed' \/ (file'[p] # Absent /\ Knows(r, p))
    BY <1>2, <1>6, <1>8, <2>1
  <2>2. ASSUME NEW s \in Sources, NEW p \in Pages, <<s, p>> \in missed PROVE <<s, p>> \in missed'
    BY <1>1, <1>2, <2>2, NameAssumption
  <2> QED
    BY <2>1, <2>2 DEF MissesStay
<1>10. NamesHanded(c, r)
  BY <1>1, <1>5, <1>8 DEF NamesHanded, Knows
<1>11. \A p \in Pages, f \in Files : Dangles(file, p, f) /\ Watches(call[c], p, f) =>
         Watches(r, p, f) \/ <<p, f>> \in missed'
  BY <1>8 DEF Dangles, Watches
<1>12. \A p \in Pages : file[p] # Absent => \A s \in file[p].sources :
         Follows(call[c], p, s) => Follows(r, p, s) \/ <<s, p>> \in missed'
  BY <1>1, <1>5 DEF Follows
<1> QED
  BY <1>1, <1>5, <1>6, <1>7, <1>9, <1>10, <1>11, <1>12, IdleFileKeepsW

LEMMA ListW == ASSUME WInv, PInv', NEW c \in Calls, List(c) PROVE WInv'
<1>1. /\ At(c, "delete") /\ call[c] \in Call /\ call[c].pc = "delete" /\ CallFits(call[c], file, rawSources)
      /\ call[c].targets \subseteq Pages /\ call[c].gone \subseteq Pages /\ call[c].todo = {}
      /\ UNCHANGED <<file, rawSources>>
  BY ActingFits DEF List
<1>2. /\ \A p \in call[c].targets : file[p] = Absent
      /\ \A p \in call[c].gone : file[p] = Absent
  BY <1>1 DEF CallFits, TargetsGo
<1>3. CASE call' = [call EXCEPT ![c].pc = "sweep", ![c].todo = {f \in Files : Exists(f)} \ call[c].gone]
           /\ UNCHANGED missed
  <2> DEFINE r == [call[c] EXCEPT !.pc = "sweep", !.todo = {f \in Files : Exists(f)} \ call[c].gone]
  <2>1. /\ r \in Call /\ r.pc = "sweep" /\ r.todo = {f \in Files : Exists(f)} \ call[c].gone /\ r.keys = call[c].keys
        /\ r.targets = call[c].targets /\ r.source = call[c].source /\ r.gone = call[c].gone
    BY <1>1 DEF Call, Stops
  <2>2. call' = [call EXCEPT ![c] = r]
    BY <1>3
  <2> HIDE DEF r
  <2>3. CallFits(r, file, rawSources)
    BY <1>1, <1>2, <2>1 DEF CallFits, TargetsGo, NamesAreTheirs, SourceGoes, StreamStands
  <2>4. MissesStay(r)
    BY <1>3 DEF MissesStay
  <2>5. NamesHanded(c, r)
    BY <1>1, <1>2, <2>1 DEF NamesHanded, Knows
  <2>6. \A p \in Pages, f \in Files : Dangles(file, p, f) /\ Watches(call[c], p, f) =>
          Watches(r, p, f) \/ <<p, f>> \in missed'
    BY <1>1, <1>2, <2>1 DEF Dangles, Watches, Exists
  <2>7. \A p \in Pages, s \in Sources : ~Follows(call[c], p, s)
    BY <1>1 DEF Follows
  <2>8. \A p \in Pages : file[p] # Absent => file[p].sources \subseteq Sources
    BY DEF WInv, PInv, TypeOK, Files, Content
  <2> QED
    BY <1>1, <2>1, <2>2, <2>3, <2>4, <2>5, <2>6, <2>7, <2>8, IdleFileKeepsW
<1>4. CASE Return(c) /\ Miss(Deleted(c), Files)
  <2>1. call' = [call EXCEPT ![c] = Idle] /\ Idle \in Call /\ Idle.pc = "idle"
    BY <1>4, IdleIsTyped DEF Return, Idle
  <2>2. missed \subseteq missed' /\ \A p \in call[c].targets, f \in Files : <<p, f>> \in missed'
    BY <1>4 DEF Miss, Deleted
  <2>3. MissesStay(Idle)
    BY <2>2 DEF MissesStay
  <2>4. NamesHanded(c, Idle)
    BY <1>1, <1>2, <2>1 DEF NamesHanded, Knows
  <2>5. \A p \in Pages, f \in Files : Dangles(file, p, f) /\ Watches(call[c], p, f) => <<p, f>> \in missed'
    BY <2>2 DEF Watches
  <2>6. \A p \in Pages, s \in Sources : ~Follows(call[c], p, s)
    BY <1>1 DEF Follows
  <2>7. \A p \in Pages : file[p] # Absent => file[p].sources \subseteq Sources
    BY DEF WInv, PInv, TypeOK, Files, Content
  <2> QED
    BY <1>1, <2>1, <2>3, <2>4, <2>5, <2>6, <2>7, IdleFits, IdleFileKeepsW
<1> QED
  BY <1>3, <1>4 DEF List

\* A step of the sweep asks nothing about sources, nor about pages to delete.
LEMMA SweepingKeepsW ==
  ASSUME WInv, PInv', NEW c \in Calls, NEW r \in Call, NEW pc, At(c, pc), pc \in {"sweep", "rewrite"},
         r.pc \in {"sweep", "rewrite"}, call' = [call EXCEPT ![c] = r], UNCHANGED rawSources,
         r.targets = call[c].targets, r.keys = call[c].keys, r.gone = call[c].gone, r.source = call[c].source,
         Shrinks(file, file'), \A p \in Pages : file[p] # Absent => file'[p] # Absent,
         missed \subseteq missed',
         \A p \in Pages, f \in Files : Dangles(file', p, f) /\ Watches(call[c], p, f) =>
           Watches(r, p, f) \/ <<p, f>> \in missed'
  PROVE  WInv'
<1>1. /\ call[c] \in Call /\ call[c].pc = pc /\ CallFits(call[c], file, rawSources)
      /\ call[c].targets \subseteq Files /\ call[c].gone \subseteq Files
      /\ \A d \in Calls \ {c} : call[d].pc # "stream"
  BY ActingFits DEF Files
<1>2. CallFits(r, file', rawSources')
  <2>1. TargetsGo(r, file')
    BY <1>1 DEF CallFits, TargetsGo, Shrinks
  <2>2. SourceGoes(r, file')
    BY <1>1 DEF CallFits, SourceGoes, Shrinks
  <2> QED
    BY <1>1, <2>1, <2>2 DEF CallFits, NamesAreTheirs, StreamStands
<1>3. MissesStay(r)
  BY DEF MissesStay
<1>4. NamesHanded(c, r)
  BY <1>1 DEF NamesHanded, Knows
<1>5. RefsHanded(c, r)
  BY DEF RefsHanded, Dangles
<1>6. SourcesHanded(c, r)
  BY <1>1 DEF SourcesHanded, Follows
<1> QED
  BY <1>1, <1>2, <1>3, <1>4, <1>5, <1>6, StepKeepsW DEF HandsOver

LEMMA SweepW == ASSUME WInv, PInv', NEW c \in Calls, Sweep(c) PROVE WInv'
<1>1. /\ At(c, "sweep") /\ call[c] \in Call /\ call[c].pc = "sweep" /\ call[c].todo \subseteq Files
      /\ UNCHANGED <<file, rawSources>>
  BY ActingFits DEF Sweep
<1>2. PICK f \in call[c].todo :
       \/ /\ call' = [call EXCEPT ![c] = Handled(c, f)]
          /\ Miss(call[c].targets, {f})
       \/ /\ Exists(f)
          /\ call' = [call EXCEPT ![c] =
               IF file[f].refs \cap call[c].keys = {} THEN Handled(c, f)
               ELSE [Handled(c, f) EXCEPT !.pc = "rewrite", !.at = f, !.read = {file[f]}]]
          /\ UNCHANGED missed
  BY DEF Sweep
<1>3. missed \subseteq missed'
  BY <1>2 DEF Miss
<1>4. Shrinks(file, file') /\ \A p \in Pages : file[p] # Absent => file'[p] # Absent
  BY <1>1, SameShrinks
<1> DEFINE r1 == Handled(c, f)
           r2 == [Handled(c, f) EXCEPT !.pc = "rewrite", !.at = f, !.read = {file[f]}]
<1>5. /\ r1 \in Call /\ r1.pc = "sweep" /\ r1.todo = call[c].todo \ {f} /\ r1.targets = call[c].targets
      /\ r1.keys = call[c].keys /\ r1.gone = call[c].gone /\ r1.source = call[c].source
  BY <1>1 DEF Handled, Call
<1>6. CASE call' = [call EXCEPT ![c] = r1] /\ (\A p \in call[c].targets : <<p, f>> \in missed')
  <2> HIDE DEF r1
  <2>1. \A p \in Pages, g \in Files : Dangles(file', p, g) /\ Watches(call[c], p, g) =>
          Watches(r1, p, g) \/ <<p, g>> \in missed'
    BY <1>1, <1>5, <1>6 DEF Watches
  <2> QED
    BY <1>1, <1>3, <1>4, <1>5, <1>6, <2>1, SweepingKeepsW
<1>7. CASE call' = [call EXCEPT ![c] = r1] /\ file[f].refs \cap call[c].keys = {}
  <2> HIDE DEF r1
  <2>1. \A p \in Pages, g \in Files : Dangles(file', p, g) /\ Watches(call[c], p, g) => Watches(r1, p, g)
    BY <1>1, <1>5, <1>7 DEF Watches, Dangles
  <2> QED
    BY <1>1, <1>3, <1>4, <1>5, <1>7, <2>1, SweepingKeepsW
<1>8. CASE Exists(f) /\ call' = [call EXCEPT ![c] = r2]
  <2>1. file[f] \in Content /\ f \in Files
    BY <1>1, <1>8 DEF Exists, WInv, PInv, TypeOK
  <2>2. /\ r2 \in Call /\ r2.pc = "rewrite" /\ r2.todo = call[c].todo \ {f} /\ r2.targets = call[c].targets
        /\ r2.at = f /\ r2.keys = call[c].keys /\ r2.gone = call[c].gone /\ r2.source = call[c].source
    BY <1>1, <2>1 DEF Handled, Call, Stops
  <2> HIDE DEF r2
  <2>3. \A p \in Pages, g \in Files : Dangles(file', p, g) /\ Watches(call[c], p, g) => Watches(r2, p, g)
    BY <1>1, <2>2 DEF Watches
  <2> QED
    BY <1>1, <1>3, <1>4, <1>8, <2>2, <2>3, SweepingKeepsW
<1> QED
  BY <1>2, <1>6, <1>7, <1>8 DEF Miss

LEMMA RewriteW == ASSUME OnTime, WInv, PInv', NEW c \in Calls, Rewrite(c) PROVE WInv'
<1>1. /\ At(c, "rewrite") /\ call[c] \in Call /\ call[c].pc = "rewrite" /\ call[c].at \in Files
      /\ call[c].read \subseteq {file[call[c].at]} /\ UNCHANGED rawSources
      /\ WriteBack(c, call[c].targets, LAMBDA x : StripRefs(x, call[c].keys))
      /\ call[c].read \subseteq Content
  BY ActingFits, CallIsTyped DEF Rewrite, ReadsStand, WInv, PInv
<1> DEFINE r == [call[c] EXCEPT !.pc = "sweep", !.read = {}]
<1>2. /\ r \in Call /\ r.pc = "sweep" /\ r.todo = call[c].todo /\ r.targets = call[c].targets
      /\ r.keys = call[c].keys /\ r.gone = call[c].gone /\ r.source = call[c].source
  BY <1>1 DEF Call, Stops
<1>3. call' = [call EXCEPT ![c] = r]
  BY DEF Rewrite
<1> HIDE DEF r
<1>4. CASE UNCHANGED file /\ Miss(call[c].targets, {call[c].at})
  <2>1. \A p \in Pages, f \in Files : Dangles(file', p, f) /\ Watches(call[c], p, f) =>
          Watches(r, p, f) \/ <<p, f>> \in missed'
    BY <1>1, <1>2, <1>4 DEF Watches, Miss
  <2>2. missed \subseteq missed' /\ Shrinks(file, file') /\ \A p \in Pages : file[p] # Absent => file'[p] # Absent
    BY <1>4, SameShrinks DEF Miss
  <2> QED
    BY <1>1, <1>2, <1>3, <2>1, <2>2, SweepingKeepsW
<1>5. ASSUME NEW x \in call[c].read, file' = [file EXCEPT ![call[c].at] = StripRefs(x, call[c].keys)], UNCHANGED missed
      PROVE  WInv'
  <2>1. x = file[call[c].at] /\ x \in Content /\ x # Absent
    BY <1>1, ContentAssumption
  <2>2. /\ StripRefs(x, call[c].keys) \in Content
        /\ StripRefs(x, call[c].keys).refs = x.refs \ call[c].keys
        /\ StripRefs(x, call[c].keys).sources = x.sources
    BY <2>1 DEF StripRefs, Content
  <2>3. Shrinks(file, file') /\ \A p \in Pages : file[p] # Absent => file'[p] # Absent
    BY <1>1, <1>5, <2>1, <2>2, OneShrinks DEF WInv
  <2>4. file'[call[c].at].refs \cap call[c].keys = {}
    BY <1>1, <1>5, <2>2 DEF WInv, PInv, TypeOK
  <2>5. \A p \in Pages, f \in Files : Dangles(file', p, f) /\ Watches(call[c], p, f) => Watches(r, p, f)
    BY <1>1, <1>2, <2>4 DEF Watches, Dangles
  <2> QED
    BY <1>1, <1>2, <1>3, <1>5, <2>3, <2>5, SweepingKeepsW
<1> QED
  BY <1>1, <1>4, <1>5 DEF WriteBack

LEMMA DeleteOneW == ASSUME OnTime, WInv, PInv', NEW c \in Calls, DeleteOne(c) PROVE WInv'
<1>1. /\ At(c, "delete") /\ call[c] \in Call /\ call[c].pc = "delete" /\ CallFits(call[c], file, rawSources)
      /\ call[c].targets \subseteq Pages /\ call[c].gone \subseteq Pages /\ call[c].todo \subseteq Files
      /\ \A d \in Calls \ {c} : call[d].pc # "stream"
      /\ UNCHANGED <<rawSources, missed>>
  BY ActingFits DEF DeleteOne
<1>2. PICK p \in call[c].todo \cap Pages :
       \/ /\ Exists(p)
          /\ file' = [file EXCEPT ![p] = Absent]
          /\ call' = [call EXCEPT ![c] = [Handled(c, p) EXCEPT !.gone = @ \cup {p}]]
       \/ /\ ~Exists(p)
          /\ call' = [call EXCEPT ![c] = Handled(c, p)]
          /\ UNCHANGED file
  BY DEF DeleteOne, OnTime
<1> DEFINE r1 == [Handled(c, p) EXCEPT !.gone = @ \cup {p}]
           r2 == Handled(c, p)
<1>3. \A r \in {r1, r2} :
        /\ r \in Call /\ r.pc = "delete" /\ r.todo = call[c].todo \ {p} /\ r.targets = call[c].targets
        /\ r.keys = call[c].keys /\ r.source = call[c].source /\ r.gone \subseteq call[c].gone \cup {p}
  <2>1. /\ r2 \in Call /\ r2.pc = "delete" /\ r2.todo = call[c].todo \ {p} /\ r2.targets = call[c].targets
        /\ r2.keys = call[c].keys /\ r2.source = call[c].source /\ r2.gone = call[c].gone
    BY <1>1, <1>2 DEF Handled, Call
  <2>2. r1 = [r2 EXCEPT !.gone = @ \cup {p}] /\ call[c].gone \cup {p} \subseteq Pages
    BY <1>1, <1>2
  <2> HIDE DEF r2, r1
  <2>3. /\ r1 \in Call /\ r1.pc = "delete" /\ r1.todo = call[c].todo \ {p} /\ r1.targets = call[c].targets
        /\ r1.keys = call[c].keys /\ r1.source = call[c].source /\ r1.gone = call[c].gone \cup {p}
    BY <2>1, <2>2 DEF Call
  <2> QED
    BY <2>1, <2>3
<1>4. /\ file' = [file EXCEPT ![p] = Absent] \/ (file' = file /\ file[p] = Absent)
      /\ call' = [call EXCEPT ![c] = r1] \/ call' = [call EXCEPT ![c] = r2]
  BY <1>2 DEF Exists
<1> HIDE DEF r1, r2
<1>5. PICK r \in {r1, r2} : call' = [call EXCEPT ![c] = r]
  BY <1>4
<1>6. file \in [Files -> Content \cup {Absent}] /\ p \in Files /\ Pages \subseteq Files
  BY <1>2 DEF WInv, PInv, TypeOK, Files
<1>7. file'[p] = Absent /\ \A f \in Files \ {p} : file'[f] = file[f]
  BY <1>4, <1>6
<1>8. Shrinks(file, file')
  BY <1>7 DEF Shrinks
<1>9. CallFits(r, file', rawSources')
  <2>1. TargetsGo(r, file')
    BY <1>1, <1>3, <1>5, <1>6, <1>7 DEF CallFits, TargetsGo
  <2>2. SourceGoes(r, file')
    BY <1>1, <1>3, <1>5, <1>6, <1>7 DEF CallFits, SourceGoes
  <2>3. NamesAreTheirs(r) /\ StreamStands(r, file', rawSources')
    BY <1>1, <1>3, <1>5 DEF CallFits, NamesAreTheirs, StreamStands
  <2> QED
    BY <2>1, <2>2, <2>3 DEF CallFits
<1>10. call'[c] = r /\ \A d \in Calls \ {c} : call'[d] = call[d]
  BY <1>5 DEF WInv, PInv, TypeOK
<1>11. \A q \in Pages : Knows(call[c], q) => Knows(r, q)
  BY <1>1, <1>3, <1>5 DEF Knows
<1>12. RefsHanded(c, r)
  <2> SUFFICES ASSUME NEW q \in Pages, NEW f \in Files, Dangles(file', q, f)
               PROVE  /\ file[q] = Absent /\ Watches(call[c], q, f) => Watches(r, q, f) \/ <<q, f>> \in missed'
                      /\ file[q] # Absent => <<q, f>> \in missed' \/ \E d \in Calls : Watches(call'[d], q, f)
    BY DEF RefsHanded
  <2>1. Watches(call[c], q, f) => Watches(r, q, f)
    BY <1>1, <1>3, <1>5 DEF Watches
  <2>2. ASSUME file[q] # Absent PROVE <<q, f>> \in missed' \/ \E d \in Calls : Watches(call'[d], q, f)
    <3>1. q = p
      BY <1>6, <1>7, <2>2 DEF Dangles
    <3>2. (\A g \in Files : <<q, g>> \in missed) \/ \E d \in Calls : Knows(call[d], q)
      BY <1>1, <1>2, <2>2, <3>1 DEF WInv, Covered, NamesCovered
    <3>3. ASSUME NEW d \in Calls, Knows(call[d], q) PROVE Watches(call'[d], q, f)
      <4>1. Knows(call'[d], q)
        BY <1>10, <1>11, <3>3
      <4> QED
        BY <4>1 DEF Knows, Watches
    <3> QED
      BY <1>1, <3>2, <3>3
  <2> QED
    BY <2>1, <2>2
<1>13. MissesStay(r)
  BY <1>1 DEF MissesStay
<1>14. NamesHanded(c, r)
  BY <1>1, <1>3, <1>5, <1>11 DEF NamesHanded
<1>15. SourcesHanded(c, r)
  BY <1>1, <1>3, <1>5, <1>7 DEF SourcesHanded, Follows
<1> QED
  BY <1>1, <1>3, <1>5, <1>8, <1>9, <1>12, <1>13, <1>14, <1>15, StepKeepsW DEF HandsOver

-----------------------------------------------------------------------------
(***************************************************************************)
(* The deletion of a source.                                               *)
(***************************************************************************)
LEMMA UnlinkW == ASSUME WInv, PInv', NEW c \in Calls, Unlink(c) PROVE WInv'
<1>1. /\ At(c, "unlink") /\ call[c] \in Call /\ call[c].pc = "unlink" /\ CallFits(call[c], file, rawSources)
      /\ \A d \in Calls \ {c} : call[d].pc # "stream"
      /\ UNCHANGED <<file, missed>>
  BY ActingFits DEF Unlink
<1>2. CASE rawSources' = rawSources \ call[c].source /\ call' = [call EXCEPT ![c].pc = "fates"]
  <2> DEFINE r == [call[c] EXCEPT !.pc = "fates"]
  <2>1. /\ r \in Call /\ r.pc = "fates" /\ r.todo = call[c].todo /\ r.targets = call[c].targets
        /\ r.keys = call[c].keys /\ r.source = call[c].source /\ r.gone = call[c].gone
    BY <1>1 DEF Call, Stops
  <2>2. call' = [call EXCEPT ![c] = r]
    BY <1>2
  <2> HIDE DEF r
  <2>3. CallFits(r, file', rawSources')
    BY <1>1, <2>1 DEF CallFits, TargetsGo, NamesAreTheirs, SourceGoes, StreamStands
  <2>4. MissesStay(r) /\ RefsHanded(c, r) /\ NamesHanded(c, r)
    BY <1>1, <2>1 DEF MissesStay, RefsHanded, NamesHanded, Dangles, Watches, Knows
  <2>5. SourcesHanded(c, r)
    BY <1>1, <1>2, <2>1 DEF SourcesHanded, Follows, CallFits, SourceGoes
  <2> QED
    BY <1>1, <2>1, <2>2, <2>3, <2>4, <2>5, StepKeepsW, SameShrinks DEF HandsOver
<1>3. CASE Return(c) /\ UNCHANGED rawSources
  <2>1. call' = [call EXCEPT ![c] = Idle] /\ Idle \in Call /\ Idle.pc = "idle"
    BY <1>3, IdleIsTyped DEF Return, Idle
  <2>2. Inert(c)
    BY <1>1 DEF Inert, Watches, Follows
  <2> QED
    BY <1>1, <1>3, <2>1, <2>2, IdleFits, InertKeepsW, SameShrinks
<1> QED
  BY <1>2, <1>3 DEF Unlink

LEMMA EndFatesW == ASSUME WInv, PInv', NEW c \in Calls, EndFates(c) PROVE WInv'
<1>1. /\ At(c, "fates") /\ call[c] \in Call /\ call[c].pc = "fates" /\ CallFits(call[c], file, rawSources)
      /\ call[c].todo = {} /\ UNCHANGED <<file, rawSources, missed>>
  BY ActingFits DEF EndFates
<1> DEFINE r == [call[c] EXCEPT !.pc = IF call[c].targets = {} THEN "log" ELSE "names"]
<1>2. /\ r \in Call /\ r.pc = (IF call[c].targets = {} THEN "log" ELSE "names") /\ r.todo = {}
      /\ r.targets = call[c].targets /\ r.keys = call[c].keys /\ r.source = call[c].source /\ r.gone = call[c].gone
  BY <1>1 DEF Call, Stops
<1>3. call' = [call EXCEPT ![c] = r]
  BY DEF EndFates
<1> HIDE DEF r
<1>4. CallFits(r, file, rawSources)
  BY <1>1, <1>2 DEF CallFits, TargetsGo, NamesAreTheirs, SourceGoes, StreamStands
<1>5. MissesStay(r)
  BY <1>1 DEF MissesStay
<1>6. NamesHanded(c, r)
  BY <1>1, <1>2 DEF NamesHanded, Knows
<1>7. \A p \in Pages, f \in Files : Watches(call[c], p, f) => Watches(r, p, f)
  BY <1>1, <1>2 DEF Watches
<1>8. \A p \in Pages : file[p] # Absent => \A s \in file[p].sources :
        Follows(call[c], p, s) => Follows(r, p, s) \/ <<s, p>> \in missed'
  BY <1>1, <1>2 DEF Follows
<1> QED
  BY <1>1, <1>2, <1>3, <1>4, <1>5, <1>6, <1>7, <1>8, IdleFileKeepsW

\* A step between the pages of a source keeps what is to be followed.
LEMMA FollowingKeepsW ==
  ASSUME WInv, PInv', NEW c \in Calls, NEW r \in Call, NEW pc, At(c, pc), pc \in {"fates", "keep"},
         r.pc \in {"fates", "keep"}, call' = [call EXCEPT ![c] = r], UNCHANGED rawSources,
         call[c].targets \subseteq r.targets, r.gone = call[c].gone, r.source = call[c].source,
         \A p \in r.targets \ call[c].targets : file[p] # Absent /\ file[p].sources \subseteq r.source,
         Shrinks(file, file'), \A p \in Pages : file[p] # Absent => file'[p] # Absent,
         missed \subseteq missed',
         \A p \in Pages : file'[p] # Absent => \A s \in file'[p].sources :
           Follows(call[c], p, s) => Follows(r, p, s) \/ <<s, p>> \in missed'
  PROVE  WInv'
<1>1. /\ call[c] \in Call /\ call[c].pc = pc /\ CallFits(call[c], file, rawSources)
      /\ r.targets \subseteq Files /\ call[c].gone \subseteq Files
      /\ \A d \in Calls \ {c} : call[d].pc # "stream"
  BY ActingFits DEF Files, Call
<1>2. CallFits(r, file', rawSources')
  <2>1. TargetsGo(r, file')
    BY <1>1 DEF CallFits, TargetsGo, Shrinks
  <2>2. SourceGoes(r, file')
    <3>1. ASSUME r.source # {}, NEW p \in r.targets, file'[p] # Absent PROVE file'[p].sources \subseteq r.source
      <4>1. file[p] # Absent /\ file'[p].sources \subseteq file[p].sources
        BY <1>1, <3>1 DEF Shrinks
      <4>2. file[p].sources \subseteq r.source
        BY <1>1, <3>1, <4>1 DEF CallFits, SourceGoes
      <4> QED
        BY <4>1, <4>2
    <3> QED
      BY <3>1 DEF SourceGoes
  <2> QED
    BY <1>1, <2>1, <2>2 DEF NamesAreTheirs, StreamStands, CallFits
<1>3. MissesStay(r)
  BY DEF MissesStay
<1>4. NamesHanded(c, r)
  BY <1>1 DEF NamesHanded, Knows
<1>5. RefsHanded(c, r)
  BY <1>1 DEF RefsHanded, Dangles, Watches
<1>6. SourcesHanded(c, r)
  BY DEF SourcesHanded
<1> QED
  BY <1>1, <1>2, <1>3, <1>4, <1>5, <1>6, StepKeepsW DEF HandsOver

LEMMA DecideFateW == ASSUME WInv, PInv', NEW c \in Calls, DecideFate(c) PROVE WInv'
<1>1. /\ At(c, "fates") /\ call[c] \in Call /\ call[c].pc = "fates" /\ call[c].todo \subseteq Pages
      /\ call[c].targets \subseteq Pages /\ (\A x, y \in call[c].source : x = y)
      /\ UNCHANGED <<file, rawSources>>
  BY ActingFits DEF DecideFate, WellFormed, OnPages
<1>2. PICK p \in call[c].todo, s \in call[c].source :
       \/ /\ call' = [call EXCEPT ![c] = Handled(c, p)]
          /\ Miss({s}, {p})
       \/ /\ Exists(p) /\ UNCHANGED missed
          /\ call' = [call EXCEPT ![c] =
               CASE Fate(file[p].sources, s) = "skip" -> Handled(c, p)
                 [] Fate(file[p].sources, s) = "keep" ->
                      [Handled(c, p) EXCEPT !.pc = "keep", !.at = p, !.read = {file[p]}]
                 [] Fate(file[p].sources, s) = "delete" ->
                      [Handled(c, p) EXCEPT !.targets = @ \cup {p}]]
  BY DEF DecideFate
<1>3. missed \subseteq missed' /\ call[c].source = {s} /\ p \in Pages
  BY <1>1, <1>2 DEF Miss
<1>4. Shrinks(file, file') /\ \A q \in Pages : file[q] # Absent => file'[q] # Absent
  BY <1>1, SameShrinks
<1> DEFINE r1 == Handled(c, p)
           r2 == [Handled(c, p) EXCEPT !.pc = "keep", !.at = p, !.read = {file[p]}]
           r3 == [Handled(c, p) EXCEPT !.targets = @ \cup {p}]
<1>5. /\ r1 \in Call /\ r1.pc = "fates" /\ r1.todo = call[c].todo \ {p} /\ r1.targets = call[c].targets
      /\ r1.gone = call[c].gone /\ r1.source = {s}
  BY <1>1, <1>3 DEF Handled, Call
<1>6. CASE call' = [call EXCEPT ![c] = r1] /\ (<<s, p>> \in missed' \/ s \notin file[p].sources)
  <2> HIDE DEF r1
  <2>1. \A q \in Pages : file'[q] # Absent => \A t \in file'[q].sources :
           Follows(call[c], q, t) => Follows(r1, q, t) \/ <<t, q>> \in missed'
    BY <1>1, <1>3, <1>5, <1>6 DEF Follows
  <2> QED
    BY <1>1, <1>3, <1>4, <1>5, <1>6, <2>1, FollowingKeepsW
<1>7. CASE Exists(p) /\ call' = [call EXCEPT ![c] = r2]
  <2>1. file[p] \in Content /\ p \in Files
    BY <1>3, <1>7 DEF Exists, WInv, PInv, TypeOK, Files
  <2>2. /\ r2 = [r1 EXCEPT !.pc = "keep", !.at = p, !.read = {file[p]}]
    OBVIOUS
  <2> HIDE DEF r1, r2
  <2>3. /\ r2 \in Call /\ r2.pc = "keep" /\ r2.todo = call[c].todo \ {p} /\ r2.targets = call[c].targets
        /\ r2.at = p /\ r2.gone = call[c].gone /\ r2.source = {s}
    BY <1>5, <2>1, <2>2 DEF Call, Stops
  <2>4. \A q \in Pages : \A t \in file'[q].sources : Follows(call[c], q, t) => Follows(r2, q, t)
    BY <1>1, <1>3, <2>3 DEF Follows
  <2> QED
    BY <1>1, <1>3, <1>4, <1>7, <2>3, <2>4, FollowingKeepsW
<1>8. CASE Exists(p) /\ file[p].sources = {s} /\ call' = [call EXCEPT ![c] = r3]
  <2>1. r3 = [r1 EXCEPT !.targets = @ \cup {p}]
    OBVIOUS
  <2> HIDE DEF r1, r3
  <2>2. call[c].targets \cup {p} \subseteq Pages
    BY <1>1, <1>3
  <2>3. /\ r3 \in Call /\ r3.pc = "fates" /\ r3.todo = call[c].todo \ {p} /\ r3.targets = call[c].targets \cup {p}
        /\ r3.gone = call[c].gone /\ r3.source = {s}
    BY <1>5, <2>1, <2>2 DEF Call
  <2>4. \A q \in Pages : \A t \in file'[q].sources : Follows(call[c], q, t) => Follows(r3, q, t)
    BY <1>1, <1>3, <2>3 DEF Follows
  <2>5. \A q \in r3.targets \ call[c].targets : file[q] # Absent /\ file[q].sources \subseteq r3.source
    BY <1>8, <2>3 DEF Exists
  <2> QED
    BY <1>1, <1>3, <1>4, <1>8, <2>3, <2>4, <2>5, FollowingKeepsW
<1>9. ASSUME Exists(p), UNCHANGED missed,
             call' = [call EXCEPT ![c] =
               CASE Fate(file[p].sources, s) = "skip" -> r1
                 [] Fate(file[p].sources, s) = "keep" -> r2
                 [] Fate(file[p].sources, s) = "delete" -> r3]
      PROVE  WInv'
  <2> HIDE DEF r1, r2, r3
  <2>1. CASE s \notin file[p].sources
    BY <1>6, <1>9, <2>1 DEF Fate
  <2>2. CASE s \in file[p].sources /\ file[p].sources # {s}
    BY <1>7, <1>9, <2>2 DEF Fate
  <2>3. CASE file[p].sources = {s}
    BY <1>8, <1>9, <2>3 DEF Fate
  <2> QED
    BY <2>1, <2>2, <2>3
<1>10. ASSUME call' = [call EXCEPT ![c] = r1], Miss({s}, {p}) PROVE WInv'
  <2>1. <<s, p>> \in missed'
    BY <1>10 DEF Miss
  <2> QED
    BY <1>6, <1>10, <2>1
<1> QED
  BY <1>2, <1>9, <1>10

LEMMA KeepW == ASSUME OnTime, WInv, PInv', NEW c \in Calls, Keep(c) PROVE WInv'
<1>1. /\ At(c, "keep") /\ call[c] \in Call /\ call[c].pc = "keep" /\ call[c].at \in Files
      /\ call[c].read \subseteq {file[call[c].at]} /\ call[c].read \subseteq Content /\ UNCHANGED rawSources
      /\ WriteBack(c, call[c].source, LAMBDA x : [x EXCEPT !.sources = @ \ call[c].source])
  BY ActingFits, CallIsTyped DEF Keep, ReadsStand, WInv, PInv
<1> DEFINE r == [call[c] EXCEPT !.pc = "fates", !.read = {}]
<1>2. /\ r \in Call /\ r.pc = "fates" /\ r.todo = call[c].todo /\ r.targets = call[c].targets
      /\ r.gone = call[c].gone /\ r.source = call[c].source
  BY <1>1 DEF Call, Stops
<1>3. call' = [call EXCEPT ![c] = r]
  BY DEF Keep
<1> HIDE DEF r
<1>4. CASE UNCHANGED file /\ Miss(call[c].source, {call[c].at})
  <2>1. \A p \in Pages : file'[p] # Absent => \A s \in file'[p].sources :
           Follows(call[c], p, s) => Follows(r, p, s) \/ <<s, p>> \in missed'
    BY <1>1, <1>2, <1>4 DEF Follows, Miss
  <2>2. missed \subseteq missed' /\ Shrinks(file, file') /\ \A p \in Pages : file[p] # Absent => file'[p] # Absent
    BY <1>4, SameShrinks DEF Miss
  <2> QED
    BY <1>1, <1>2, <1>3, <2>1, <2>2, FollowingKeepsW
<1>5. ASSUME NEW x \in call[c].read, UNCHANGED missed,
             file' = [file EXCEPT ![call[c].at] = [x EXCEPT !.sources = @ \ call[c].source]]
      PROVE  WInv'
  <2> DEFINE y == [x EXCEPT !.sources = @ \ call[c].source]
  <2>1. x = file[call[c].at] /\ x \in Content /\ x # Absent
    BY <1>1, ContentAssumption
  <2>2. y \in Content /\ y.refs = x.refs /\ y.sources = x.sources \ call[c].source
    BY <2>1 DEF Content
  <2>3. file' = [file EXCEPT ![call[c].at] = y]
    BY <1>5
  <2> HIDE DEF y
  <2>4. Shrinks(file, file') /\ \A p \in Pages : file[p] # Absent => file'[p] # Absent
    BY <1>1, <2>1, <2>2, <2>3, OneShrinks DEF WInv
  <2>5. file'[call[c].at].sources \cap call[c].source = {}
    BY <1>1, <2>2, <2>3 DEF WInv, PInv, TypeOK
  <2>6. \A p \in Pages : file'[p] # Absent => \A s \in file'[p].sources :
           Follows(call[c], p, s) => Follows(r, p, s)
    BY <1>1, <1>2, <2>5 DEF Follows
  <2> QED
    BY <1>1, <1>2, <1>3, <1>5, <2>4, <2>6, FollowingKeepsW
<1> QED
  BY <1>1, <1>4, <1>5 DEF WriteBack

-----------------------------------------------------------------------------
(***************************************************************************)
(* Ingests, crashes and the start.                                         *)
(***************************************************************************)
\* With every call at rest, only what was missed covers anything.
LEMMA AllIdleKeepsW ==
  ASSUME PInv', \A c \in Calls : call'[c].pc = "idle" /\ call'[c].targets = {} /\ call'[c].gone = {},
         \A p \in Pages, f \in Files : Initial[p] # Absent /\ Dangles(file', p, f) => <<p, f>> \in missed',
         \A p \in Pages : file'[p] # Absent => \A s \in file'[p].sources \ rawSources' : <<s, p>> \in missed'
  PROVE  WInv'
<1>1. \A c \in Calls : CallFits(call'[c], file', rawSources')
  BY DEF CallFits, TargetsGo, NamesAreTheirs, SourceGoes, StreamStands
<1>2. StreamsAlone(call')
  BY DEF StreamsAlone
<1>3. Covered(file', rawSources', call', missed')
  BY DEF Covered, RefsCovered, NamesCovered, SourcesCovered
<1> QED
  BY <1>1, <1>2, <1>3 DEF WInv

LEMMA EndIngestW == ASSUME OnTime, NamesApart, WInv, PInv', NEW c \in Calls, EndIngest(c) PROVE WInv'
<1>1. /\ At(c, "stream") /\ call[c].pc = "stream" /\ CallFits(call[c], file, rawSources)
      /\ UNCHANGED <<rawSources, missed>> /\ \A d \in Calls \ {c} : call[d].pc = "idle"
  BY ActingFits DEF EndIngest, OnTime
<1>2. PICK r \in Content, q \in Pages : (Exists(q) \/ q = call[c].at) /\ Ingested(c, r, Slug[q])
  BY IngestWrites DEF WInv
<1>3. /\ file'[call[c].at] = r /\ r # Absent /\ call[c].at \in Pages
      /\ file'[Index] # Absent /\ file'[Index].refs = call[c].keys \cup {Slug[call[c].at]}
      /\ \A f \in Files \ {call[c].at, Index} : file'[f] = file[f]
  BY <1>2, IngestWrites, IngestedFiles DEF WInv
<1>4. /\ \/ r.refs = {Slug[q]} /\ r.sources = call[c].source
         \/ /\ file[call[c].at] # Absent /\ r.refs = file[call[c].at].refs \cup {Slug[q]}
            /\ r.sources = file[call[c].at].sources \cup call[c].source
      /\ call[c].keys = file[Index].refs /\ call[c].source \subseteq rawSources
  BY <1>1, <1>2 DEF CallFits, StreamStands, Ingested
<1>5. ASSUME NEW d \in Calls
      PROVE  call'[d].pc = "idle" /\ call'[d].targets = {} /\ call'[d].gone = {}
  <2>1. CASE d = c
    BY <2>1 DEF EndIngest, Return, WInv, PInv, TypeOK, Idle
  <2>2. CASE d # c
    <3>1. call'[d] = call[d] /\ call[d].pc = "idle" /\ TargetsGo(call[d], file)
      BY <1>1, <2>2 DEF EndIngest, Return, WInv, PInv, TypeOK, CallFits
    <3> QED
      BY <3>1 DEF TargetsGo
  <2> QED
    BY <2>1, <2>2
<1>6. ASSUME NEW p \in Pages, NEW f \in Files, Initial[p] # Absent, Dangles(file', p, f)
      PROVE  <<p, f>> \in missed'
  <2>1. file[p] = Absent /\ p # call[c].at
    BY <1>3, <1>6, NameAssumption DEF Dangles, Files
  <2>2. Slug[q] \notin Names(p) /\ Slug[call[c].at] \notin Names(p)
    BY <1>2, <1>3, <2>1 DEF NamesApart, Names, Exists
  <2>3. Dangles(file, p, f)
    <3>1. CASE f = call[c].at
      BY <1>3, <1>4, <1>6, <2>1, <2>2, <3>1 DEF Dangles
    <3>2. CASE f = Index
      BY <1>3, <1>4, <1>6, <2>1, <2>2, <3>2 DEF Dangles, WInv, PInv, TypeOK
    <3>3. CASE f # call[c].at /\ f # Index
      BY <1>3, <1>6, <2>1, <3>3 DEF Dangles
    <3> QED
      BY <3>1, <3>2, <3>3
  <2>4. \A d \in Calls : ~Watches(call[d], p, f)
    BY <1>1 DEF Watches
  <2> QED
    BY <1>1, <1>6, <2>3, <2>4 DEF WInv, Covered, RefsCovered
<1>7. ASSUME NEW p \in Pages, file'[p] # Absent, NEW s \in file'[p].sources \ rawSources'
      PROVE  <<s, p>> \in missed'
  <2>1. file[p] # Absent /\ s \in file[p].sources
    <3>1. CASE p = call[c].at
      BY <1>1, <1>3, <1>4, <1>7, <3>1
    <3>2. CASE p # call[c].at
      BY <1>3, <1>7, <3>2, NameAssumption DEF Files
    <3> QED
      BY <3>1, <3>2
  <2>2. \A d \in Calls : ~Follows(call[d], p, s)
    BY <1>1 DEF Follows
  <2> QED
    BY <1>1, <1>7, <2>1, <2>2 DEF WInv, Covered, SourcesCovered
<1> QED
  BY <1>5, <1>6, <1>7, AllIdleKeepsW

LEMMA CrashW == ASSUME WInv, PInv', Crash PROVE WInv'
<1>1. /\ \A c \in Calls : call'[c] = Idle
      /\ missed' = missed \cup UNION {Deleted(c) \X Files : c \in Calls} /\ UNCHANGED <<file, rawSources>>
  BY DEF Crash
<1>2. ASSUME NEW p \in Pages, NEW f \in Files, Initial[p] # Absent, Dangles(file', p, f)
      PROVE  <<p, f>> \in missed'
  <2>1. ASSUME NEW c \in Calls, Watches(call[c], p, f) PROVE <<p, f>> \in Deleted(c) \X Files
    BY <2>1 DEF Watches, Deleted
  <2> QED
    BY <1>1, <1>2, <2>1 DEF WInv, Covered, RefsCovered
<1>3. ASSUME NEW p \in Pages, file'[p] # Absent, NEW s \in file'[p].sources \ rawSources'
      PROVE  <<s, p>> \in missed'
  <2>1. ASSUME NEW c \in Calls, Follows(call[c], p, s) PROVE <<s, p>> \in Deleted(c) \X Files
    BY <2>1 DEF Follows, Deleted, Files
  <2> QED
    BY <1>1, <1>3, <2>1 DEF WInv, Covered, SourcesCovered
<1> QED
  BY <1>1, <1>2, <1>3, AllIdleKeepsW DEF Idle

LEMMA InitWInv == Init => WInv
<1> SUFFICES ASSUME Init PROVE WInv
  OBVIOUS
<1>1. PInv /\ file = Initial /\ rawSources = Sources /\ missed = {} /\ call = [c \in Calls |-> Idle]
  BY InitPInv DEF Init
<1>2. \A c \in Calls : CallFits(call[c], file, rawSources)
  BY <1>1, IdleFits
<1>3. StreamsAlone(call)
  BY <1>1 DEF StreamsAlone, Idle
<1>4. RefsCovered(file, call, missed)
  BY <1>1 DEF RefsCovered, Dangles
<1>5. NamesCovered(file, call, missed)
  BY <1>1 DEF NamesCovered, Idle
<1>6. SourcesCovered(file, rawSources, call, missed)
  BY <1>1 DEF SourcesCovered, PInv, TypeOK, Files, Content
<1> QED
  BY <1>1, <1>2, <1>3, <1>4, <1>5, <1>6 DEF WInv, Covered

LEMMA NextWInv == ASSUME OnTime, NamesApart, WInv, [Next]_vars PROVE WInv'
<1>1. PInv'
  BY NextPInv DEF WInv
<1>2. CASE UNCHANGED vars
  BY <1>1, <1>2 DEF vars, WInv
<1>3. ASSUME NEW c \in Calls, Start(c) PROVE WInv'
  <2>1. ASSUME NEW p \in Pages, StartDelete(c, p) \/ StartRollback(c, p) PROVE WInv'
    BY <1>1, <2>1, StartDeleteW, StartRollbackW
  <2>2. ASSUME NEW s \in Sources, StartSource(c, s) \/ \E p \in Pages : BeginIngest(c, s, p) PROVE WInv'
    BY <1>1, <2>2, StartSourceW, BeginIngestW
  <2>3. ASSUME NEW b \in Batches, NEW pc \in {"preview", "patch"}, StartPatch(c, b[1], b[2], pc) PROVE WInv'
    BY <1>1, <2>3, StartPatchW
  <2> QED
    BY <1>3, <2>1, <2>2, <2>3 DEF Start
<1>4. ASSUME NEW c \in Calls, Step(c) PROVE WInv'
  BY <1>1, <1>4, ReadNamesW, DeleteOneW, ListW, SweepW, RewriteW, EndSweepW, UnlinkW, DecideFateW, KeepW,
     EndFatesW, LogAndCacheW, PlanningKeepsW, PatchW, RestoreW, EndIngestW
  DEF Step
<1> QED
  BY <1>1, <1>2, <1>3, <1>4, CrashW DEF Next

\* What a deletion was to take away, no file names any more: no reference to a
\* deleted page by slug or title outside the files that its cascade has yet to
\* sweep, and no page with a source that is gone and that nobody is following
\* up, but for those a failed read, a failed write or a crash has left (the
\* history variable missed): WhatIsDeletedIsForgotten, for wiki-page-delete.ts
\* and deleteSourceWithCascade, when nobody acts between a read and its write,
\* ingests overlap no deletion, and files can be deleted.
THEOREM DeletionsAreComplete ==
  ASSUME OnTime, NamesApart
  PROVE  Spec => []WhatIsDeletedIsForgotten
<1>1. ASSUME WInv PROVE WhatIsDeletedIsForgotten
  <2>1. NoDanglingRefs
    <3>1. \A c \in Calls, p \in Pages, f \in Files : Watches(call[c], p, f) => Swept(p)
      BY DEF Watches, Swept
    <3> QED
      BY <1>1, <3>1 DEF WInv, Covered, RefsCovered, Dangles, NoDanglingRefs, Exists
  <2>2. NoGhostSource
    BY <1>1 DEF WInv, Covered, SourcesCovered, Follows, NoGhostSource, Exists
  <2> QED
    BY <1>1, <2>1, <2>2 DEF WInv, PInv, WhatIsDeletedIsForgotten
<1>2. WInv => WhatIsDeletedIsForgotten
  BY <1>1
<1>3. WInv /\ [Next]_vars => WInv'
  BY NextWInv
<1> QED
  BY <1>2, <1>3, InitWInv, PTL DEF Spec

-----------------------------------------------------------------------------
(***************************************************************************)
(* What a deletion leaves alone.                                           *)
(***************************************************************************)
\* What a step does to a file that is there.
Stays(f) == file'[f] # Absent /\ file[f].refs \subseteq file'[f].refs
Strips(c, f) == Rewrite(c) /\ file'[f] # Absent /\ file[f].refs \ file'[f].refs \subseteq call[c].keys
Goes(c, f) == DeleteOne(c) /\ f \in call[c].todo \cap Pages

LEMMA WrittenStays ==
  ASSUME PInv, NEW g \in Files, NEW y \in Content, file' = [file EXCEPT ![g] = y], file[g].refs \subseteq y.refs,
         NEW f \in Files, file[f] # Absent
  PROVE  Stays(f)
  BY ContentAssumption DEF PInv, TypeOK, Stays

LEMMA SameStays == ASSUME UNCHANGED file, NEW f \in Files, file[f] # Absent PROVE Stays(f)
  BY DEF Stays

LEMMA StepWrites ==
  ASSUME OnTime, WInv, NEW c \in Calls, Step(c), NEW f \in Files, file[f] # Absent
  PROVE  Stays(f) \/ Strips(c, f) \/ Goes(c, f)
<1>1. CASE UNCHANGED file
  BY <1>1, SameStays
<1>2. CASE Rewrite(c)
  <2>1. /\ call[c] \in Call /\ call[c].at \in Files /\ call[c].read \subseteq Content
        /\ call[c].read \subseteq {file[call[c].at]}
        /\ WriteBack(c, call[c].targets, LAMBDA x : StripRefs(x, call[c].keys))
    BY <1>2, ActingFits, CallIsTyped DEF Rewrite, ReadsStand, WInv, PInv
  <2>2. ASSUME NEW x \in call[c].read, file' = [file EXCEPT ![call[c].at] = StripRefs(x, call[c].keys)]
        PROVE  Strips(c, f)
    <3>1. x = file[call[c].at] /\ x \in Content
      BY <2>1
    <3>2. StripRefs(x, call[c].keys) \in Content /\ StripRefs(x, call[c].keys).refs = x.refs \ call[c].keys
      BY <3>1 DEF StripRefs, Content
    <3>3. CASE f = call[c].at
      <4>1. file'[f] = StripRefs(x, call[c].keys)
        BY <2>1, <2>2, <3>3 DEF WInv, PInv, TypeOK
      <4> QED
        BY <1>2, <3>1, <3>2, <3>3, <4>1, ContentAssumption DEF Strips
    <3>4. CASE f # call[c].at
      <4>1. file'[f] = file[f]
        BY <2>2, <3>4 DEF WInv, PInv, TypeOK
      <4> QED
        BY <1>2, <4>1 DEF Strips
    <3> QED
      BY <3>3, <3>4
  <2> QED
    BY <1>1, <2>1, <2>2 DEF WriteBack
<1>3. CASE Keep(c)
  <2>1. /\ call[c] \in Call /\ call[c].at \in Files /\ call[c].read \subseteq Content
        /\ call[c].read \subseteq {file[call[c].at]}
        /\ WriteBack(c, call[c].source, LAMBDA x : [x EXCEPT !.sources = @ \ call[c].source])
    BY <1>3, ActingFits, CallIsTyped DEF Keep, ReadsStand, WInv, PInv
  <2>2. ASSUME NEW x \in call[c].read, file' = [file EXCEPT ![call[c].at] = [x EXCEPT !.sources = @ \ call[c].source]]
        PROVE  Stays(f)
    <3> DEFINE y == [x EXCEPT !.sources = @ \ call[c].source]
    <3>1. x = file[call[c].at] /\ y \in Content /\ y.refs = x.refs
      BY <2>1 DEF Content
    <3>2. file' = [file EXCEPT ![call[c].at] = y]
      BY <2>2
    <3> HIDE DEF y
    <3> QED
      BY <2>1, <3>1, <3>2, WrittenStays DEF WInv
  <2> QED
    BY <1>1, <2>1, <2>2 DEF WriteBack
<1>4. CASE Patch(c)
  <2>1. /\ call[c] \in Call /\ call[c].at \in Files /\ call[c].meta \subseteq Metas
        /\ call[c].read \subseteq Content /\ call[c].read \subseteq {file[call[c].at]}
    BY <1>4, ActingFits, CallIsTyped DEF Patch, ReadsStand, WInv, PInv
  <2>2. PICK v \in call[c].meta, x \in call[c].read :
          file' = [file EXCEPT ![call[c].at] = SetMeta(x, v)] \/ UNCHANGED file
    BY <1>4 DEF Patch
  <2>3. SetMeta(x, v) \in Content /\ SetMeta(x, v).refs = file[call[c].at].refs
    BY <2>1, PlanIsGood
  <2> QED
    BY <1>1, <2>1, <2>2, <2>3, WrittenStays DEF WInv
<1>5. CASE Restore(c)
  <2>1. /\ call[c].at \in Files /\ call[c].plans \subseteq Pages \X Plan
        /\ ReadsStand(call[c], file) /\ WellFormed(call[c]) /\ call[c].pc = "restore"
    BY <1>5, ActingFits, CallIsTyped DEF Restore, WInv, PInv
  <2>2. ASSUME NEW item \in call[c].plans, file' = [file EXCEPT ![call[c].at] = item[2].before]
        PROVE  Stays(f)
    <3>1. item[2] \in Plan /\ Patches(item[2]) /\ file[call[c].at] = item[2].after
      BY <2>1 DEF ReadsStand, WellFormed
    <3>2. item[2].before \in Content /\ item[2].after \in Content
      BY <3>1 DEF Plan
    <3>3. item[2].before.refs = item[2].after.refs
      BY <3>1, <3>2, PlanIsGood DEF Patches, Content
    <3> QED
      BY <2>1, <2>2, <3>1, <3>2, <3>3, WrittenStays DEF WInv
  <2> QED
    BY <1>1, <1>5, <2>2 DEF Restore
<1>6. CASE EndIngest(c)
  <2>1. CallFits(call[c], file, rawSources) /\ call[c].pc = "stream"
    BY <1>6, ActingFits DEF EndIngest
  <2>2. PICK r \in Content, q \in Pages : Ingested(c, r, Slug[q])
    BY <1>6, IngestWrites DEF WInv
  <2>3. /\ file'[call[c].at] = r /\ r # Absent
        /\ file'[Index] # Absent /\ file'[Index].refs = call[c].keys \cup {Slug[call[c].at]}
        /\ \A g \in Files \ {call[c].at, Index} : file'[g] = file[g]
    BY <1>6, <2>2, IngestWrites, IngestedFiles DEF WInv
  <2>4. /\ call[c].keys = file[Index].refs /\ call[c].read = {file[call[c].at]} \ {Absent}
    BY <2>1 DEF CallFits, StreamStands
  <2>5. CASE f = call[c].at
    <3>1. file[f].refs \subseteq r.refs
      BY <2>2, <2>4, <2>5 DEF Ingested
    <3> QED
      BY <2>3, <2>5, <3>1 DEF Stays
  <2>6. CASE f = Index
    BY <2>3, <2>4, <2>6 DEF Stays
  <2>7. CASE f \notin {call[c].at, Index}
    BY <2>3, <2>7 DEF Stays
  <2> QED
    BY <2>5, <2>6, <2>7
<1>7. CASE DeleteOne(c)
  <2>1. PICK p \in call[c].todo \cap Pages : file' = [file EXCEPT ![p] = Absent] \/ UNCHANGED file
    BY <1>7 DEF DeleteOne
  <2>2. CASE f = p
    BY <1>7, <2>1, <2>2 DEF Goes
  <2>3. CASE f # p
    BY <2>1, <2>3 DEF WInv, PInv, TypeOK, Stays
  <2> QED
    BY <2>2, <2>3
<1> QED
  BY <1>1, <1>2, <1>3, <1>4, <1>5, <1>6, <1>7
  DEF Step, ReadNames, List, Sweep, EndSweep, Unlink, DecideFate, EndFates, AppendLog, RemoveFromIngestCache,
      PlanItem, EndPatch, CheckRollback

LEMMA StartWrites == ASSUME NEW c \in Calls, Start(c) PROVE UNCHANGED file
  BY DEF Start, StartDelete, StartSource, StartPatch, StartRollback, BeginIngest

\* The two properties, as they are said of one step.
SourceSpares(c, p) ==
  (call[c].source # {} /\ Exists(p) /\ p \in call'[c].gone \ call[c].gone)
    => file[p].sources \subseteq call[c].source
LinksStay(f) ==
  (Exists(f) /\ file'[f] # Absent) =>
    \A k \in file[f].refs \ file'[f].refs : \A p \in Pages : k \in Names(p) => ~Exists(p)

LEMMA StepSparesPages ==
  ASSUME OnTime, WInv, WInv', [Next]_vars, NEW c \in Calls, NEW p \in Pages
  PROVE  SourceSpares(c, p)
<1> SUFFICES ASSUME call[c].source # {}, file[p] # Absent, p \in call'[c].gone, p \notin call[c].gone
             PROVE  file[p].sources \subseteq call[c].source
  BY DEF SourceSpares, Exists
<1>1. file'[p] = Absent /\ p \in Files
  BY DEF WInv, CallFits, TargetsGo, Files
<1>2. PICK d \in Calls : Step(d)
  BY <1>1, StartWrites DEF Next, Crash, vars
<1>3. DeleteOne(d) /\ p \in call[d].todo
  BY <1>1, <1>2, StepWrites DEF Stays, Strips, Goes
<1>4. d = c
  <2>1. \E r : call' = [call EXCEPT ![d] = r]
    BY <1>3 DEF DeleteOne
  <2> QED
    BY <2>1 DEF WInv, PInv, TypeOK
<1>5. CallFits(call[c], file, rawSources) /\ call[c].pc = "delete"
  BY <1>3, <1>4, ActingFits DEF DeleteOne
<1> QED
  BY <1>3, <1>4, <1>5 DEF CallFits, TargetsGo, SourceGoes

LEMMA StepKeepsLinks ==
  ASSUME OnTime, NamesApart, WInv, [Next]_vars, NEW f \in Files
  PROVE  LinksStay(f)
<1> SUFFICES ASSUME file[f] # Absent, file'[f] # Absent, NEW k \in file[f].refs \ file'[f].refs,
                    NEW p \in Pages, k \in Names(p)
             PROVE  file[p] = Absent
  BY DEF LinksStay, Exists
<1>1. PICK c \in Calls : Step(c)
  BY StartWrites DEF Next, Crash, vars
<1>2. Strips(c, f)
  <2>1. ~Goes(c, f)
    <3>1. ASSUME Goes(c, f), UNCHANGED file PROVE FALSE
      BY <3>1
    <3>2. ASSUME Goes(c, f), NEW q \in Pages, file' = [file EXCEPT ![q] = Absent] PROVE FALSE
      BY <3>2 DEF WInv, PInv, TypeOK
    <3> QED
      BY <3>1, <3>2 DEF Goes, DeleteOne
  <2> QED
    BY <1>1, <2>1, StepWrites DEF Stays
<1>3. CallFits(call[c], file, rawSources) /\ call[c].pc = "rewrite" /\ call[c].targets \subseteq Pages
  BY <1>2, ActingFits DEF Strips, Rewrite
<1>4. PICK q \in call[c].targets : k \in Names(q)
  BY <1>2, <1>3 DEF Strips, CallFits, NamesAreTheirs
<1>5. q = p
  BY <1>3, <1>4 DEF NamesApart
<1> QED
  BY <1>3, <1>4, <1>5 DEF CallFits, TargetsGo

\* Deleting a source deletes no page that also has another one (decidePageFate
\* in sources-view.tsx, whose verdict is carried out some awaits later), and the
\* sweep of a cascade (wiki-page-delete.ts) takes a link out of a page only when
\* the page it leads to is gone: SurvivorsAreIntact, when nobody acts between a
\* read and its write, ingests overlap no deletion, files can be deleted, and no
\* two pages share a name.
THEOREM DeletionsSpareTheOthers ==
  ASSUME OnTime, NamesApart
  PROVE  Spec => SurvivorsAreIntact
<1>1. WInv /\ WInv' /\ [Next]_vars => [\A c \in Calls, p \in Pages : SourceSpares(c, p)]_vars
  BY StepSparesPages
<1>2. WInv /\ [Next]_vars => [\A f \in Files : LinksStay(f)]_vars
  BY StepKeepsLinks
<1>3. WInv /\ [Next]_vars => WInv'
  BY NextWInv
<1>4. [\A c \in Calls, p \in Pages : SourceSpares(c, p)]_vars =>
      [\A c \in Calls, p \in Pages :
         (call[c].source # {} /\ Exists(p) /\ p \in call'[c].gone \ call[c].gone)
            => file[p].sources \subseteq call[c].source]_vars
  BY DEF SourceSpares
<1>5. [\A f \in Files : LinksStay(f)]_vars =>
      [\A f \in Files : (Exists(f) /\ file'[f] # Absent) =>
         \A k \in file[f].refs \ file'[f].refs : \A p \in Pages : k \in Names(p) => ~Exists(p)]_vars
  BY DEF LinksStay
<1> QED
  BY <1>1, <1>2, <1>3, <1>4, <1>5, InitWInv, PTL
  DEF Spec, SurvivorsAreIntact, SharedPagesSurvive, SurvivorsKeepTheirLinks
=============================================================================
