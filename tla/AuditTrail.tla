------------------------------- MODULE AuditTrail -------------------------------
(***************************************************************************)
(* The audit log of a project (audit-timeline.ts, audit-events.ts): a file   *)
(* of lines to which every part of the application appends without waiting   *)
(* for the others, and the timeline that shows it (audit-timeline-ui.ts,     *)
(* audit-timeline-panel.tsx, maintenance-section.tsx, audit-export.ts).  One *)
(* append is one write; when the process ends in it, a part of the line may  *)
(* be on disk, with or without all of its event, and without its end.        *)
(***************************************************************************)
EXTENDS Integers, FiniteSets, SequencesExt

CONSTANTS
  Times,        \* timestamps; 0 is one that cannot be parsed
  Categories,
  MaxEvents,    \* bound: events appended
  MaxCrashes,   \* bound: ends of the process
  MaxReads      \* bound: refreshes of the timeline

VARIABLES
  file,         \* audit.jsonl: its lines, each the events in it and whether it can be parsed
  open,         \* the last line has no end
  writing,      \* appends under way
  kept,         \* events whose append was answered
  reading,      \* refreshes under way
  timeline,     \* auditEvents and auditWarnings
  exported,     \* what was exported of it
  counts        \* of events, crashes and reads

vars == <<file, open, writing, kept, reading, timeline, exported, counts>>

Nothing == [nothing |-> TRUE]
NoCategory == "all"
Filters == [category : Categories \cup {NoCategory}, from : Times, limit : {1, 2}]
Unseen == [events |-> <<>>, warned |-> {}]

Init ==
  /\ file = <<>> /\ open = FALSE /\ writing = {} /\ kept = {}
  /\ reading = {} /\ timeline = Unseen /\ exported = Nothing
  /\ counts = [events |-> 0, crashes |-> 0, reads |-> 0]

-----------------------------------------------------------------------------
\* append_file: what comes after a line without an end is part of that line.
Joined(line, e) == [events |-> line.events \cup {e}, whole |-> FALSE]
Written(e) ==
  IF open THEN [file EXCEPT ![Len(file)] = Joined(@, e)]
  ELSE Append(file, [events |-> {e}, whole |-> TRUE])

\* appendAuditEvent with an event of its own id; the clock gives the time, and
\* may be set back.
Emit(time, category) ==
  /\ counts.events < MaxEvents
  /\ writing' = writing \cup {[id |-> counts.events + 1, time |-> time, category |-> category]}
  /\ counts' = [counts EXCEPT !.events = @ + 1]
  /\ UNCHANGED <<file, open, kept, reading, timeline, exported>>

Land(e) ==
  /\ e \in writing /\ writing' = writing \ {e}
  /\ file' = Written(e) /\ open' = FALSE /\ kept' = kept \cup {e}
  /\ UNCHANGED <<reading, timeline, exported, counts>>

\* The process ends; an append under way may leave a part of its line, and that
\* part may be its whole event.
Crash(S, whole) ==
  /\ counts.crashes < MaxCrashes /\ counts' = [counts EXCEPT !.crashes = @ + 1]
  /\ S \subseteq writing /\ Cardinality(S) <= 1
  /\ IF S = {} THEN UNCHANGED <<file, open>>
     ELSE /\ file' = IF open THEN Written(CHOOSE e \in S : TRUE) ELSE Append(file, [events |-> S, whole |-> whole])
          /\ open' = TRUE
  /\ writing' = {} /\ reading' = {} /\ timeline' = Unseen /\ exported' = Nothing
  /\ UNCHANGED <<kept>>

-----------------------------------------------------------------------------
\* readAuditTimeline: a line that cannot be parsed is a warning, and the next
\* is read.  A mutant: reading ends there.
UpToTheFirst(lines) ==
  LET torn == {i \in DOMAIN lines : ~lines[i].whole}
      good == SelectSeq(SubSeq(lines, 1, IF torn = {} THEN Len(lines) ELSE (CHOOSE i \in torn : \A j \in torn : i <= j) - 1), LAMBDA l : l.whole)
  IN [events |-> [i \in DOMAIN good |-> CHOOSE e \in good[i].events : TRUE], warned |-> {i \in torn : \A j \in torn : i <= j}]
readAuditTimeline(lines) ==
  LET good == SelectSeq(lines, LAMBDA l : l.whole)
  IN [events |-> [i \in DOMAIN good |-> CHOOSE e \in good[i].events : TRUE],
      warned |-> {i \in DOMAIN lines : ~lines[i].whole}]

\* refreshRecentAudit: the file as it is when it is read; answers may overtake
\* one another.
Refresh ==
  /\ counts.reads < MaxReads /\ counts' = [counts EXCEPT !.reads = @ + 1]
  /\ reading' = reading \cup {[read |-> counts.reads + 1, answer |-> readAuditTimeline(file)]}
  /\ UNCHANGED <<file, open, writing, kept, timeline, exported>>
Show(r) ==
  /\ r \in reading /\ reading' = reading \ {r} /\ timeline' = r.answer /\ exported' = Nothing
  /\ UNCHANGED <<file, open, writing, kept, counts>>

\* filterAuditTimelineEvents: newest first, events of one time in the order of
\* the file, and of what matches the first.  A mutant: the limit comes first.
Newest(events) ==
  LET before(i, j) == events[i].time > events[j].time \/ (events[i].time = events[j].time /\ i < j)
      order == SetToSortSeq(DOMAIN events, before)
  IN [k \in DOMAIN order |-> events[order[k]]]
Matches(filter, e) == (filter.category = NoCategory \/ e.category = filter.category) /\ e.time >= filter.from
First(s, n) == SubSeq(s, 1, IF Len(s) <= n THEN Len(s) ELSE n)
FirstOfAll(filter, events) == SelectSeq(First(Newest(events), filter.limit), LAMBDA e : Matches(filter, e))
Shown(filter, events) == First(SelectSeq(Newest(events), LAMBDA e : Matches(filter, e)), filter.limit)

\* exportAuditEvents: what is shown under a filter goes to a file of its own.
Export(filter) ==
  /\ exported = Nothing
  /\ exported' = [events |-> Shown(filter, timeline.events), filter |-> filter]
  /\ UNCHANGED <<file, open, writing, kept, reading, timeline, counts>>

Next ==
  \/ \E time \in Times, category \in Categories : Emit(time, category)
  \/ \E e \in writing : Land(e)
  \/ \E S \in SUBSET writing, whole \in BOOLEAN : Crash(S, whole)
  \/ Refresh \/ (\E r \in reading : Show(r))
  \/ \E filter \in Filters : Export(filter)

Spec == Init /\ [][Next]_vars

-----------------------------------------------------------------------------
(***************************************************************************)
(* However appends overlap and wherever the process ended, an event whose    *)
(* append was answered can be read, once; each end of the process costs at   *)
(* most one of them, and its line is warned of (audit-timeline.ts:109, fs.rs:942). *)
(***************************************************************************)
EventsAreAccountedFor ==
  LET now == readAuditTimeline(file)
      lost == kept \ ToSet(now.events) IN
  /\ IsInjective(now.events)
  /\ Cardinality(lost) <= counts.crashes
  /\ lost \subseteq UNION {file[i].events : i \in now.warned}

(***************************************************************************)
(* An export holds the newest events the filter lets through, in order: none *)
(* that matches is left out for an older one, and none for one that does not *)
(* match (audit-timeline-ui.ts:57).                                          *)
(***************************************************************************)
ExportsAreTheNewest ==
  exported # Nothing =>
    LET match == {e \in ToSet(timeline.events) : e.time >= exported.filter.from /\ exported.filter.category \in {NoCategory, e.category}}
        out == ToSet(exported.events) IN
    /\ out \subseteq match
    /\ Cardinality(out) = IF Cardinality(match) <= exported.filter.limit THEN Cardinality(match) ELSE exported.filter.limit
    /\ \A e \in match \ out, d \in out : d.time >= e.time
    /\ \A i, j \in DOMAIN exported.events : i < j => exported.events[i].time >= exported.events[j].time
=============================================================================
