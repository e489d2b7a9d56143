------------------------------ MODULE AppSettings ------------------------------
(***************************************************************************)
(* The settings of the application (settings-view.tsx, the section of the   *)
(* language models, project-store.ts, startup-settings.ts, proxy.rs).  They  *)
(* live in the window's store, in a draft the user edits, in the key-value   *)
(* store behind the bridge and in its file, which is written a moment later; *)
(* a proxy also in the environment of the process.  Every save is a chain of *)
(* calls to the bridge, and several chains may be under way.  The bridge     *)
(* answers calls in the order they were made.                                *)
(***************************************************************************)
EXTENDS Integers, Sequences

CONSTANTS
  Presets,     \* presets of language models, with an override each
  Values,      \* values of a setting
  Default,     \* the one every setting begins with
  MaxEdits,    \* bound: edits of a field, changes of a preset
  MaxSaves,    \* bound: clicks on Save
  MaxCrashes   \* bound: ends of the process without a goodbye

VARIABLES
  store,       \* useWikiStore
  draft,       \* SettingsDraft
  mem, disk,   \* app-state.json, as the plugin holds it and as it was written
  env,         \* HTTP_PROXY and the like
  chains,      \* the calls to the bridge, in order, each with what follows it
  bounds

vars == <<store, draft, mem, disk, env, chains, bounds>>

NoPreset == "none"
Drafted == {"embedding", "proxy", "network"}
Unset == "unset"
Seeded == "seeded"

Builtin == [preset |-> NoPreset, value |-> Default]
Fresh == [llm |-> Builtin, overrides |-> [p \in Presets |-> Default], active |-> NoPreset,
          embedding |-> Default, proxy |-> Default, network |-> Default]
DraftOf(s) == [llm |-> s.llm, embedding |-> s.embedding, proxy |-> s.proxy, network |-> s.network]

Init ==
  /\ store = Fresh /\ draft = DraftOf(Fresh)
  /\ mem = [Fresh EXCEPT !.network = Unset] /\ disk = [Fresh EXCEPT !.network = Unset]
  /\ env = Default /\ chains = <<>>
  /\ bounds = [edits |-> 0, saves |-> 0, crashes |-> 0]

-----------------------------------------------------------------------------
\* resolveConfig.
Resolved(preset, overrides) == [preset |-> preset, value |-> overrides[preset]]

\* seedNetworkPolicyFromConfiguredCloud: without a saved policy the hosts of
\* the models that are configured are allowed; that is not saved.
SeedOf(saved, llm) == IF saved # Unset THEN saved ELSE IF llm = Builtin THEN Default ELSE Seeded

\* A setter of the store; the effect of the settings view that follows copies
\* the whole store into the draft.
Sets(s) == store' = s /\ draft' = DraftOf(s)

Edited == bounds.edits < MaxEdits /\ bounds' = [bounds EXCEPT !.edits = @ + 1]

\* setDraft.
Edit(k, v) ==
  /\ Edited /\ draft[k] # v
  /\ draft' = [draft EXCEPT ![k] = v]
  /\ UNCHANGED <<store, mem, disk, env, chains>>

Persist(overrides, active) == [kind |-> "persist", step |-> 1, overrides |-> overrides, active |-> active]

\* updateOverride: one more keystroke in a field of a preset.
Type(p, v) ==
  /\ Edited /\ store.overrides[p] # v
  /\ LET next == [store.overrides EXCEPT ![p] = v] IN
     /\ IF store.active = p THEN Sets([store EXCEPT !.overrides = next, !.llm = Resolved(p, next)])
        ELSE store' = [store EXCEPT !.overrides = next] /\ UNCHANGED draft
     /\ chains' = Append(chains, Persist(next, store.active))
  /\ UNCHANGED <<mem, disk, env>>

\* toggleActive.
Toggle(p) ==
  /\ Edited
  /\ LET next == IF store.active = p THEN NoPreset ELSE p IN
     /\ store' = [store EXCEPT !.active = next]
     /\ chains' = Append(chains, Persist(store.overrides, next))
  /\ UNCHANGED <<draft, mem, disk, env>>

\* handleSave, with the draft of the moment.
Save ==
  /\ bounds.saves < MaxSaves /\ bounds' = [bounds EXCEPT !.saves = @ + 1]
  /\ Sets([store EXCEPT !.llm = draft.llm])
  /\ chains' = Append(chains, [kind |-> "save", step |-> 1, draft |-> draft])
  /\ UNCHANGED <<mem, disk, env>>

-----------------------------------------------------------------------------
Onward == Append(Tail(chains), [Head(chains) EXCEPT !.step = @ + 1])

\* persist: overrides, active preset, and the configuration they make, which
\* the store has only now.
Persists ==
  /\ chains # <<>> /\ Head(chains).kind = "persist"
  /\ LET c == Head(chains)
         llm == Resolved(c.active, c.overrides) IN
     CASE c.step = 1 -> /\ mem' = [mem EXCEPT !.overrides = c.overrides]
                        /\ chains' = Onward /\ UNCHANGED <<store, draft>>
       [] c.step = 2 -> /\ mem' = [mem EXCEPT !.active = c.active]
                        /\ IF c.active = NoPreset THEN chains' = Tail(chains) /\ UNCHANGED <<store, draft>>
                           ELSE chains' = Onward /\ Sets([store EXCEPT !.llm = llm])
       [] OTHER -> mem' = [mem EXCEPT !.llm = llm] /\ chains' = Tail(chains) /\ UNCHANGED <<store, draft>>
  /\ UNCHANGED <<disk, env, bounds>>

\* handleSave after each answer: the next value, from the draft the click saw.
\* A mutant: from the draft of now.
DraftOfNow(c) == draft
DraftOfClick(c) == c.draft
\* saveProxyConfig flushes at once.  A mutant: it leaves that to the autosave.
LeftToAutosave(m) == disk
Flushed(m) == m
Saves ==
  /\ chains # <<>> /\ Head(chains).kind = "save"
  /\ LET c == Head(chains)
         d == DraftOfClick(c) IN
     CASE c.step = 1 -> /\ mem' = [mem EXCEPT !.llm = d.llm] /\ Sets([store EXCEPT !.embedding = d.embedding])
                        /\ chains' = Onward /\ UNCHANGED <<disk, env>>
       [] c.step = 2 -> /\ mem' = [mem EXCEPT !.embedding = d.embedding] /\ Sets([store EXCEPT !.proxy = d.proxy])
                        /\ chains' = Onward /\ UNCHANGED <<disk, env>>
       [] c.step = 3 -> /\ mem' = [mem EXCEPT !.proxy = d.proxy] /\ chains' = Onward
                        /\ UNCHANGED <<store, draft, disk, env>>
       [] c.step = 4 -> /\ disk' = Flushed(mem) /\ Sets([store EXCEPT !.network = d.network])
                        /\ chains' = Onward /\ UNCHANGED <<mem, env>>
       [] c.step = 5 -> /\ mem' = [mem EXCEPT !.network = d.network] /\ chains' = Onward
                        /\ UNCHANGED <<store, draft, disk, env>>
       [] OTHER -> /\ env' = d.proxy /\ chains' = Tail(chains) /\ UNCHANGED <<store, draft, mem, disk>>
  /\ UNCHANGED bounds

\* autoSave, 100 ms after a change.
AutoSave ==
  /\ disk # mem /\ disk' = mem
  /\ UNCHANGED <<store, draft, mem, env, chains, bounds>>

\* The process ends, and starts: the proxy of the file goes into the
\* environment (proxy.rs), and hydrateStartupSettings fills the store; the
\* active preset is resolved again and saved.  A mutant: it is not.
AsSaved(s) == s
Reresolved(s) == IF s.active = NoPreset THEN s ELSE [s EXCEPT !.llm = Resolved(s.active, s.overrides)]
Restart ==
  /\ bounds.crashes < MaxCrashes /\ bounds' = [bounds EXCEPT !.crashes = @ + 1]
  /\ chains' = <<>> /\ env' = disk.proxy
  /\ mem' = Reresolved(disk)
  /\ Sets([Reresolved(disk) EXCEPT !.network = SeedOf(disk.network, Reresolved(disk).llm)])
  /\ UNCHANGED disk

Next ==
  \/ \E k \in Drafted, v \in Values : Edit(k, v)
  \/ \E p \in Presets : Toggle(p) \/ \E v \in Values : Type(p, v)
  \/ Save \/ Persists \/ Saves \/ AutoSave \/ Restart

Spec == Init /\ [][Next]_vars

-----------------------------------------------------------------------------
(***************************************************************************)
(* When nothing is under way, what the window shows, what the bridge holds   *)
(* and what the process does agree: the configuration of the model is that   *)
(* of the active preset, the proxy is on disk and in the environment, whatever *)
(* chains ran into each other and wherever the process ended                 *)
(* (llm-provider-section.tsx:28, startup-settings.ts:73, project-store.ts:122). *)
(***************************************************************************)
SettingsSettle ==
  chains = <<>> =>
    /\ store.llm = mem.llm /\ store.overrides = mem.overrides /\ store.active = mem.active
    /\ store.active # NoPreset => store.llm = Resolved(store.active, store.overrides)
    /\ store.embedding = mem.embedding /\ store.proxy = mem.proxy
    /\ mem.network # Unset => store.network = mem.network
    /\ env = store.proxy /\ disk.proxy = mem.proxy

(***************************************************************************)
(* A save keeps what the user saw when clicking, though its own steps make   *)
(* the view copy the store into the draft between them                       *)
(* (settings-view.tsx:176).                                                  *)
(***************************************************************************)
SaveKeepsDraft ==
  chains # <<>> /\ Head(chains).kind = "save" /\ Head(chains).step = 6 /\ bounds.saves = 1 /\ bounds' = bounds =>
    \A k \in Drafted : store'[k] = Head(chains).draft[k] /\ mem'[k] = Head(chains).draft[k]
SaveIsWhole == [][SaveKeepsDraft]_vars

\* Refuted: without an active preset no model is configured (wiki-store.ts:207).
NoPresetNoModel == chains = <<>> /\ store.active = NoPreset => store.llm = Builtin
=============================================================================
