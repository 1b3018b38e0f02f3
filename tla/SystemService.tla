--------------------------- MODULE SystemService ---------------------------
(***************************************************************************)
(* SystemService (cmd/syncbridge/system_service.go): the handlers that     *)
(* switch, delete and restore cron lines and systemd units of the host and *)
(* stop inotifywait processes, and the trash file that keeps what was      *)
(* deleted.                                                                *)
(*                                                                         *)
(* Requests run concurrently.  Every look at the host and every change of  *)
(* it is a step of its own; only the trash is guarded by a lock, so that   *)
(* reading and replacing it is one step.  A line of a cron file is seen    *)
(* through the definition (schedule and target) it parses to and whether   *)
(* it is commented out with #SB-OFF#; comments and settings are left out.  *)
(* A request that names several items is as many requests.                 *)
(***************************************************************************)
EXTENDS Filtering

CONSTANTS
  CronFiles,  \* /etc/crontab, /etc/cron.d/*, /var/spool/cron/crontabs/*
  Units,      \* unit files below /etc/systemd/system
  Pids,       \* process identifiers
  Defs,       \* definitions a cron line may hold
  Whole,      \* stands for the definition in a unit file
  Calls       \* API calls, each used once; they also are the timestamps TS

ASSUME SystemAssumption ==
  /\ CronFiles \cap Units = {} /\ (CronFiles \cup Units) \cap Pids = {}
  /\ IsFiniteSet(Defs) /\ Whole \notin Defs

VARIABLES
  cron,      \* cron file |-> its lines
  present,   \* units whose file exists
  unitsOn,   \* units systemd has enabled
  proc,      \* process identifier |-> what runs under it
  trash,     \* system-trash.json, newest first
  call,      \* the requests
  atRisk     \* history variable: definitions that were exposed to a crash,
             \* a failure or a concurrent edit of their file

systemVars == <<cron, present, unitsOn, proc, trash, call, atRisk>>
hostVars   == <<cron, present, unitsOn, proc>>

Places == CronFiles \cup Units \cup Pids
Line   == [def : Defs \cup {Whole}, off : BOOLEAN]
Entry  == [ts : Calls, file : Places, line : Line, restorable : BOOLEAN]

CallSteps == {"new", "read", "replace", "command", "disable", "remove", "signal",
              "reload", "trash", "purge", "done"}
NoCall == [op |-> "none", step |-> "new", file |-> "none", def |-> Whole,
           lines |-> << >>, on |-> FALSE, entry |-> << >>]
UnitLine == [def |-> Whole, off |-> FALSE]

SystemTypeOK ==
  /\ cron \in [CronFiles -> Seq([def : Defs, off : BOOLEAN])]
  /\ present \subseteq Units /\ unitsOn \subseteq Units
  /\ proc \in [Pids -> {"inotifywait", "other", "none"}]
  /\ trash \in Seq(Entry)
  /\ \A q \in Calls :
       /\ call[q].step \in CallSteps
       /\ call[q].entry \in Entry \cup {<< >>}
       /\ call[q].step \in {"trash", "purge"} => call[q].entry \in Entry
  /\ atRisk \subseteq (CronFiles \cup Units) \X (Defs \cup {Whole})

\* The definitions in some order.
Listing == CHOOSE order \in [1..Cardinality(Defs) -> Defs] :
             \A d \in Defs : \E n \in 1..Cardinality(Defs) : order[n] = d

\* Every file holds every definition once; what systemd has enabled exists.
SystemInit ==
  /\ cron = [f \in CronFiles |-> [n \in 1..Cardinality(Defs) |->
                                  [def |-> Listing[n], off |-> FALSE]]]
  /\ present = Units /\ unitsOn \in SUBSET Units
  /\ proc \in [Pids -> {"inotifywait", "other"}]
  /\ trash = << >>
  /\ call = [q \in Calls |-> NoCall]
  /\ atRisk = {}
-----------------------------------------------------------------------------
At(q, step)   == call[q].step = step
Goto(q, step) == call' = [call EXCEPT ![q].step = step]
Answered      == [NoCall EXCEPT !.step = "done"]
Answer(q)     == call' = [call EXCEPT ![q] = Answered]

\* The lines of a file that parse to definition d, switched off or not.
Matches(lines, d) == {n \in 1..Len(lines) : lines[n].def = d}
First(lines, d)   == CHOOSE n \in Matches(lines, d) :
                       \A m \in Matches(lines, d) : n <= m

\* Scan: what the inventory shows as definition d of place f.
Shown(f, d) ==
  \/ f \in CronFiles /\ Matches(cron[f], d) # {}
  \/ f \in present /\ d = Whole
  \/ f \in Pids /\ d = Whole /\ proc[f] = "inotifywait"

\* Toggle and Delete begin with currentItem: an item that a new scan does
\* not show is refused.
CurrentItem(q) ==
  /\ At(q, "new")
  /\ \E op \in {"toggle", "delete"}, f \in Places, d \in Defs \cup {Whole} :
       /\ Shown(f, d)
       /\ call' = [call EXCEPT ![q] = [NoCall EXCEPT !.op = op, !.step = "read",
                                                     !.file = f, !.def = d]]
  /\ UNCHANGED <<hostVars, trash, atRisk>>

\* A client posts an entry that the trash showed it; by the time the handler
\* runs the entry may be gone.
RestoreRequest(q) ==
  /\ At(q, "new")
  /\ \E n \in 1..Len(trash) :
       /\ trash[n].restorable
       /\ call' = [call EXCEPT ![q] =
            [NoCall EXCEPT !.op = "restore", !.step = "read", !.file = trash[n].file,
                           !.def = trash[n].line.def, !.entry = trash[n]]]
  /\ UNCHANGED <<hostVars, trash, atRisk>>

EntryOf(q, line, restorable) ==
  [ts |-> q, file |-> call[q].file, line |-> line, restorable |-> restorable]
-----------------------------------------------------------------------------
(***************************************************************************)
(* Cron files: read, edit in memory, replace.                              *)
(***************************************************************************)
\* toggleCron and Delete give up when the line is gone or the file cannot be
\* read.  Restore takes a file it cannot read for an empty one.
ReadCron(q) ==
  LET f == call[q].file
      d == call[q].def
  IN
  /\ At(q, "read") /\ f \in CronFiles
  /\ \/ call[q].op = "restore" /\ \E seen \in {cron[f], << >>} :
          call' = [call EXCEPT ![q].step = "replace", ![q].lines = seen]
     \/ /\ call[q].op # "restore" /\ Matches(cron[f], d) # {}
        /\ call' = [call EXCEPT ![q].step = "replace", ![q].lines = cron[f],
             ![q].entry = EntryOf(q, cron[f][First(cron[f], d)], TRUE)]
     \/ call[q].op # "restore" /\ Answer(q)
  /\ UNCHANGED <<hostVars, trash, atRisk>>

\* The new text of the file: one line switched, taken out or added at the end.
Edited(q) ==
  LET lines == call[q].lines
      n     == First(lines, call[q].def)
  IN  CASE call[q].op = "toggle"  -> [lines EXCEPT ![n].off = ~@]
        [] call[q].op = "delete"  -> Filtered(lines, (1..Len(lines)) \ {n})
        [] call[q].op = "restore" -> Append(lines, call[q].entry.line)

After(q) == CASE call[q].op = "toggle"  -> Answer(q)
              [] call[q].op = "delete"  -> Goto(q, "trash")
              [] call[q].op = "restore" -> Goto(q, "purge")

\* atomicReplaceHostFile: a temporary file is renamed, or nothing changes.  An
\* edit of the file since it was read is overwritten.
ReplaceCron(q) ==
  LET f == call[q].file IN
  /\ At(q, "replace")
  /\ \/ /\ cron' = [cron EXCEPT ![f] = Edited(q)]
        /\ atRisk' = IF cron[f] = call[q].lines THEN atRisk
                     ELSE atRisk \cup ({f} \X Defs)
        /\ After(q)
     \/ Answer(q) /\ UNCHANGED <<cron, atRisk>>
  /\ UNCHANGED <<present, unitsOn, proc, trash>>
-----------------------------------------------------------------------------
(***************************************************************************)
(* systemd units.                                                          *)
(***************************************************************************)
\* toggleSystemd asks is-enabled; Delete reads the file; Restore needs nothing.
ReadUnit(q) ==
  LET u == call[q].file IN
  /\ At(q, "read") /\ u \in Units
  /\ \/ /\ call[q].op = "toggle"
        /\ call' = [call EXCEPT ![q].step = "command", ![q].on = u \in unitsOn]
     \/ /\ call[q].op = "delete" /\ u \in present
        /\ call' = [call EXCEPT ![q].step = "disable",
                                ![q].entry = EntryOf(q, UnitLine, TRUE)]
     \/ call[q].op = "delete" /\ Answer(q)
     \/ call[q].op = "restore" /\ Goto(q, "command")
  /\ UNCHANGED <<hostVars, trash, atRisk>>

\* systemctl enable or disable --now, the opposite of what is-enabled said; a
\* unit without a file cannot be enabled.
ToggleUnit(q) ==
  LET u == call[q].file IN
  /\ At(q, "command") /\ call[q].op = "toggle" /\ Answer(q)
  /\ \/ call[q].on /\ unitsOn' = unitsOn \ {u}
     \/ ~call[q].on /\ u \in present /\ unitsOn' = unitsOn \cup {u}
     \/ UNCHANGED unitsOn
  /\ UNCHANGED <<cron, present, proc, trash, atRisk>>

\* systemctl disable --now, whose result Delete ignores.
DisableUnit(q) ==
  /\ At(q, "disable") /\ Goto(q, "remove")
  /\ unitsOn' \in {unitsOn, unitsOn \ {call[q].file}}
  /\ UNCHANGED <<cron, present, proc, trash, atRisk>>

\* os.Remove, then a daemon-reload whose result is ignored too.
RemoveUnit(q) ==
  LET u == call[q].file IN
  /\ At(q, "remove")
  /\ \/ u \in present /\ present' = present \ {u} /\ Goto(q, "trash")
     \/ Answer(q) /\ UNCHANGED present
  /\ UNCHANGED <<cron, unitsOn, proc, trash, atRisk>>

\* Restore writes the unit file; the unit is not enabled again.
RestoreUnit(q) ==
  /\ At(q, "command") /\ call[q].op = "restore"
  /\ \/ present' = present \cup {call[q].file} /\ Goto(q, "reload")
     \/ Answer(q) /\ UNCHANGED present
  /\ UNCHANGED <<cron, unitsOn, proc, trash, atRisk>>

\* When daemon-reload fails the entry stays in the trash.
ReloadUnits(q) ==
  /\ At(q, "reload")
  /\ Goto(q, "purge") \/ Answer(q)
  /\ UNCHANGED <<hostVars, trash, atRisk>>
-----------------------------------------------------------------------------
(***************************************************************************)
(* Processes: killInotify, called by Toggle and by Delete.                 *)
(***************************************************************************)
\* The command line is compared once more.
ReadProcess(q) ==
  /\ At(q, "read") /\ call[q].file \in Pids
  /\ IF proc[call[q].file] = "inotifywait"
     THEN call' = [call EXCEPT ![q].step = "signal",
                               ![q].entry = EntryOf(q, UnitLine, FALSE)]
     ELSE Answer(q)
  /\ UNCHANGED <<hostVars, trash, atRisk>>

\* syscall.Kill hits whatever has the identifier by now.
SignalProcess(q) ==
  LET p == call[q].file IN
  /\ At(q, "signal")
  /\ \/ proc[p] # "none" /\ proc' = [proc EXCEPT ![p] = "none"] /\ After(q)
     \/ Answer(q) /\ UNCHANGED proc
  /\ UNCHANGED <<cron, present, unitsOn, trash, atRisk>>

\* Processes of the host come and go.
ProcessChanges(p) ==
  /\ \E what \in {"inotifywait", "other", "none"} :
       proc[p] # what /\ proc' = [proc EXCEPT ![p] = what]
  /\ UNCHANGED <<cron, present, unitsOn, trash, call, atRisk>>
-----------------------------------------------------------------------------
(***************************************************************************)
(* The trash, under s.mu.  A trash file that cannot be read or parsed      *)
(* counts as empty and is replaced; AtomicWriteFile may fail before or     *)
(* after the replacement.                                                  *)
(***************************************************************************)
ItemOf(e) == <<e.file, e.line.def>>
Restorable(entries) ==
  {ItemOf(entries[n]) : n \in {m \in 1..Len(entries) : entries[m].restorable}}

\* The new trash is written, or the one that follows from an empty trash:
\* then what the unreadable entries held is at risk.
WriteTrash(new, fresh) ==
  \/ trash' = new /\ UNCHANGED atRisk
  \/ trash' = fresh /\ atRisk' = atRisk \cup Restorable(trash)

AppendTrash(q) ==
  LET e == call[q].entry IN
  /\ At(q, "trash") /\ Answer(q)
  /\ \/ WriteTrash(<<e>> \o trash, <<e>>)
     \/ UNCHANGED trash /\ atRisk' = atRisk \cup Restorable(<<e>>)
  /\ UNCHANGED hostVars

\* Mutant: entries of the same file are taken for the restored one.
RestoredByFile(e, entry) == e.file = entry.file

\* The entry is recognised by TS, type and file.
Restored(e, entry) == e.ts = entry.ts /\ e.file = entry.file

\* The positions of the entries that are kept.
Remaining(entry) == {n \in 1..Len(trash) : ~Restored(trash[n], entry)}

PurgeTrash(q) ==
  /\ At(q, "purge") /\ Answer(q)
  /\ \/ WriteTrash(Filtered(trash, Remaining(call[q].entry)), << >>)
     \/ UNCHANGED <<trash, atRisk>>
  /\ UNCHANGED hostVars

\* The definition request q has removed from the host and not yet recorded.
Held(q) == IF At(q, "trash") THEN Restorable(<<call[q].entry>>) ELSE {}

\* The process ends, with every request in flight.
Crash ==
  /\ \E q \in Calls : ~At(q, "new") /\ ~At(q, "done")
  /\ call' = [q \in Calls |-> IF At(q, "new") THEN NoCall ELSE Answered]
  /\ atRisk' = atRisk \cup UNION {Held(q) : q \in Calls}
  /\ UNCHANGED <<hostVars, trash>>
-----------------------------------------------------------------------------
SystemHandler(q) ==
  \/ CurrentItem(q) \/ RestoreRequest(q) \/ ReadCron(q) \/ ReplaceCron(q)
  \/ ReadUnit(q) \/ ToggleUnit(q) \/ DisableUnit(q) \/ RemoveUnit(q)
  \/ RestoreUnit(q) \/ ReloadUnits(q) \/ ReadProcess(q) \/ SignalProcess(q)
  \/ AppendTrash(q) \/ PurgeTrash(q)

SystemNext ==
  \/ \E q \in Calls : SystemHandler(q)
  \/ \E p \in Pids : ProcessChanges(p)
  \/ Crash

SystemSpec == SystemInit /\ [][SystemNext]_systemVars
-----------------------------------------------------------------------------
\* A definition that was on the host is never lost by deleting and restoring
\* it, however the requests interleave, also when one request restores what
\* another deletes again: it is on the host, in the trash or on its way there.
\* The exceptions are the ones a reader of the code can name: the request that
\* held it crashed or could not write the trash, the trash could not be read,
\* or its cron file was edited between a request's read and its replacement.
\* (Delete, Restore, appendTrash)
DefinitionsSurvive ==
  LET OnHost == {i \in CronFiles \X Defs : Matches(cron[i[1]], i[2]) # {}}
                  \cup (present \X {Whole})
      Known  == OnHost \cup Restorable(trash) \cup UNION {Held(q) : q \in Calls}
  IN  ((CronFiles \X Defs) \cup (Units \X {Whole})) \ atRisk \subseteq Known
=============================================================================
