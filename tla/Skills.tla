-------------------------------- MODULE Skills --------------------------------
(***************************************************************************)
(* One skill on disk and in the tables plugins and skill_versions: the     *)
(* import of the flat layout (skill_import.rs, skill_registry.rs) and the  *)
(* versioned update, roll-back and collection (skill_update.rs).  All of   *)
(* them hold one file lock, which goes with the process that holds it, so  *)
(* that there is one job at a time; it can fail or die between two steps.  *)
(*                                                                         *)
(* A version is known by the hash of its scripts, its text (SKILL.md) is   *)
(* not part of it.  recover_pending has no caller: after a crash there is  *)
(* what the next job finds.                                                *)
(***************************************************************************)
EXTENDS Naturals, Sequences, FiniteSets, SequencesExt

CONSTANTS Sources, \* directories a skill may be taken from
          Hash,    \* Sources -> the hash of their scripts
          Signed,  \* sources with a pinned key's signature
          Keep     \* versions kept besides the current one

SkillsAssumption == Signed \subseteq Sources /\ Keep \in Nat /\ "none" \notin Sources

None == "none"
Hashes == {Hash[s] : s \in Sources}
NoRow == [state |-> None, level |-> None, hash |-> None]
Idle == [op |-> "idle", pc |-> "idle", src |-> None, hash |-> None]

VARIABLES flat,    \* what was published as plugins/<name>, or None
          row,     \* the row of plugins
          dirs,    \* versions/<hash>: the source each directory was made from
          link,    \* current
          vrows,   \* skill_versions, oldest first
          job,     \* the import, update or roll-back under way
          edited,  \* directories whose scripts were changed from outside
          refused  \* the last import was told that the skill is installed

vars == <<flat, row, dirs, link, vrows, job, edited, refused>>

TypeOK ==
  /\ flat \in Sources \cup {None}
  /\ row \in [state : {None, "pending", "done"}, hash : Hashes \cup {None},
              level : {None, "verified", "sandboxed", "promoted"}]
  /\ \E D \in SUBSET Hashes : dirs \in [D -> Sources]
  /\ link \in Hashes \cup {None}
  /\ \A i \in DOMAIN vrows : vrows[i] \in [hash : Hashes, current : BOOLEAN]
  /\ edited \subseteq Hashes \cup {"flat"} /\ refused \in BOOLEAN

Init == /\ flat = None /\ row = NoRow /\ dirs = <<>> /\ link = None /\ vrows = <<>>
        /\ job = Idle /\ edited = {} /\ refused = FALSE

At(op, pc) == job.op = op /\ job.pc = pc
Goto(pc) == job' = [job EXCEPT !.pc = pc]

\* plugins/<name> is there, in either layout.
OnDisk == flat # None \/ dirs # <<>> \/ link # None

----------------------------------------------------------------------------
\* Import

\* Mutant: the directory is not looked at.
ImportUnseen(s) ==
  /\ job = Idle
  /\ refused' = FALSE
  /\ job' = [op |-> "import", pc |-> "begin", src |-> s, hash |-> Hash[s]]
  /\ UNCHANGED <<flat, row, dirs, link, vrows, edited>>

\* import_locked, up to the gate: a directory in the way refuses the import.
Import(s) ==
  /\ job = Idle
  /\ refused' = OnDisk
  /\ job' = IF OnDisk THEN Idle
            ELSE [op |-> "import", pc |-> "begin", src |-> s, hash |-> Hash[s]]
  /\ UNCHANGED <<flat, row, dirs, link, vrows, edited>>

\* begin_install: a pending row is left by a crash and is taken over.
BeginInstall ==
  /\ At("import", "begin")
  /\ \/ /\ row.state # "done"
        /\ row' = [state |-> "pending", level |-> row.level, hash |-> job.hash]
        /\ Goto("publish") /\ UNCHANGED refused
     \/ /\ row.state = "done"
        /\ refused' = TRUE
        /\ Goto("undo") /\ UNCHANGED row
  /\ UNCHANGED <<flat, dirs, link, vrows, edited>>

\* The staged tree becomes plugins/<name>.
Publish ==
  /\ At("import", "publish")
  /\ IF OnDisk THEN Goto("undo") /\ UNCHANGED <<flat, edited>>
     ELSE flat' = job.src /\ edited' = edited \ {"flat"} /\ Goto("finalize")
  /\ UNCHANGED <<row, dirs, link, vrows, refused>>

Level(s) == IF s \in Signed THEN "verified" ELSE "sandboxed"

\* finalize_install, once the published tree has its hash again.
FinalizeInstall ==
  /\ At("import", "finalize") /\ "flat" \notin edited
  /\ row' = [state |-> "done", level |-> Level(job.src), hash |-> job.hash]
  /\ job' = Idle
  /\ UNCHANGED <<flat, dirs, link, vrows, edited, refused>>

\* A step of the publication fails.
ImportFails ==
  /\ job.op = "import" /\ job.pc # "undo"
  /\ Goto("undo")
  /\ UNCHANGED <<flat, row, dirs, link, vrows, edited, refused>>

\* The inline roll-back: whatever is at plugins/<name>, and the pending row.
UndoImport ==
  /\ At("import", "undo")
  /\ flat' = None /\ dirs' = <<>> /\ link' = None
  /\ row' = IF row.state = "pending" THEN NoRow ELSE row
  /\ job' = Idle
  /\ UNCHANGED <<vrows, edited, refused>>

\* promote
Promote ==
  /\ job = Idle /\ row.level = "sandboxed"
  /\ row' = [row EXCEPT !.level = "promoted"]
  /\ UNCHANGED <<flat, dirs, link, vrows, job, edited, refused>>

\* plugins::set_enabled makes the row it does not find.
SetEnabled ==
  /\ job = Idle /\ row = NoRow
  /\ row' = [NoRow EXCEPT !.state = "done"]
  /\ UNCHANGED <<flat, dirs, link, vrows, job, edited, refused>>

----------------------------------------------------------------------------
\* Versions

\* stage_and_gate
Update(s) ==
  /\ job = Idle
  /\ job' = [op |-> "update", pc |-> "publish", src |-> s, hash |-> Hash[s]]
  /\ UNCHANGED <<flat, row, dirs, link, vrows, edited, refused>>

\* A directory of that hash is kept if its scripts still have it.
PublishVersion ==
  /\ At("update", "publish") /\ job.hash \notin (edited \cap DOMAIN dirs)
  /\ dirs' = [h \in DOMAIN dirs \cup {job.hash} |-> IF h \in DOMAIN dirs THEN dirs[h] ELSE job.src]
  /\ edited' = edited \ {job.hash}
  /\ Goto("point")
  /\ UNCHANGED <<flat, row, link, vrows, refused>>

\* Otherwise the directory goes, and the update with it.
PublishVersionFails ==
  /\ At("update", "publish")
  /\ job.hash \in edited \/ job.hash \notin DOMAIN dirs
  /\ dirs' = [h \in DOMAIN dirs \ {job.hash} |-> dirs[h]]
  /\ job' = Idle
  /\ UNCHANGED <<flat, row, link, vrows, edited, refused>>

\* rollback_skill: to a version that is recorded, on disk and unchanged.
RollBack(h) ==
  /\ job = Idle
  /\ h \in DOMAIN dirs \ edited
  /\ \E i \in DOMAIN vrows : vrows[i].hash = h
  /\ job' = [op |-> "rollback", pc |-> "point", src |-> None, hash |-> h]
  /\ UNCHANGED <<flat, row, dirs, link, vrows, edited, refused>>

\* atomic_point_current
PointCurrent ==
  /\ job.pc = "point"
  /\ link' = job.hash
  /\ Goto("record")
  /\ UNCHANGED <<flat, row, dirs, vrows, edited, refused>>

\* db_set_current_version
Recorded(h) == LET all == IF \E i \in DOMAIN vrows : vrows[i].hash = h THEN vrows
                          ELSE Append(vrows, [hash |-> h, current |-> FALSE])
               IN [i \in DOMAIN all |-> [hash |-> all[i].hash, current |-> all[i].hash = h]]

Record ==
  /\ job.pc = "record"
  /\ vrows' = Recorded(job.hash)
  /\ job' = IF job.op = "update" THEN [job EXCEPT !.pc = "gc"] ELSE Idle
  /\ UNCHANGED <<flat, row, dirs, link, edited, refused>>

\* Mutant: the oldest go, current or not.
GcVictimsByAge == {vrows[i].hash : i \in 1 .. Len(vrows) - Keep}

\* gc_versions: all but the newest of the versions that are not current, and
\* never what current points to.
GcVictims ==
  LET old == SelectSeq(vrows, LAMBDA v : ~v.current)
  IN {old[i].hash : i \in 1 .. Len(old) - Keep} \ {link}

\* The directories first, then the rows of those that went.
GcDirs ==
  /\ job.pc = "gc"
  /\ \E gone \in SUBSET GcVictims :
       /\ dirs' = [h \in DOMAIN dirs \ gone |-> dirs[h]]
       /\ vrows' = SelectSeq(vrows, LAMBDA v : v.hash \notin gone)
       /\ job' = Idle
  /\ UNCHANGED <<flat, row, link, edited, refused>>

\* ... unless the process died, or the table refused, in between.
GcHalf ==
  /\ job.pc = "gc"
  /\ dirs' = [h \in DOMAIN dirs \ GcVictims |-> dirs[h]]
  /\ job' = Idle
  /\ UNCHANGED <<flat, row, link, vrows, edited, refused>>

----------------------------------------------------------------------------
\* The process dies, or an update stops at a step that fails.
Crash ==
  /\ job # Idle
  /\ job' = Idle
  /\ UNCHANGED <<flat, row, dirs, link, vrows, edited, refused>>

\* The scripts are changed by another program.
Edit(d) ==
  /\ d \in DOMAIN dirs \cup {x \in {"flat"} : flat # None}
  /\ edited' = edited \cup {d}
  /\ UNCHANGED <<flat, row, dirs, link, vrows, job, refused>>

Next ==
  \/ \E s \in Sources : Import(s) \/ Update(s)
  \/ BeginInstall \/ Publish \/ FinalizeInstall \/ ImportFails \/ UndoImport
  \/ Promote \/ SetEnabled
  \/ PublishVersion \/ PublishVersionFails \/ PointCurrent \/ Record \/ GcDirs \/ GcHalf
  \/ \E h \in Hashes : RollBack(h)
  \/ Crash \/ \E d \in Hashes \cup {"flat"} : Edit(d)

Spec == Init /\ [][Next]_vars
----------------------------------------------------------------------------
\* What a skill is worth

\* Whatever fails or dies on the way, a finished installation has its tree on
\* disk, and current leads to a directory that is there.  (An update that finds
\* the directory of its hash changed removes it, current or not.)
InstalledIsWhole ==
  /\ row.level # None => flat # None /\ Hash[flat] = row.hash
  /\ link # None => link \in DOMAIN dirs \cup edited

\* skill_registry.rs: a pending row is left by a crash, and the next import
\* takes it over.  A crash between the rename and finalize_install leaves the
\* directory too, and that refuses every import to come.
CrashIsTakenOver == refused /\ flat # None => row.state = "done"
=============================================================================
