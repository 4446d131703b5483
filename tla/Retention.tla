------------------------------ MODULE Retention ------------------------------
(***************************************************************************)
(* The audit of the reviews (services/review_audit.rs), its exports and    *)
(* its rotations (services/audit_retention.rs).  An export reads the rows  *)
(* in a transaction, writes a file and then a manifest; a rotation counts  *)
(* the rows out of the window, exports the oldest of them, writes an event *)
(* and a manifest of its own, and deletes nothing.  The database is locked *)
(* anew for each of these steps, and the application may die between them. *)
(***************************************************************************)
EXTENDS Naturals, FiniteSets

CONSTANTS Callers,   \* commands under way: audit_export, audit_rotate
          Ids,       \* event ids: random, so not in the order of time
          MaxAgeDays,    \* max_age_days of the policy
          MaxEvents, \* max_events of the policy
          MaxFiles,  \* bound: exports begun
          MaxTime    \* bound: days that pass

RetentionAssumption ==
  /\ {MaxAgeDays, MaxEvents, MaxFiles} \subseteq Nat /\ MaxTime \in Nat \ {0}
  /\ Ids \subseteq Nat /\ IsFiniteSet(Ids)

VARIABLES links,    \* review_audit_links: event id -> created_at, 0 if there is none
          orphans,  \* events of reviews whose link is not written yet
          sealing,  \* Callers -> where each command is
          files,    \* number of the file -> the rows in it
          manifest, \* audit_export_manifests
          sealed,   \* events audit.rotation.completed: the file each names
          now

vars == <<links, orphans, sealing, files, manifest, sealed, now>>

NoFile == [rows |-> {}, is |-> "none"]
Idle   == [pc |-> "idle", kind |-> "export", n |-> 0, rows |-> {}, file |-> 0]
Begun  == Cardinality({f \in 1 .. MaxFiles : files[f] # NoFile})
          + Cardinality({c \in Callers : sealing[c].pc \in {"export", "create"}})

Manifests == [kind : {"export", "rotation"}, rows : SUBSET Ids, file : 1 .. MaxFiles]

TypeOK ==
  /\ links \in [Ids -> 0 .. MaxTime] /\ orphans \subseteq Ids
  /\ sealing \in [Callers -> [pc : {"idle", "export", "create", "write", "manifest", "event", "seal"},
                              kind : {"export", "rotation"}, n : 0 .. Cardinality(Ids),
                              rows : SUBSET Ids, file : 0 .. MaxFiles]]
  /\ files \in [1 .. MaxFiles -> [rows : SUBSET Ids, is : {"none", "created", "whole"}]]
  /\ manifest \subseteq Manifests /\ sealed \subseteq 1 .. MaxFiles /\ now \in 1 .. MaxTime

Init ==
  /\ links = [i \in Ids |-> 0] /\ orphans = {}
  /\ sealing = [c \in Callers |-> Idle]
  /\ files = [f \in 1 .. MaxFiles |-> NoFile]
  /\ manifest = {} /\ sealed = {} /\ now = 1

Rows == {i \in Ids : links[i] # 0}

\* ORDER BY created_at, event_id.
Before(i, j) == links[i] < links[j] \/ (links[i] = links[j] /\ i < j)

Oldest(n) == {i \in Rows : Cardinality({j \in Rows : Before(j, i)}) < n}

IsOld(i) == links[i] + MaxAgeDays < now

Larger(a, b) == IF a > b THEN a ELSE b

\* Slip: the two excesses are added.
OutOfWindowSum ==
  Cardinality({i \in Rows : IsOld(i)})
    + (IF Cardinality(Rows) > MaxEvents THEN Cardinality(Rows) - MaxEvents ELSE 0)

\* out_of_window_count: the larger of the two excesses.
OutOfWindow ==
  Larger(Cardinality({i \in Rows : IsOld(i)}),
         IF Cardinality(Rows) > MaxEvents THEN Cardinality(Rows) - MaxEvents ELSE 0)

----------------------------------------------------------------------------
\* record: the event, then the row that links it to the review.

RecordEvent(i) ==
  /\ links[i] = 0 /\ i \notin orphans /\ orphans' = orphans \cup {i}
  /\ UNCHANGED <<links, sealing, files, manifest, sealed, now>>

RecordLink(i) ==
  /\ i \in orphans /\ orphans' = orphans \ {i}
  /\ links' = [links EXCEPT ![i] = now]
  /\ UNCHANGED <<sealing, files, manifest, sealed, now>>

----------------------------------------------------------------------------
\* audit_export and rotate_segment

Step(c, pc) == sealing' = [sealing EXCEPT ![c].pc = pc]

\* rotate_segment counts; audit_export has no count, it takes all.
Begin(c, kind) ==
  /\ sealing[c] = Idle /\ Begun < MaxFiles
  /\ sealing' = [sealing EXCEPT ![c] = [Idle EXCEPT !.pc = "export", !.kind = kind,
                     !.n = IF kind = "rotation" THEN OutOfWindow ELSE Cardinality(Ids)]]
  /\ UNCHANGED <<links, orphans, files, manifest, sealed, now>>

\* export_audit: the rows as they are now.
Read(c) ==
  /\ sealing[c].pc = "export"
  /\ sealing' = [sealing EXCEPT ![c].pc = "create", ![c].rows = Oldest(sealing[c].n)]
  /\ UNCHANGED <<links, orphans, files, manifest, sealed, now>>

\* Slip: the manifest is written first.
CreateLater(c) ==
  \E f \in {g \in 1 .. MaxFiles : files[g] = NoFile} :
    /\ sealing[c].pc = "create" /\ files' = [files EXCEPT ![f].is = "created"]
    /\ sealing' = [sealing EXCEPT ![c].pc = "manifest", ![c].file = f]
    /\ UNCHANGED <<links, orphans, manifest, sealed, now>>

\* write_new: a file no other export has, then its content.
Create(c) ==
  \E f \in {g \in 1 .. MaxFiles : files[g] = NoFile} :
    /\ sealing[c].pc = "create" /\ \A g \in 1 .. f - 1 : files[g] # NoFile
    /\ files' = [files EXCEPT ![f].is = "created"]
    /\ sealing' = [sealing EXCEPT ![c].pc = "write", ![c].file = f]
    /\ UNCHANGED <<links, orphans, manifest, sealed, now>>

Write(c) ==
  /\ sealing[c].pc = "write" /\ Step(c, "manifest")
  /\ files' = [files EXCEPT ![sealing[c].file] = [rows |-> sealing[c].rows, is |-> "whole"]]
  /\ UNCHANGED <<links, orphans, manifest, sealed, now>>

\* insert_manifest
Manifest(c, kind) == [kind |-> kind, rows |-> sealing[c].rows, file |-> sealing[c].file]

ExportManifest(c) ==
  /\ sealing[c].pc = "manifest" /\ manifest' = manifest \cup {Manifest(c, "export")}
  /\ sealing' = [sealing EXCEPT ![c] = IF @.kind = "export" THEN Idle ELSE [@ EXCEPT !.pc = "event"]]
  /\ UNCHANGED <<links, orphans, files, sealed, now>>

RotationEvent(c) ==
  /\ sealing[c].pc = "event" /\ Step(c, "seal")
  /\ sealed' = sealed \cup {sealing[c].file}
  /\ UNCHANGED <<links, orphans, files, manifest, now>>

RotationManifest(c) ==
  /\ sealing[c].pc = "seal" /\ manifest' = manifest \cup {Manifest(c, "rotation")}
  /\ sealing' = [sealing EXCEPT ![c] = Idle]
  /\ UNCHANGED <<links, orphans, files, sealed, now>>

\* The disk is full or the directory gone: the command ends with an error.
Fail(c) ==
  /\ sealing[c].pc \in {"create", "write"} /\ sealing' = [sealing EXCEPT ![c] = Idle]
  /\ UNCHANGED <<links, orphans, files, manifest, sealed, now>>

\* The application dies: commands and the links not written are lost.
Crash ==
  /\ sealing' = [c \in Callers |-> Idle] /\ orphans' = {}
  /\ (\E c \in Callers : sealing[c] # Idle) \/ orphans # {}
  /\ UNCHANGED <<links, files, manifest, sealed, now>>

Tick == now < MaxTime /\ now' = now + 1
        /\ UNCHANGED <<links, orphans, sealing, files, manifest, sealed>>

Next ==
  \/ \E i \in Ids : RecordEvent(i) \/ RecordLink(i)
  \/ \E c \in Callers :
       \/ \E kind \in {"export", "rotation"} : Begin(c, kind)
       \/ Read(c) \/ Create(c) \/ Write(c) \/ ExportManifest(c)
       \/ RotationEvent(c) \/ RotationManifest(c) \/ Fail(c)
  \/ Crash \/ Tick

Spec == Init /\ [][Next]_vars

----------------------------------------------------------------------------
(***************************************************************************)
(* A manifest is evidence: its file is whole and holds the rows the        *)
(* manifest counts, and a rotation's has its export and its event and      *)
(* seals no row that is inside the window, whatever was recorded between   *)
(* the count and the export, and wherever the application died (MED-7 of   *)
(* rotate_segment, HIGH-1 of write_new).                                   *)
(***************************************************************************)
InWindow(i) == ~IsOld(i) /\ Cardinality({j \in Rows : Before(i, j)}) < MaxEvents

ManifestIsEvidence ==
  \A m \in manifest :
    /\ files[m.file].is = "whole" /\ files[m.file].rows = m.rows
    /\ m.kind = "rotation" =>
         /\ [kind |-> "export", rows |-> m.rows, file |-> m.file] \in manifest
         /\ m.file \in sealed
         /\ \A i \in m.rows : ~InWindow(i)

=============================================================================
