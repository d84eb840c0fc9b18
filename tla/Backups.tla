------------------------------- MODULE Backups -------------------------------
(***************************************************************************)
(* The dumps of the database and their metadata files (backup.service.ts): *)
(* creating, validating, restoring and cleaning up, each a row of commands *)
(* on files that nothing joins, any of which may fail or be the last.      *)
(***************************************************************************)
CONSTANTS Backups, Jobs, None

VARIABLES
    dump,           \* "absent", "partial", "whole" or "damaged"
    metadata,       \* None, or the checksum in it and whether it was validated
    old,            \* backups beyond the days of retention
    restored,       \* what pg_restore was given
    job             \* the requests at work

backupVars == <<dump, metadata, old, restored, job>>
-----------------------------------------------------------------------------
Content == {"partial", "whole", "damaged"}

\* calculateChecksum: "" where sha256sum failed.
Checksums == Content \cup {""}

Idle == [at |-> "idle", backup |-> None, read |-> None, checksum |-> "", restores |-> FALSE]

At(j, step) == job[j].at = step

Ends(j) == job' = [job EXCEPT ![j] = Idle]

Exists(b) == dump[b] # "absent"

Checksum(b) == IF Exists(b) THEN {dump[b], ""} ELSE {""}
-----------------------------------------------------------------------------
\* createBackup: pg_dump to a name that is new ...
StartBackup(j, b) ==
    /\ At(j, "idle") /\ dump[b] = "absent" /\ metadata[b] = None /\ b \notin old
    /\ dump' = [dump EXCEPT ![b] = "partial"]
    /\ job' = [job EXCEPT ![j] = [Idle EXCEPT !.at = "dump", !.backup = b]]
    /\ UNCHANGED <<metadata, old, restored>>

EndDump(j) ==
    /\ At(j, "dump")
    /\ dump' = [dump EXCEPT ![job[j].backup] = "whole"]
    /\ job' = [job EXCEPT ![j].at = "dumped"]
    /\ UNCHANGED <<metadata, old, restored>>

\* Mutant: the command is not waited for.
DumpStarted(j) == job[j].at \in {"dump", "dumped"}

DumpEnded(j) == At(j, "dumped")

\* ... its checksum, and the metadata of a completed backup.
SumBackup(j) ==
    /\ DumpEnded(j)
    /\ Exists(job[j].backup)
    /\ \E sum \in Checksum(job[j].backup) :
          job' = [job EXCEPT ![j].at = "summed", ![j].checksum = sum]
    /\ UNCHANGED <<dump, metadata, old, restored>>

RecordBackup(j) ==
    /\ At(j, "summed")
    /\ metadata' = [metadata EXCEPT ![job[j].backup] = [checksum |-> job[j].checksum, validated |-> FALSE]]
    /\ Ends(j)
    /\ UNCHANGED <<dump, old, restored>>

\* validateBackup, alone or as the first thing restoreBackup does.
ReadMetadata(j, b, restores) ==
    /\ At(j, "idle") /\ Exists(b) /\ metadata[b] # None
    /\ job' = [job EXCEPT ![j] =
          [Idle EXCEPT !.at = "read", !.backup = b, !.read = metadata[b], !.restores = restores]]
    /\ UNCHANGED <<dump, metadata, old, restored>>

CompareChecksum(j) ==
    /\ At(j, "read")
    /\ job[j].read.checksum \in Checksum(job[j].backup)
    /\ job' = [job EXCEPT ![j].at = "matched"]
    /\ UNCHANGED <<dump, metadata, old, restored>>

\* pg_restore -l reads the table of contents only, which is there before the data.
ListArchive(j) ==
    /\ At(j, "matched") /\ Exists(job[j].backup)
    /\ job' = [job EXCEPT ![j].at = "valid"]
    /\ UNCHANGED <<dump, metadata, old, restored>>

\* The metadata is written again as it was read, and marked.  It is valid
\* even where that fails.
WriteValidated(j) ==
    /\ At(j, "valid")
    /\ \/ metadata' = [metadata EXCEPT ![job[j].backup] = [job[j].read EXCEPT !.validated = TRUE]]
       \/ UNCHANGED metadata
    /\ IF job[j].restores THEN job' = [job EXCEPT ![j].at = "restore"] ELSE Ends(j)
    /\ UNCHANGED <<dump, old, restored>>

Restore(j) ==
    /\ At(j, "restore") /\ Exists(job[j].backup)
    /\ restored' = restored \cup {dump[job[j].backup]}
    /\ Ends(j)
    /\ UNCHANGED <<dump, metadata, old>>

\* cleanupOldBackups: each old dump, and then its metadata.
UnlinkDump(j, b) ==
    /\ At(j, "idle") /\ b \in old /\ Exists(b)
    /\ dump' = [dump EXCEPT ![b] = "absent"]
    /\ job' = [job EXCEPT ![j] = [Idle EXCEPT !.at = "unlink", !.backup = b]]
    /\ UNCHANGED <<metadata, old, restored>>

UnlinkMetadata(j) ==
    /\ At(j, "unlink")
    /\ metadata' = [metadata EXCEPT ![job[j].backup] = None]
    /\ Ends(j)
    /\ UNCHANGED <<dump, old, restored>>

\* A command that fails, a check that is not passed, or a process that dies.
Fail(j) == ~At(j, "idle") /\ Ends(j) /\ UNCHANGED <<dump, metadata, old, restored>>

\* The days of retention pass; no dump takes as long.
GetOld(b) ==
    /\ Exists(b) /\ b \notin old
    /\ \A j \in Jobs : job[j].backup = b => job[j].at \notin {"dump", "dumped", "summed"}
    /\ old' = old \cup {b}
    /\ UNCHANGED <<dump, metadata, restored, job>>

\* The disk.
Damage(b) ==
    /\ dump[b] = "whole"
    /\ dump' = [dump EXCEPT ![b] = "damaged"]
    /\ UNCHANGED <<metadata, old, restored, job>>
-----------------------------------------------------------------------------
Init ==
    /\ dump = [b \in Backups |-> "absent"]
    /\ metadata = [b \in Backups |-> None]
    /\ old = {}
    /\ restored = {}
    /\ job = [j \in Jobs |-> Idle]

Next ==
    \/ \E j \in Jobs :
          \/ \E b \in Backups : \/ StartBackup(j, b) \/ UnlinkDump(j, b)
                                \/ \E restores \in BOOLEAN : ReadMetadata(j, b, restores)
          \/ EndDump(j) \/ SumBackup(j) \/ RecordBackup(j) \/ CompareChecksum(j) \/ ListArchive(j)
          \/ WriteValidated(j) \/ Restore(j) \/ UnlinkMetadata(j) \/ Fail(j)
    \/ \E b \in Backups : GetOld(b) \/ Damage(b)

Spec == Init /\ [][Next]_backupVars
-----------------------------------------------------------------------------
(*                               Properties                                *)

TypeOK ==
    /\ dump \in [Backups -> Content \cup {"absent"}]
    /\ metadata \in [Backups -> [checksum : Checksums, validated : BOOLEAN] \cup {None}]
    /\ old \subseteq Backups /\ restored \subseteq Content
    /\ \A j \in Jobs : job[j].checksum \in Checksums /\ job[j].backup \in Backups \cup {None}

\* Whatever is interrupted, what is restored is a dump that was completed: one
\* that broke off has no metadata, and none that is left over fits it.
RestoredWasComplete == "partial" \notin restored
=============================================================================
