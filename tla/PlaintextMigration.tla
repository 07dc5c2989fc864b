------------------------- MODULE PlaintextMigration -------------------------
(***************************************************************************)
(* The command `lqs migrate-plaintext` (src/src/main.rs and                *)
(* migrate_plaintext_database of src/src/sqlite_lqs.rs) copies the file of *)
(* DatabaseOpening, while nobody has it open, to a new encrypted file.  It *)
(* can fail or die at every step; what it has written of the target stays. *)
(* Later a server opens the target, or a second attempt is made.           *)
(*                                                                         *)
(* sqlcipher_export belongs to SQLCipher: it creates the tables, then      *)
(* copies the rows of one table after the other.                           *)
(***************************************************************************)
EXTENDS DatabaseOpening

CONSTANTS
    Target,       \* paths of encrypted databases
    CipherKey,    \* the contents of key files, 32 to 128 bytes
    NoKey,
    MaxStartsBefore   \* bound: how often the source is opened before

VARIABLES
    targets,      \* Absent, or the key and content of the file at that path
    exporter      \* the command that is running

allVars == <<vars, targets, exporter>>

NotRunning == [at |-> "idle"]

Absent == [at |-> "nowhere"]

\* A new file has no bytes and no key; the first who opens it with a key
\* determines the key.
EmptyTarget == [key |-> NoKey, copied |-> {}, file |-> NewFile, inUse |-> FALSE]

Tables == {"queues", "messages", "keys", "security"}

ASSUME PlaintextMigrationAssumption ==
    NoKey \notin CipherKey /\ MaxStartsBefore \in Nat
-----------------------------------------------------------------------------
\* The target after the rows of these tables have been copied.
Copy(f, tables) ==
    [f EXCEPT !.queues = IF "queues" \in tables THEN @ ELSE {},
              !.oldWindows = IF "queues" \in tables THEN @ ELSE {},
              !.perGroup = IF "queues" \in tables THEN @ ELSE {},
              !.messages = IF "messages" \in tables THEN @ ELSE NoRows,
              !.keys = IF "keys" \in tables THEN @ ELSE {},
              !.security = IF "security" \in tables THEN @ ELSE NoRows]

\* What Lqs::open_encrypted makes of a file, when its references hold.
Opened(f) == Upgraded(WithBase(f))

\* open_keyed_connection: the key unlocks the file, or the file is still empty.
Unlocks(target, key) == target.key \in {key, NoKey}

\* The user has stopped the servers.
Stopped == \A p \in Process : pc[p] = "closed"

ExportInit ==
    /\ targets = [t \in Target |-> Absent]
    /\ exporter = NotRunning

\* Mutant: an existing file is truncated.
VacantAlways(t) == TRUE

\* OpenOptions::create_new
Vacant(t) == targets[t] = Absent

\* The source is there and is checkpointed, then the target is created.
CreateTarget(t, key) ==
    /\ Stopped /\ starts <= MaxStartsBefore /\ exporter = NotRunning
    /\ "base" \in file.features
    /\ Vacant(t)
    /\ targets' = [targets EXCEPT ![t] = EmptyTarget]
    /\ exporter' = [at |-> "created", target |-> t, key |-> key]
    /\ UNCHANGED vars

\* The connection to the target gets its key; the source is attached, and the
\* export creates the tables.
CreateTables ==
    LET t == exporter.target
    IN  /\ exporter.at = "created"
        /\ Unlocks(targets[t], exporter.key)
        /\ targets' = [targets EXCEPT
              ![t] = [@ EXCEPT !.key = exporter.key, !.file = Copy(file, {})]]
        /\ exporter' = [exporter EXCEPT !.at = "copying"]
        /\ UNCHANGED vars

CopyTable(table) ==
    LET t == exporter.target
        copied == targets[t].copied \cup {table}
    IN  /\ exporter.at = "copying"
        /\ table \notin targets[t].copied
        /\ targets' = [targets EXCEPT
              ![t] = [@ EXCEPT !.copied = copied, !.file = Copy(file, copied)]]
        /\ UNCHANGED <<vars, exporter>>

\* Mutant: an error of the export is not looked at.
CopyEndsAnyhow(t) == TRUE

CopyEnds(t) == targets[t].copied = Tables

ExportReturns ==
    /\ exporter.at = "copying"
    /\ CopyEnds(exporter.target)
    /\ exporter' = [exporter EXCEPT !.at = "copied"]
    /\ UNCHANGED <<vars, targets>>

\* The command opens the target as a server would, and reports success.
OpenCopy ==
    LET t == exporter.target
    IN  /\ exporter.at = "copied"
        /\ ReferencesHold(Opened(targets[t].file))
        /\ targets' = [targets EXCEPT ![t].file = Opened(@)]
        /\ exporter' = [exporter EXCEPT !.at = "done"]
        /\ UNCHANGED vars

\* The command ends: it has succeeded, failed (a full disk, references that do
\* not hold) or been killed.
ExporterEnds ==
    /\ exporter # NotRunning
    /\ exporter' = NotRunning
    /\ UNCHANGED <<vars, targets>>

\* ensure_private_database_file creates the file that is not there.
FileAt(t) == IF targets[t] = Absent THEN EmptyTarget ELSE targets[t]

\* Lqs::open_encrypted by a server.
Serve(t, key) ==
    LET f == FileAt(t).file
    IN  /\ Stopped /\ starts <= MaxStartsBefore /\ exporter = NotRunning
        /\ Unlocks(FileAt(t), key)
        /\ ReferencesHold(Opened(f))
        /\ targets' = [targets EXCEPT ![t] =
              [FileAt(t) EXCEPT !.key = key, !.file = Opened(f), !.inUse = TRUE]]
        /\ UNCHANGED <<vars, exporter>>

Export ==
    \/ \E t \in Target, key \in CipherKey : CreateTarget(t, key) \/ Serve(t, key)
    \/ CreateTables \/ (\E table \in Tables : CopyTable(table))
    \/ ExportReturns \/ OpenCopy \/ ExporterEnds

\* Once there is a target, the source is not opened any more (a bound: neither
\* depends on the other from then on).
SourceInUse == targets = [t \in Target |-> Absent]

FilesInit == Init /\ ExportInit
FilesNext ==
    \/ SourceInUse /\ Next /\ UNCHANGED <<targets, exporter>>
    \/ Export

FilesSpec ==
    /\ FilesInit /\ [][FilesNext]_allVars
    /\ \A p \in Process : WF_vars(Migrate(p))
-----------------------------------------------------------------------------
(* The file, the targets, the processes and the command have their types;  *)
(* a row has a value in a column exactly when its table has the column.    *)
FilesTypeOK ==
    /\ OpeningTypeOK
    /\ targets = [t \in Target |-> targets[t]]
    /\ \A t \in Target : targets[t] = Absent \/
        /\ targets[t] = [key |-> targets[t].key, copied |-> targets[t].copied,
                         file |-> targets[t].file, inUse |-> targets[t].inUse]
        /\ targets[t].key \in CipherKey \cup {NoKey}
        /\ targets[t].copied \subseteq Tables
        /\ IsFile(targets[t].file)
        /\ targets[t].inUse \in BOOLEAN
    /\ exporter = NotRunning \/
        exporter \in [at : {"created", "copying", "copied", "done"},
                      target : Target, key : CipherKey]

(* A command that reports success has left a target with its key that      *)
(* holds everything of the source, brought to the present schema, whatever *)
(* earlier attempts left at other paths                                    *)
(* (migrate_plaintext_database, sqlite_lqs.rs:400-432).                    *)
ExportComplete ==
    exporter.at = "done" =>
        targets[exporter.target] =
            [key |-> exporter.key, copied |-> Tables, file |-> Opened(file), inUse |-> FALSE]

\* A target that is finished or served keeps its key and content.
FinishedKept ==
    \A t \in Target :
        targets[t] # Absent /\ (targets[t].inUse \/ targets[t].copied = Tables) =>
            /\ targets'[t].key = targets[t].key
            /\ targets'[t].file \in {targets[t].file, Opened(targets[t].file)}

(* No later attempt touches a database that a server has used or a command *)
(* has finished: it keeps its key and its content (docs/compatibility.md:  *)
(* 215).                                                                   *)
TargetsKept == [][FinishedKept]_allVars

(* What a server serves is whole: OpenMeansMigrated, and an encrypted file *)
(* in use has this release's schema and holds its references, even if a    *)
(* command left it half written: a copy of messages without their queues   *)
(* is refused (foreign_key_check, sqlite_lqs.rs:857-864).                  *)
ServedFilesWhole ==
    /\ OpenMeansMigrated
    /\ \A t \in Target : targets[t] # Absent /\ targets[t].inUse =>
        Migrated(targets[t].file) /\ ReferencesHold(targets[t].file)

\* What a running command has left of its target so far.
LeftByCommand(target) ==
    LET left(tables, f) == [key |-> exporter.key, copied |-> tables, file |-> f,
                            inUse |-> FALSE]
    IN  /\ exporter.at = "created" => target = EmptyTarget
        /\ exporter.at = "copying"
           => target = left(target.copied, Copy(file, target.copied))
        /\ exporter.at = "copied" => target = left(Tables, Copy(file, Tables))
        /\ exporter.at = "done" => target = left(Tables, Opened(file))

(* While a command runs, its target is a function of the source and of the *)
(* tables copied, and of the files at other paths those that anybody has   *)
(* written to have a key: the inductive invariant behind ExportComplete,   *)
(* TargetsKept and ServedFilesWhole.                                       *)
ExportInv ==
    /\ FilesTypeOK
    /\ \A t \in Target : targets[t] # Absent =>
        /\ SoundFile(targets[t].file)
        /\ targets[t].key = NoKey => targets[t].copied = {} /\ ~targets[t].inUse
        /\ targets[t].inUse => Migrated(targets[t].file) /\ ReferencesHold(targets[t].file)
    /\ exporter # NotRunning =>
        /\ "base" \in file.features
        /\ targets[exporter.target] # Absent
        /\ LeftByCommand(targets[exporter.target])
=============================================================================
