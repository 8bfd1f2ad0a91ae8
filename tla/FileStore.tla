------------------------------ MODULE FileStore ------------------------------
(***************************************************************************)
(* The file-backed stores of internal/storage/file.go: FileSMSStorage and  *)
(* FileReportStorage. Each keeps a map in memory, guarded by its own       *)
(* mutex, and one JSON file per entry. Every operation changes the map     *)
(* first and the file second, and os.WriteFile truncates the file before   *)
(* it writes; the process may die between any two of these steps, and the  *)
(* constructors then load what files can be parsed.                        *)
(*                                                                         *)
(* A crash is the death of the process: what the operating system was      *)
(* given stays. Nothing is synced, so a power failure is not covered.      *)
(***************************************************************************)
EXTENDS Naturals, FiniteSets

CONSTANTS
    SmsIDs,     \* message IDs, the keys of FileSMSStorage
    ReportIDs,  \* message IDs, the keys of FileReportStorage
    Texts,      \* contents of messages and reports
    Statuses,   \* message and report statuses
    NoEntry,    \* in place of a content: no map entry, or no file
    Torn,       \* in place of a content: a file truncated and not completely written
    MaxSkips    \* bound: intact files that cannot be read when the store is opened

ASSUME SkipsAssumption == MaxSkips \in Nat

VARIABLES
    entries,  \* FileSMSStorage.messages and FileReportStorage.reports
    files,    \* messages/<id>.json and reports/<id>.json
    op,       \* per store: what the holder of its mutex is doing, and on which key
    unsure,   \* history: keys whose last operation returned an error or was cut off
    skips     \* files skipped by loads so far

fileVars == <<entries, files, op, unsure, skips>>

Stores == {"sms", "report"}
SmsKeys == {<<"sms", i>> : i \in SmsIDs}
ReportKeys == {<<"report", i>> : i \in ReportIDs}
FileKeys == SmsKeys \cup ReportKeys
StoreOf(k) == k[1]

Contents == [text : Texts, status : Statuses]

ASSUME KeysAssumption == IsFiniteSet(FileKeys)
ASSUME MarksAssumption == NoEntry \notin Contents /\ Torn \notin Contents /\ NoEntry # Torn

\* op: "free" when the mutex is, else the next step of the operation that holds it.
Steps == {"free", "save", "write", "remove"}

FileInit ==
    /\ entries = [k \in FileKeys |-> NoEntry]
    /\ files = [k \in FileKeys |-> NoEntry]
    /\ op = [s \in Stores |-> [step |-> "free", key |-> {}]]
    /\ unsure = {}
    /\ skips = 0

Free(s) == op[s].step = "free"
Begin(k, step) == op' = [op EXCEPT ![StoreOf(k)] = [step |-> step, key |-> {k}]]
Finish(s) == op' = [op EXCEPT ![s] = [step |-> "free", key |-> {}]]

-----------------------------------------------------------------------------
(* Operations, up to the change of the map *)

\* The mutex is taken, the map entry changes, and the file comes next.
Change(k, v, step) ==
    /\ Free(StoreOf(k))
    /\ entries' = [entries EXCEPT ![k] = v]
    /\ unsure' = unsure \cup {k}
    /\ Begin(k, step)
    /\ UNCHANGED <<files, skips>>

\* StoreSMS adds or overwrites.
StoreSMS(k, v) == Change(k, v, "save")

\* UpdateSMS refuses an unknown ID.
UpdateSMS(k, v) == entries[k] # NoEntry /\ Change(k, v, "save")

\* UpdateSMSStatus changes the stored message in place.
UpdateSMSStatus(k, s) ==
    /\ entries[k] # NoEntry
    /\ Change(k, [entries[k] EXCEPT !.status = s], "save")

\* Fault (for StoreContract): DeleteSMS leaves the file to its next writer.
DeleteSMSFromMapOnly(k) ==
    /\ entries[k] # NoEntry /\ Free(StoreOf(k))
    /\ entries' = [entries EXCEPT ![k] = NoEntry]
    /\ UNCHANGED <<files, op, unsure, skips>>

\* DeleteSMS refuses an unknown ID, which includes one whose file was not loaded.
DeleteSMS(k) == entries[k] # NoEntry /\ Change(k, NoEntry, "remove")

StoreReport(k, v) == Change(k, v, "save")
DeleteReport(k) == entries[k] # NoEntry /\ Change(k, NoEntry, "remove")

-----------------------------------------------------------------------------
(* Operations, on the file *)

\* saveMessage and saveReport fail before the file is opened: the directory cannot be made,
\* the value not marshalled or the file not opened. The map keeps what is not on disk.
SaveFails(s) ==
    /\ op[s].step = "save"
    /\ Finish(s)
    /\ UNCHANGED <<entries, files, unsure, skips>>

\* os.WriteFile opens the file and truncates it.
Truncate(s) ==
    /\ op[s].step = "save"
    /\ \E k \in op[s].key :
         /\ files' = [files EXCEPT ![k] = Torn]
         /\ Begin(k, "write")
    /\ UNCHANGED <<entries, unsure, skips>>

\* All of the content is written and the operation returns without error.
WriteDone(s) ==
    /\ op[s].step = "write"
    /\ \E k \in op[s].key :
         /\ files' = [files EXCEPT ![k] = entries[k]]
         /\ unsure' = unsure \ {k}
    /\ Finish(s)
    /\ UNCHANGED <<entries, skips>>

\* Fault (for Durability): the error of the write is not returned.
WriteFailsSilently(s) ==
    /\ op[s].step = "write"
    /\ unsure' = unsure \ op[s].key
    /\ Finish(s)
    /\ UNCHANGED <<entries, files, skips>>

\* The write fails on the way; the error is returned and the rest of a file stays.
WriteFails(s) ==
    /\ op[s].step = "write"
    /\ Finish(s)
    /\ UNCHANGED <<entries, files, unsure, skips>>

\* os.Remove succeeds, or there was no file: both count as deleted.
RemoveDone(s) ==
    /\ op[s].step = "remove"
    /\ \E k \in op[s].key :
         /\ files' = [files EXCEPT ![k] = NoEntry]
         /\ unsure' = unsure \ {k}
    /\ Finish(s)
    /\ UNCHANGED <<entries, skips>>

\* os.Remove fails although there is a file; the error is returned and the file stays.
RemoveFails(s) ==
    /\ op[s].step = "remove"
    /\ \E k \in op[s].key : files[k] # NoEntry
    /\ Finish(s)
    /\ UNCHANGED <<entries, files, unsure, skips>>

-----------------------------------------------------------------------------
(* Crash and restart *)

\* loadMessage and loadReport: what a file yields; one that cannot be parsed is skipped.
Readable(f) == IF f = Torn THEN NoEntry ELSE f
OnDisk == [k \in FileKeys |-> Readable(files[k])]

\* The process dies with all its locks, at any step, and NewFileSMSStorage and
\* NewFileReportStorage load the files. A file that cannot be read is skipped with a warning.
CrashAndLoad ==
    \E skipped \in SUBSET {k \in FileKeys : OnDisk[k] # NoEntry} :
        /\ skips + Cardinality(skipped) <= MaxSkips
        /\ skips' = skips + Cardinality(skipped)
        /\ entries' = [k \in FileKeys |-> IF k \in skipped THEN NoEntry ELSE OnDisk[k]]
        /\ unsure' = skipped
        /\ op' = [s \in Stores |-> [step |-> "free", key |-> {}]]
        /\ UNCHANGED files

-----------------------------------------------------------------------------
FileNext ==
    \/ \E k \in SmsKeys, v \in Contents : StoreSMS(k, v) \/ UpdateSMS(k, v)
    \/ \E k \in SmsKeys, s \in Statuses : UpdateSMSStatus(k, s)
    \/ \E k \in SmsKeys : DeleteSMS(k)
    \/ \E k \in ReportKeys, v \in Contents : StoreReport(k, v)
    \/ \E k \in ReportKeys : DeleteReport(k)
    \/ \E s \in Stores :
         \/ SaveFails(s) \/ Truncate(s) \/ WriteDone(s) \/ WriteFails(s)
         \/ RemoveDone(s) \/ RemoveFails(s)
    \/ CrashAndLoad

FileSpec == FileInit /\ [][FileNext]_fileVars

-----------------------------------------------------------------------------
(* Properties *)

FileTypeOK ==
    /\ entries \in [FileKeys -> Contents \cup {NoEntry}]
    /\ files \in [FileKeys -> Contents \cup {NoEntry, Torn}]
    /\ op \in [Stores -> [step : Steps, key : SUBSET FileKeys]]
    /\ unsure \subseteq FileKeys
    /\ skips \in Nat

\* Whatever was acknowledged survives a crash at any later step, and so does every
\* acknowledged deletion: when the last operation on a key returned without error, what the
\* next start would load for it is what readers see, even while operations on other keys of
\* the same directory are torn (StoreSMS, UpdateSMSStatus and DeleteSMS of file.go).
Durability == \A k \in FileKeys : k \notin unsure => OnDisk[k] = entries[k]

Contract == INSTANCE DurableStore
    WITH Keys <- FileKeys, Values <- Contents, Absent <- NoEntry,
         seen <- entries, durable <- OnDisk

\* The two file stores together implement the durable store, torn writes, failed removals
\* and skipped files included: no start ever brings back a value that was not the last
\* acknowledged one or one attempted since, and a deleted entry stays deleted.
StoreContract == Contract!StoreSpec

=============================================================================
