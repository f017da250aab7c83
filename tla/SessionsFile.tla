----------------------------- MODULE SessionsFile -----------------------------
(***************************************************************************)
(* sessions.json on its file system: RegistryStore::persist and load        *)
(* (registry/store.rs), write_sessions_atomic (state.rs), and what a killed *)
(* daemon or a power loss leaves.  Snapshots are numbered in the order in   *)
(* which the state manager hands them to persist, one at a time.            *)
(*                                                                         *)
(* The directory entry and the file data are cached by the kernel and reach *)
(* the disk on fsync, or earlier, independently of each other.              *)
(***************************************************************************)
EXTENDS Naturals

CONSTANTS
    MaxPersists,  \* bound on the number of persists
    Torn          \* contents that are no snapshot

ASSUME FileConstants == MaxPersists \in Nat /\ Torn \notin Nat

VARIABLES
    up,       \* the daemon is running
    mem,      \* the snapshot that matches the registry
    pc,       \* where the persist under way stands
    tmp,      \* the temporary file
    entry,    \* the file at the path, as the kernel shows it
    on_disk,  \* the file at the path, as the disk has it
    version,  \* snapshots handed to persist so far
    acked     \* history: the last snapshot whose persist returned Ok

vars == <<up, mem, pc, tmp, entry, on_disk, version, acked>>

File(data, synced) == [data |-> data, synced |-> synced]

\* The file a power loss makes of one: unsynced data may be lost.
Survivors(f) == IF f.synced THEN {f} ELSE {File(f.data, TRUE), File(Torn, TRUE)}

\* Before a first start: snapshot 0 is the empty registry of a missing file.
Init ==
    /\ up = FALSE /\ mem = 0 /\ pc = "idle"
    /\ tmp = File(Torn, FALSE)
    /\ entry = File(0, TRUE) /\ on_disk = File(0, TRUE)
    /\ version = 0 /\ acked = 0

At(from) == up /\ pc = from

\* The registry changed: persist_async, up to the new temporary file.
PersistBegins ==
    /\ At("idle") /\ version < MaxPersists
    /\ version' = version + 1
    /\ mem' = version + 1
    /\ tmp' = File(Torn, FALSE)
    /\ pc' = "write"
    /\ UNCHANGED <<up, entry, on_disk, acked>>

WriteAll ==
    /\ At("write")
    /\ tmp' = File(mem, FALSE)
    /\ pc' = "sync"
    /\ UNCHANGED <<up, mem, entry, on_disk, version, acked>>

Synced == File(tmp.data, TRUE)

\* sync_all on the temporary file.
SyncFile ==
    /\ At("sync")
    /\ tmp' = Synced
    /\ pc' = "rename"
    /\ UNCHANGED <<up, mem, entry, on_disk, version, acked>>

\* NamedTempFile::persist: the rename, seen at once by every process.
Rename ==
    /\ At("rename")
    /\ entry' = tmp
    /\ pc' = "syncdir"
    /\ UNCHANGED <<up, mem, tmp, on_disk, version, acked>>

\* Mutant: persist returns after the rename.
DirectoryUnsynced == on_disk

DirectorySynced == entry

\* sync_all on the parent directory; persist returns Ok.
SyncDir ==
    /\ At("syncdir")
    /\ on_disk' = DirectorySynced
    /\ acked' = mem
    /\ pc' = "idle"
    /\ UNCHANGED <<up, mem, tmp, entry, version>>

\* Any of these calls may fail.  persist returns Err, which is logged; the
\* registry stays ahead of the file.
PersistFails ==
    /\ up /\ pc # "idle"
    /\ pc' = "idle"
    /\ UNCHANGED <<up, mem, tmp, entry, on_disk, version, acked>>

\* The kernel writes the directory back by itself.
Writeback ==
    /\ on_disk # entry
    /\ on_disk' = entry
    /\ UNCHANGED <<up, mem, pc, tmp, entry, version, acked>>

Killed ==
    /\ up
    /\ up' = FALSE /\ pc' = "idle"
    /\ UNCHANGED <<mem, tmp, entry, on_disk, version, acked>>

PowerLoss ==
    /\ up' = FALSE /\ pc' = "idle"
    /\ entry' \in Survivors(entry) \cup Survivors(on_disk)
    /\ on_disk' = entry'
    /\ UNCHANGED <<mem, tmp, version, acked>>

\* load: a file that does not parse counts as an empty registry.
Loaded(f) == IF f.data = Torn THEN 0 ELSE f.data

\* run_async: so does one that could not be read (unwrap_or_default).
Start ==
    /\ ~up
    /\ up' = TRUE
    /\ \/ mem' = Loaded(entry)
       \/ mem' = 0
    /\ UNCHANGED <<pc, tmp, entry, on_disk, version, acked>>

Next ==
    \/ PersistBegins \/ WriteAll \/ SyncFile \/ Rename \/ SyncDir \/ PersistFails
    \/ Writeback \/ Killed \/ PowerLoss \/ Start

Spec == Init /\ [][Next]_vars

-----------------------------------------------------------------------------

\* However the daemon or the host went down, the file holds a whole snapshot,
\* and none older than the last one persist returned Ok for: the order write,
\* fsync, rename, fsync of the directory in persist.
RestartFindsLastPersist ==
    \A f \in Survivors(entry) \cup Survivors(on_disk) : f.data \in acked .. version

\* The strengthening that is inductive: the file at the path was synced before
\* it got there, and each step of a persist has what the ones before it left.
FileInv ==
    /\ version \in Nat /\ mem \in 0 .. version /\ acked \in 0 .. version
    /\ \A f \in {entry, on_disk} : f.synced = TRUE /\ f.data \in acked .. version
    /\ pc # "idle" => up = TRUE /\ mem = version
    /\ pc = "sync" => tmp = File(mem, FALSE)
    /\ pc = "rename" => tmp = File(mem, TRUE)
    /\ pc = "syncdir" => entry = File(mem, TRUE)

=============================================================================
