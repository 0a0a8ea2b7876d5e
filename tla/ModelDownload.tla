----------------------------- MODULE ModelDownload -----------------------------
(***************************************************************************)
(* The download of one model from peers (ModelDistributor,                 *)
(* src/src/inference/distribution.rs), from start_download to the file     *)
(* that is offered to others.  Peers may announce different files under    *)
(* one name; a version stands for the metadata of one of them: its chunk   *)
(* hashes and the hash of the whole file.                                  *)
(***************************************************************************)
EXTENDS Naturals, FiniteSets

CONSTANTS
    Versions,
    Chunks,         \* of every version
    Drivers,        \* tasks that start and complete downloads
    None            \* no file, no chunk, no download

\* What a file holds: at each chunk the version it comes from, or a hole.
Files == [Chunks -> Versions \cup {None}]
Whole(v) == [c \in Chunks |-> v]
Holes == [c \in Chunks |-> None]

Downloads == [version : Versions, got : SUBSET Chunks]

DownloadAssumption ==
    /\ IsFiniteSet(Chunks) /\ Chunks # {}
    /\ None \notin Versions /\ None \notin Files /\ None \notin Downloads

VARIABLES
    pending,        \* the entry of pending_downloads
    partial,        \* the file in partial/
    final,          \* the file in the models directory
    available,      \* the entry of available_models
    at,             \* where each driver is
    works           \* the download it starts or completes

files == <<partial, final>>
drivers == <<at, works>>
vars == <<pending, files, available, drivers>>

Steps == {"out", "asked", "create", "insert", "read", "rename", "publish"}

Init ==
    /\ pending = None /\ partial = None
    /\ \E v \in Versions :
         \/ final = None /\ available = None
         \/ final = Whole(v) /\ available = v     \* scan_available_models
    /\ at = [d \in Drivers |-> "out"] /\ works = [d \in Drivers |-> None]

-------------------------------------------------------------------------------
(* start_download                                                          *)

Go(d, from, to) == at[d] = from /\ at' = [at EXCEPT ![d] = to]

New(v) == [version |-> v, got |-> {}]

AskAvailable(d, v) ==
    /\ Go(d, "out", IF available = None THEN "asked" ELSE "out")
    /\ works' = [works EXCEPT ![d] = IF available = None THEN New(v) ELSE @]
    /\ UNCHANGED <<pending, files, available>>

AskPending(d) ==
    /\ Go(d, "asked", IF pending = None THEN "create" ELSE "out")
    /\ UNCHANGED <<pending, files, available, works>>

\* create empties a file that is there; it and set_len may fail.
Create(d) ==
    /\ \/ partial' = Holes /\ Go(d, "create", "insert")
       \/ partial' \in {partial, Holes} /\ Go(d, "create", "out")
    /\ UNCHANGED <<pending, final, available, works>>

InsertPending(d) ==
    /\ Go(d, "insert", "out") /\ pending' = works[d]
    /\ UNCHANGED <<files, available, works>>

-------------------------------------------------------------------------------
(* write_chunk, cancel_download                                            *)

\* A chunk of another version fails the hash test; the same chunk may come
\* twice.  A write that fails may have left the chunk behind.
WriteChunk(c, v) ==
    /\ pending # None /\ partial # None
    /\ v = pending.version
    /\ \/ partial' = [partial EXCEPT ![c] = v] /\ pending' = [pending EXCEPT !.got = @ \cup {c}]
       \/ partial' \in {partial, [partial EXCEPT ![c] = v]} /\ UNCHANGED pending
    /\ UNCHANGED <<final, available, drivers>>

\* The lock on pending_downloads is held while the file is removed, which may fail.
Cancel ==
    /\ pending # None /\ pending' = None
    /\ partial' \in {None, partial}
    /\ UNCHANGED <<final, available, drivers>>

-------------------------------------------------------------------------------
(* complete_download                                                       *)

Complete == pending.got = Chunks

\* The entry goes first: an incomplete download is given up, its file stays.
Remove(d) ==
    /\ pending # None
    /\ Go(d, "out", IF Complete THEN "read" ELSE "out")
    /\ works' = [works EXCEPT ![d] = IF Complete THEN pending ELSE @]
    /\ pending' = None
    /\ UNCHANGED <<files, available>>

\* The file cannot be read, is another one, or is the one announced.
Verify(d) ==
    /\ \/ /\ Go(d, "read", "rename") /\ UNCHANGED partial
          /\ partial = Whole(works[d].version)
       \/ /\ Go(d, "read", "out")
          /\ partial # Whole(works[d].version)
          /\ partial' \in {None, partial}
       \/ Go(d, "read", "out") /\ UNCHANGED partial
    /\ UNCHANGED <<pending, final, available, works>>

Rename(d) ==
    /\ \/ /\ partial # None
          /\ Go(d, "rename", "publish")
          /\ final' = partial /\ partial' = None
       \/ Go(d, "rename", "out") /\ UNCHANGED files
    /\ UNCHANGED <<pending, available, works>>

Publish(d) ==
    /\ Go(d, "publish", "out") /\ available' = works[d].version
    /\ UNCHANGED <<pending, files, works>>

\* scan_available_models hashes what is in the directory.
Scan ==
    /\ available' \in {v \in Versions : final = Whole(v)}
    /\ UNCHANGED <<pending, files, drivers>>

-------------------------------------------------------------------------------

Drive(d) ==
    \/ \E v \in Versions : AskAvailable(d, v)
    \/ AskPending(d) \/ Create(d) \/ InsertPending(d)
    \/ Remove(d) \/ Verify(d) \/ Rename(d) \/ Publish(d)

Next ==
    \/ \E d \in Drivers : Drive(d)
    \/ \E c \in Chunks, v \in Versions : WriteChunk(c, v)
    \/ Cancel \/ Scan

Spec == Init /\ [][Next]_vars

-------------------------------------------------------------------------------
(* Properties                                                              *)

TypeOK ==
    /\ pending \in Downloads \cup {None}
    /\ partial \in Files \cup {None} /\ final \in Files \cup {None}
    /\ available \in Versions \cup {None}
    /\ at \in [Drivers -> Steps] /\ works \in [Drivers -> Downloads \cup {None}]

\* What is offered to other peers is a whole file of one version, the one whose
\* hashes are offered with it, however many times the download was given up,
\* cancelled, and started again for another version over what was left.  (One
\* driver: a second start between the hash test and the rename of another
\* driver would empty the file that is renamed.)
OfferedIsWhole == available # None => final = Whole(available)

\* A chunk marked as received is in the file: a download that is complete by
\* its marks passes the test of the whole file.
MarksAreWritten ==
    pending # None /\ partial # None =>
      \A c \in pending.got : partial[c] = pending.version

===============================================================================
