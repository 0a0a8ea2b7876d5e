------------------------------- MODULE ModelShelf -------------------------------
(***************************************************************************)
(* The directory of models: downloads from the web page                    *)
(* (web/mod.rs: api_models_download) and from the command line             *)
(* (cli/models.rs: download_model, remove_model), which write straight to  *)
(* the file that scans look at (models_hf.rs: download_url_to_path;        *)
(* inference/mod.rs: scan_models).  Each download is made once.  A file is *)
(* known by the download that created it: a later one that opens it cuts   *)
(* it and writes into the same file, and whoever has it open goes on       *)
(* writing after it was removed.                                           *)
(***************************************************************************)
EXTENDS Naturals, Sequences, FiniteSets

CONSTANTS
    Names,          \* of files
    Downloads, Web, \* those that the web page asked for
    Versions,       \* what is behind an address; custom addresses may give any name
    Length,         \* pieces of every version
    None

ShelfAssumption ==
    /\ Web \subseteq Downloads /\ None \notin Versions \cup Downloads
    /\ Length \in Nat \ {0}

VARIABLES
    shelf,          \* the file behind each name, or None
    data,           \* the pieces in each file
    at,             \* where each download is
    name, version,  \* what it downloads
    file,           \* the file it writes
    written,        \* the pieces it has written
    registry,       \* the registered models: the pieces a scan saw
    met,            \* history: pairs of downloads under way at the same time
    removed         \* history: files that were removed

vars == <<shelf, data, at, name, version, file, written, registry, met, removed>>

Whole(v) == [i \in 1 .. Length |-> v]

Init ==
    /\ shelf = [n \in Names |-> None] /\ data = [f \in Downloads |-> <<>>]
    /\ at = [d \in Downloads |-> "new"]
    /\ name = [d \in Downloads |-> None] /\ version = [d \in Downloads |-> None]
    /\ file = [d \in Downloads |-> None] /\ written = [d \in Downloads |-> 0]
    /\ registry = [n \in Names |-> None]
    /\ met = {} /\ removed = {}

UnderWay == {d \in Downloads : at[d] \in {"asked", "open", "scan"}}
Go(d, from, to) == at[d] = from /\ at' = [at EXCEPT ![d] = to]

-------------------------------------------------------------------------------
(* Downloads                                                               *)

\* dest.exists(): what is there is not downloaded, whole or not.
Ask(d, n, v) ==
    /\ Go(d, "new", IF shelf[n] = None THEN "asked" ELSE "refused")
    /\ name' = [name EXCEPT ![d] = n] /\ version' = [version EXCEPT ![d] = v]
    /\ met' = met \cup {{d, e} : e \in UnderWay}
    /\ UNCHANGED <<shelf, data, file, written, registry, removed>>

\* The server has answered: File::create, which cuts what is there by now.
Create(d) ==
    /\ Go(d, "asked", "open")
    /\ LET f == IF shelf[name[d]] = None THEN d ELSE shelf[name[d]]
       IN  /\ file' = [file EXCEPT ![d] = f]
           /\ data' = [data EXCEPT ![f] = <<>>]
           /\ shelf' = [shelf EXCEPT ![name[d]] = f]
    /\ UNCHANGED <<name, version, written, registry, met, removed>>

\* A write at a place: what is left out before it is a hole.
WriteAt(pieces, i, v) ==
    [j \in 1 .. (IF i > Len(pieces) THEN i ELSE Len(pieces)) |->
       IF j = i THEN v ELSE IF j <= Len(pieces) THEN pieces[j] ELSE None]

Piece(d) ==
    /\ at[d] = "open" /\ written[d] < Length
    /\ written' = [written EXCEPT ![d] = @ + 1]
    /\ data' = [data EXCEPT ![file[d]] = WriteAt(@, written[d] + 1, version[d])]
    /\ UNCHANGED <<shelf, at, name, version, file, registry, met, removed>>

\* The end of the stream, flushed; the web page scans before it answers.
Complete(d) ==
    /\ written[d] = Length /\ Go(d, "open", IF d \in Web THEN "scan" ELSE "ok")
    /\ UNCHANGED <<shelf, data, name, version, file, written, registry, met, removed>>

\* No answer, an error in the stream or of the disk, 7200 seconds, a client
\* that has left, the end of the process: what was written stays.
Fail(d) ==
    /\ at[d] \in {"asked", "open"} /\ at' = [at EXCEPT ![d] = "failed"]
    /\ UNCHANGED <<shelf, data, name, version, file, written, registry, met, removed>>

-------------------------------------------------------------------------------
(* Scans and removals                                                      *)

\* Everything in the directory is registered, and nothing is taken back.
Seen == [n \in Names |-> IF shelf[n] = None THEN registry[n] ELSE Len(data[shelf[n]])]

ScanAfter(d) ==
    /\ Go(d, "scan", "ok") /\ registry' = Seen
    /\ UNCHANGED <<shelf, data, name, version, file, written, met, removed>>

\* peerclaw models remove, after the question.
Remove(n) ==
    /\ shelf[n] # None
    /\ removed' = removed \cup {shelf[n]} /\ shelf' = [shelf EXCEPT ![n] = None]
    /\ UNCHANGED <<data, at, name, version, file, written, registry, met>>

\* The node starts again: a new registry, and a scan of what is there.
Restart ==
    /\ registry' = [n \in Names |-> IF shelf[n] = None THEN None ELSE Len(data[shelf[n]])]
    /\ at' = [d \in Downloads |-> IF d \in Web /\ d \in UnderWay THEN "failed" ELSE at[d]]
    /\ UNCHANGED <<shelf, data, name, version, file, written, met, removed>>

Next ==
    \/ Restart \/ \E n \in Names : Remove(n)
    \/ \E d \in Downloads :
         \/ \E n \in Names, v \in Versions : Ask(d, n, v)
         \/ Create(d) \/ Piece(d) \/ Complete(d) \/ Fail(d) \/ ScanAfter(d)

Spec == Init /\ [][Next]_vars

-------------------------------------------------------------------------------
(* Properties                                                              *)

Alone(d) == \A e \in Downloads \ {d} : {d, e} \notin met
Finished == {d \in Downloads : at[d] \in {"scan", "ok"}}

\* A download that was reported as successful, and met no other one, has left
\* the whole file of its address under its name until it is removed: neither a
\* later download nor one that failed touches it (api_models_download,
\* download_model, download_url_to_path).
SuccessIsWhole ==
    \A d \in Finished : Alone(d) =>
      /\ data[file[d]] = Whole(version[d])
      /\ file[d] \in removed \/ shelf[name[d]] = file[d]

\* Two downloads write into one file only when they were under way at once.
WritersMet ==
    \A d, e \in Downloads : d # e /\ file[d] # None /\ file[d] = file[e] => {d, e} \in met

\* A model that was downloaded from the page and met no other download is
\* registered with its size before the page is told so, unless it was removed
\* meanwhile (scan_models).
SuccessIsRegistered ==
    \A d \in Web : at[d] = "ok" /\ Alone(d) =>
      file[d] \in removed \/ registry[name[d]] = Length

===============================================================================
