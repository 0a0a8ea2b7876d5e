------------------------------ MODULE VectorStore ------------------------------
(***************************************************************************)
(* One collection of a vector store with storage (src/src/vector/mod.rs),  *)
(* used by several threads: it is created, deleted and created again while *)
(* points are put into it and taken out.  Every change saves the whole     *)
(* collection, by way of one temporary file.                               *)
(*                                                                         *)
(* A collection that was looked up is held by reference (Arc), so one that *)
(* was deleted may still be in use.  A vector is its dimension.  HNSW,     *)
(* BM25 and the search are vectX's.                                        *)
(***************************************************************************)
EXTENDS Naturals

CONSTANTS
    Threads, Points, Dims,
    MaxCreated,         \* bound on the collections ever made
    Torn,               \* a file whose text is no snapshot
    None

VectorAssumption ==
    /\ Dims \subseteq Nat /\ MaxCreated \in Nat
    /\ Torn \notin {None} \cup [dim : Dims, points : SUBSET (Points \X Dims)]

VARIABLES
    heap,               \* collections ever made: their dimension and points
    named,              \* the collection that has the name, or None
    file,               \* the saved snapshot, or None
    temp,               \* the temporary file
    op,                 \* what each thread is doing
    crossed             \* a save opened the temporary file during another

vars == <<heap, named, file, temp, op, crossed>>

Idle == [step |-> "idle"]
Kinds == {"upsert", "remove"}

Collection(d) == [dim |-> d, points |-> {}]
Next1 == CHOOSE n \in 1..MaxCreated : n \notin DOMAIN heap /\ \A m \in DOMAIN heap : m < n
With(c) == [n \in DOMAIN heap \cup {Next1} |-> IF n = Next1 THEN c ELSE heap[n]]
Free == \E n \in 1..MaxCreated : n \notin DOMAIN heap

Init ==
    /\ heap = [n \in {} |-> Collection(0)]
    /\ named = None /\ file = None /\ temp = None
    /\ op = [t \in Threads |-> Idle] /\ crossed = FALSE

At(t, step) == op[t].step = step
Goes(t, next) == op' = [op EXCEPT ![t] = next]
Saving == [step |-> "save"]

\* create_collection_with_dim, and get_or_create_collection when there is none.
Create(t, d) ==
    /\ At(t, "idle") /\ named = None /\ Free
    /\ heap' = With(Collection(d)) /\ named' = Next1
    /\ Goes(t, Saving)
    /\ UNCHANGED <<file, temp, crossed>>

\* upsert and delete look the collection up.
Begin(t, k, p, d) ==
    /\ At(t, "idle") /\ named # None
    /\ Goes(t, [step |-> k, col |-> named, point |-> p, dim |-> d])
    /\ UNCHANGED <<heap, named, file, temp, crossed>>

\* The dimension is compared with the one of the collection that was found.
Put(points, p, d) == {x \in points : x[1] # p} \cup {<<p, d>>}

Upsert(t) ==
    LET o == op[t]
    IN  /\ At(t, "upsert")
        /\ IF o.dim = heap[o.col].dim
           THEN /\ heap' = [heap EXCEPT ![o.col].points = Put(@, o.point, o.dim)]
                /\ Goes(t, Saving)
           ELSE Goes(t, Idle) /\ UNCHANGED heap
        /\ UNCHANGED <<named, file, temp, crossed>>

Remove(t) ==
    LET o == op[t]
    IN  /\ At(t, "remove")
        /\ heap' = [heap EXCEPT ![o.col].points = {x \in @ : x[1] # o.point}]
        /\ Goes(t, Saving)
        /\ UNCHANGED <<named, file, temp, crossed>>

\* save_collection: the snapshot is of what has the name now.
Snapshot(t) ==
    /\ At(t, "save")
    /\ Goes(t, IF named = None THEN Idle ELSE [step |-> "write", snap |-> heap[named]])
    /\ UNCHANGED <<heap, named, file, temp, crossed>>

\* std::fs::write opens the temporary file and empties it, though another save
\* may be writing it, or be about to rename it ...
OnTemp(t) == At(t, "fill") /\ op[t].in = "temp"
Write(t) ==
    /\ At(t, "write")
    /\ temp' = Torn
    /\ op' = [s \in Threads |->
                IF s = t THEN [step |-> "fill", snap |-> op[t].snap, in |-> "temp",
                               shared |-> \E u \in Threads : OnTemp(u)]
                ELSE IF OnTemp(s) THEN [op[s] EXCEPT !.shared = TRUE] ELSE op[s]]
    /\ crossed' = (crossed \/ \E s \in Threads \ {t} : At(s, "fill") \/ At(s, "rename"))
    /\ UNCHANGED <<heap, named, file>>

\* ... and writes to the file it opened, wherever that was renamed to; where two
\* write to one file, a rest of the longer text may stay behind the shorter.
Fill(t) ==
    /\ At(t, "fill")
    /\ \E text \in {op[t].snap} \cup (IF op[t].shared THEN {Torn} ELSE {}) :
         /\ temp' = IF op[t].in = "temp" THEN text ELSE temp
         /\ file' = IF op[t].in = "file" THEN text ELSE file
    /\ Goes(t, [step |-> "rename"])
    /\ UNCHANGED <<heap, named, crossed>>

\* Who writes keeps the file it opened: in its place, or replaced and gone.
Moved(o, to) ==
    IF o.step # "fill" \/ (o.in = "temp" /\ to = "gone") THEN o
    ELSE [o EXCEPT !.in = IF @ = "temp" THEN to ELSE "gone"]

\* The rename of a file that another thread renamed fails.
Rename(t) ==
    /\ At(t, "rename")
    /\ IF temp = None THEN Goes(t, Idle) /\ UNCHANGED <<file, temp>>
       ELSE /\ file' = temp /\ temp' = None
            /\ op' = [s \in Threads |-> IF s = t THEN Idle ELSE Moved(op[s], "file")]
    /\ UNCHANGED <<heap, named, crossed>>

DeleteCollection(t) ==
    /\ At(t, "idle") /\ named # None
    /\ named' = None
    /\ Goes(t, [step |-> "unlink"])
    /\ UNCHANGED <<heap, file, temp, crossed>>

Unlink(t) ==
    /\ At(t, "unlink")
    /\ file' = None
    /\ op' = [s \in Threads |-> IF s = t THEN Idle ELSE Moved(op[s], "gone")]
    /\ UNCHANGED <<heap, named, temp, crossed>>

\* The process ends and loads what was saved; the temporary file is not
\* looked at.  With a file that cannot be read the store is not opened.
Restart ==
    /\ file \notin {None, Torn} => Free
    /\ op' = [t \in Threads |-> IF file = Torn THEN [step |-> "closed"] ELSE Idle]
    /\ IF file \in {None, Torn} THEN named' = None /\ UNCHANGED heap
       ELSE heap' = With(file) /\ named' = Next1
    /\ UNCHANGED <<file, temp, crossed>>

Next ==
    \/ \E t \in Threads :
          \/ \E d \in Dims : Create(t, d)
          \/ \E k \in Kinds, p \in Points, d \in Dims : Begin(t, k, p, d)
          \/ Upsert(t) \/ Remove(t) \/ Snapshot(t) \/ Write(t) \/ Fill(t)
          \/ Rename(t)
          \/ DeleteCollection(t) \/ Unlink(t)
    \/ Restart

Spec == Init /\ [][Next]_vars

-------------------------------------------------------------------------------
(* Properties                                                              *)

Fits(c) == \A x \in c.points : x[2] = c.dim

\* Every vector of a collection, in memory or saved, has its dimension, though
\* the collection may be replaced by one of another dimension while a vector
\* is on its way.
DimensionsAgree ==
    /\ \A n \in DOMAIN heap : Fits(heap[n])
    /\ \A f \in {file, temp} \ {None, Torn} : Fits(f)

\* A crash in the middle of a save leaves the file of the collection as it was
\* before or whole and new, unless two saves used the temporary file at once
\* (save_collection: "an atomic JSON write").
SavedWhole == ~crossed => file # Torn

===============================================================================
