------------------------------ MODULE StoreFile ------------------------------
(***************************************************************************)
(* A file that is replaced as a whole: storeFile and its recovery          *)
(* (slib/slib.go), which keep the send queue, the configuration, the tags, *)
(* tabs, notices, presence and ping drafts, and the states of the clients. *)
(* The callers hold a lock, so that there is one writer and no reader      *)
(* while it writes.                                                        *)
(*                                                                         *)
(* The value is written to a temporary file, the directory is synced, the  *)
(* old file is removed and the temporary file renamed; the directory is    *)
(* not synced again.  At the start of the service a temporary file is      *)
(* taken for the file if there is no file, else removed.                   *)
(*                                                                         *)
(* The changes of a directory reach the disk in their order (a journal),   *)
(* and all of them by syncDir at the latest: a power failure leaves the    *)
(* directory as it was at some moment since the last syncDir.              *)
(***************************************************************************)
CONSTANTS
    Value,      \* values of the file
    Empty,      \* the file a new service has (a symbolic link to nothing)
    None        \* no file of that name

ASSUME NoneAssumption == None \notin [val: Value \cup {Empty}, whole: BOOLEAN]

VARIABLES
    dir,        \* the files "path" and "tmp", each a content or None
    may,        \* states of the directory a power failure may leave
    pc          \* where storeFile or the recovery is

vars == <<dir, may, pc>>

Content(v, whole) == [val |-> v, whole |-> whole]

Init ==
    /\ dir = [path |-> Content(Empty, TRUE), tmp |-> None]
    /\ may = {dir}
    /\ pc = "idle"

\* A change of the directory, not yet on the disk for certain.
Change(d) == dir' = d /\ may' = may \cup {d}

\* writeJsonFile: a new file, O_EXCL, then its data, then Sync.
Create(v) ==
    /\ pc = "idle" /\ dir.tmp = None
    /\ Change([dir EXCEPT !.tmp = Content(v, FALSE)])
    /\ pc' = "created"

\* The data of the new file is on the disk, under whatever names it has there.
Completed(d) ==
    IF d.tmp = dir.tmp THEN [d EXCEPT !.tmp = Content(dir.tmp.val, TRUE)] ELSE d
WriteData ==
    /\ pc = "created" /\ pc' = "written"
    /\ dir' = Completed(dir) /\ may' = {Completed(d) : d \in may}

\* Mutant: the directory is not synced.
SyncDir_Not == pc = "written" /\ pc' = "synced" /\ UNCHANGED <<dir, may>>

SyncDir ==
    /\ pc = "written" /\ pc' = "synced"
    /\ may' = {dir} /\ UNCHANGED dir

\* Mutant: the file is removed before the new data is written.
RemovePath_Early ==
    /\ pc = "created" /\ pc' = "removed"
    /\ Change([dir EXCEPT !.path = None])

RemovePath ==
    /\ pc = "synced" /\ pc' = "removed"
    /\ Change([dir EXCEPT !.path = None])

Rename ==
    /\ pc = "removed" /\ pc' = "idle"
    /\ Change([path |-> dir.tmp, tmp |-> None])

\* An error before the file is removed: the temporary file is removed, and the
\* callers end the process.
Fail ==
    /\ pc \in {"created", "written", "synced"} /\ pc' = "down"
    /\ Change([dir EXCEPT !.tmp = None])

\* The process ends at any point; a failed rename ends it as well.
Kill == pc' = "down" /\ UNCHANGED <<dir, may>>

PowerLoss == pc' = "down" /\ dir' \in may /\ may' = {dir'}

\* renameRemove: a link that exists already is as good as a new one.
LinkTemp ==
    /\ pc = "down" /\ dir.tmp # None /\ pc' = "linked"
    /\ IF dir.path = None THEN Change([dir EXCEPT !.path = dir.tmp])
       ELSE UNCHANGED <<dir, may>>
RemoveTemp ==
    /\ pc = "linked" /\ pc' = "idle"
    /\ Change([dir EXCEPT !.tmp = None])
NoTemp == pc = "down" /\ dir.tmp = None /\ pc' = "idle" /\ UNCHANGED <<dir, may>>

Next ==
    \/ \E v \in Value : Create(v)
    \/ WriteData \/ SyncDir \/ RemovePath \/ Rename
    \/ Fail \/ Kill \/ PowerLoss
    \/ LinkTemp \/ RemoveTemp \/ NoTemp

Spec == Init /\ [][Next]_vars

-----------------------------------------------------------------------------
(* Properties. *)

Contents == [val: Value \cup {Empty}, whole: BOOLEAN]
Dirs == [path: Contents \cup {None}, tmp: Contents \cup {None}]

\* Types; a new temporary file never meets an old one.
TypeOK ==
    /\ dir \in Dirs /\ may \subseteq Dirs /\ dir \in may
    /\ pc \in {"idle", "created", "written", "synced", "removed", "down", "linked"}
    /\ pc = "idle" => dir.tmp = None
    /\ pc \in {"created", "written", "synced", "removed", "linked"} => dir.tmp # None

\* What the recovery makes of a directory.
Recovered(d) == IF d.path = None THEN d.tmp ELSE d.path

\* Whatever the directory is found to be, now or after a power failure, the file
\* or the temporary file that replaces it is complete: no half-written value is
\* ever read, and no value is lost.
Sound(d) == Recovered(d) # None /\ Recovered(d).whole
AlwaysWhole == \A d \in may : Sound(d)

\* storeFile implements AtomicFile: a crash of the process keeps the last value,
\* a power failure at worst the one before.
Abstract == INSTANCE AtomicFile WITH
    val <- Recovered(dir).val,
    back <- {Recovered(d).val : d \in may}
ImplementsFile == Abstract!Spec
=============================================================================
