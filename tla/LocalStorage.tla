---------------------------- MODULE LocalStorage ----------------------------
(***************************************************************************)
(* internal/logprocessor/local_storage.go: the directory that API and      *)
(* worker processes share for input and result files. Every concurrent     *)
(* call of Put, Open (with the reads that follow) and Delete is a          *)
(* process; the file system below is the environment.                      *)
(*                                                                         *)
(* Each Put writes an inode of its own, so an inode is named by the Put    *)
(* that created it. What the page cache holds (written, objects) may be    *)
(* ahead of what is on disk (synced, persisted).                           *)
(*                                                                         *)
(* The module justifies the sets "files" and "results" of JobSubmission    *)
(* and QueueWorker, in which an object is there completely or not at all.  *)
(***************************************************************************)
EXTENDS Naturals

CONSTANTS
    Puts, Gets, Deletes,    \* the calls
    Keys,                   \* storage keys validateStorageKey accepts
    None,                   \* no object
    Size,                   \* reads a content takes (localCopyBufferSize each)
    Faults                  \* "kill", "power", "remove" (os.Remove errs)

Calls == Puts \union Gets \union Deletes

ASSUME StorageAssumption ==
    /\ Puts \intersect Gets = {} /\ Puts \intersect Deletes = {} /\ Gets \intersect Deletes = {}
    /\ None \notin Puts
    /\ Size \in Nat \ {0}
    /\ Faults \subseteq {"kill", "power", "remove"}

VARIABLES
    pc,                 \* pc[c]: where the call is, or how it ended
    key,                \* key[p]: the key a Put writes to
    temps,              \* inodes that have a temporary name
    written,            \* written[p]: how much of p's inode is in the cache
    synced,             \* synced[p]: how much of it is on disk for certain
    objects,            \* objects[k]: the inode the name k stands for
    persisted,          \* persisted[k]: the entries the disk may hold for k
    handle,             \* handle[g]: the inode a reader has open
    got                 \* got[g]: how much it has read

vars == <<pc, key, temps, written, synced, objects, persisted, handle, got>>
fileVars == <<temps, written, synced, objects, persisted>>
readVars == <<handle, got>>

\* Where a Put has a temporary file it has to get rid of.
Holding == {"copy", "sync", "close", "rename", "abort"}
Active == Holding \union {"create", "read"}
Ended == {"done", "failed", "leaked", "eof", "dead"}

TypeOK ==
    /\ pc \in [Calls -> {"idle"} \union Active \union Ended]
    /\ key \in [Puts -> Keys]
    /\ temps \in SUBSET Puts
    /\ written \in [Puts -> 0 .. Size]
    /\ synced \in [Puts -> 0 .. Size]
    /\ objects \in [Keys -> Puts \union {None}]
    /\ persisted \in [Keys -> SUBSET (Puts \union {None})]
    /\ handle \in [Gets -> Puts \union {None}]
    /\ got \in [Gets -> 0 .. Size]

Init ==
    /\ pc = [c \in Calls |-> "idle"]
    /\ key \in [Puts -> Keys]
    /\ temps = {}
    /\ written = [p \in Puts |-> 0]
    /\ synced = [p \in Puts |-> 0]
    /\ objects = [k \in Keys |-> None]
    /\ persisted = [k \in Keys |-> {None}]
    /\ handle = [g \in Gets |-> None]
    /\ got = [g \in Gets |-> 0]

Goto(c, place) == pc' = [pc EXCEPT ![c] = place] /\ UNCHANGED key

\* A directory entry changes in the cache; the disk follows when it will.
Enter(k, entry) ==
    /\ objects' = [objects EXCEPT ![k] = entry]
    /\ persisted' = [persisted EXCEPT ![k] = @ \union {entry}]

-----------------------------------------------------------------------------
(* Put                                                                     *)

\* Context and key are checked, the directory exists.
StartPut(p) ==
    /\ pc[p] = "idle"
    /\ Goto(p, "create")
    /\ UNCHANGED <<fileVars, readVars>>

\* Variant: the content is written under the key itself.
CreateInPlace(p) ==
    /\ pc[p] = "create"
    /\ Goto(p, "copy")
    /\ Enter(key[p], p)
    /\ UNCHANGED <<temps, written, synced, readVars>>

\* os.CreateTemp in the directory of the object.
Create(p) ==
    /\ pc[p] = "create"
    /\ Goto(p, "copy")
    /\ temps' = temps \union {p}
    /\ UNCHANGED <<written, synced, objects, persisted, readVars>>

\* An error or a cancellation before there is a temporary file.
CreateFails(p) ==
    /\ pc[p] = "create"
    /\ Goto(p, "failed")
    /\ UNCHANGED <<fileVars, readVars>>

\* copyWithContext: one turn of its loop.
Copy(p) ==
    /\ pc[p] = "copy"
    /\ IF written[p] < Size
       THEN /\ written' = [written EXCEPT ![p] = @ + 1]
            /\ UNCHANGED <<pc, key>>
       ELSE Goto(p, "sync") /\ UNCHANGED written
    /\ UNCHANGED <<temps, synced, objects, persisted, readVars>>

\* Variant: the temporary file is not synced.
SyncSkipped(p) ==
    /\ pc[p] = "sync"
    /\ Goto(p, "close")
    /\ UNCHANGED <<fileVars, readVars>>

Sync(p) ==
    /\ pc[p] = "sync"
    /\ synced' = [synced EXCEPT ![p] = written[p]]
    /\ Goto(p, "close")
    /\ UNCHANGED <<temps, written, objects, persisted, readVars>>

\* Close, then the last context check before the rename.
Close(p) ==
    /\ pc[p] = "close"
    /\ Goto(p, "rename")
    /\ UNCHANGED <<fileVars, readVars>>

Rename(p) ==
    /\ pc[p] = "rename"
    /\ Enter(key[p], p)
    /\ temps' = temps \ {p}
    /\ Goto(p, "done")
    /\ UNCHANGED <<written, synced, readVars>>

\* Variant: the error is returned without removing the temporary file.
FailReturns(p) ==
    /\ pc[p] \in Holding \ {"abort"}
    /\ Goto(p, "failed")
    /\ UNCHANGED <<fileVars, readVars>>

\* The source, the file system or a context check ends the call early.
Fail(p) ==
    /\ pc[p] \in Holding \ {"abort"}
    /\ Goto(p, "abort")
    /\ UNCHANGED <<fileVars, readVars>>

\* The deferred Close and Remove of a Put that did not commit; an error of
\* Remove is ignored.
Abort(p) ==
    /\ pc[p] = "abort"
    /\ \/ Goto(p, "failed") /\ temps' = temps \ {p}
       \/ "remove" \in Faults /\ Goto(p, "leaked") /\ UNCHANGED temps
    /\ UNCHANGED <<written, synced, objects, persisted, readVars>>

-----------------------------------------------------------------------------
(* Open and the reads of its caller, Delete                                *)

Open(g, k) ==
    /\ pc[g] = "idle"
    /\ IF objects[k] = None
       THEN Goto(g, "failed") /\ UNCHANGED handle
       ELSE Goto(g, "read") /\ handle' = [handle EXCEPT ![g] = objects[k]]
    /\ UNCHANGED <<fileVars, got>>

\* The open file is the inode: renames and removals do not reach it.
Read(g) ==
    /\ pc[g] = "read"
    /\ IF got[g] < written[handle[g]]
       THEN got' = [got EXCEPT ![g] = @ + 1] /\ UNCHANGED <<pc, key>>
       ELSE Goto(g, "eof") /\ UNCHANGED got
    /\ UNCHANGED <<fileVars, handle>>

ReadFails(g) ==
    /\ pc[g] = "read"
    /\ Goto(g, "failed")
    /\ UNCHANGED <<fileVars, readVars>>

\* A missing object is already clean.
Delete(d, k) ==
    /\ pc[d] = "idle"
    /\ \/ Goto(d, "done") /\ Enter(k, None)
       \/ Goto(d, "failed") /\ UNCHANGED <<objects, persisted>>
    /\ UNCHANGED <<temps, written, synced, readVars>>

-----------------------------------------------------------------------------
(* The environment                                                         *)

\* The process of a call dies; whatever it has done so far stays.
Kill(c) ==
    /\ "kill" \in Faults
    /\ pc[c] \in Active
    /\ Goto(c, "dead")
    /\ UNCHANGED <<fileVars, readVars>>

\* The kernel writes the directory entry of k back.
WriteBack(k) ==
    /\ persisted' = [persisted EXCEPT ![k] = {objects[k]}]
    /\ UNCHANGED <<pc, key, temps, written, synced, objects, readVars>>

\* The machine stops: what was not synced may be lost, and a rename that was
\* not written back leaves the entry, and the temporary name, it replaced.
PowerLoss ==
    /\ "power" \in Faults
    /\ pc' = [c \in Calls |-> IF pc[c] = "idle" THEN "idle" ELSE "dead"]
    /\ objects' \in {o \in [Keys -> Puts \union {None}] : \A k \in Keys : o[k] \in persisted[k]}
    /\ written' \in {w \in [Puts -> 0 .. Size] :
                        \A p \in Puts : synced[p] <= w[p] /\ w[p] <= written[p]}
    /\ temps' \in SUBSET (Puts \intersect (temps \union UNION {persisted[k] : k \in Keys}))
    /\ persisted' = [k \in Keys |-> {objects'[k]}]
    /\ synced' = written'
    /\ UNCHANGED <<key, handle, got>>

Next ==
    \/ \E p \in Puts :
        \/ StartPut(p) \/ Create(p) \/ CreateFails(p) \/ Copy(p) \/ Sync(p)
        \/ Close(p) \/ Rename(p) \/ Fail(p) \/ Abort(p)
    \/ \E g \in Gets : (\E k \in Keys : Open(g, k)) \/ Read(g) \/ ReadFails(g)
    \/ \E d \in Deletes, k \in Keys : Delete(d, k)
    \/ \E c \in Calls : Kill(c)
    \/ \E k \in Keys : WriteBack(k)
    \/ PowerLoss

Spec == Init /\ [][Next]_vars

-----------------------------------------------------------------------------
\* A name never stands for a partial content: not while a Put runs, fails, is
\* cancelled or killed, nor after the machine stopped (Sync before Rename).
NoTornObject ==
    \A k \in Keys : objects[k] # None => written[objects[k]] = Size

\* A reader that reaches the end of its file has read one Put's whole content,
\* although other calls may replace or delete the object meanwhile.
WholeReads == \A g \in Gets : pc[g] = "eof" => got[g] = Size

\* A temporary file outlives its Put only when its process died or its removal
\* failed (the deferred cleanup of Put).
TemporariesAreOwned ==
    \A p \in temps : pc[p] \in Holding \union {"dead", "leaked"}

\* Why: an inode is complete and synced before any name can stand for it, even
\* a name the disk still remembers, and a name it keeps while it is open.
StorageInv ==
    /\ TypeOK
    /\ \A p \in Puts :
        /\ synced[p] <= written[p]
        /\ pc[p] \in {"sync", "close", "rename"} => written[p] = Size
        /\ pc[p] \in {"close", "rename"} => synced[p] = Size
        /\ pc[p] \in {"idle", "create"} => written[p] = 0
    /\ \A k \in Keys :
        /\ objects[k] \in persisted[k]
        /\ \A p \in persisted[k] \ {None} : synced[p] = Size
    /\ \A g \in Gets :
        pc[g] \in {"read", "eof"} => handle[g] # None /\ written[handle[g]] = Size
    /\ NoTornObject
    /\ WholeReads
    /\ TemporariesAreOwned
=============================================================================
