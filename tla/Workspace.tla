----------------------------- MODULE Workspace -----------------------------
(***************************************************************************)
(* One workspace directory: its advisory lock, its two store files, and    *)
(* the processes that open, delete, re-embed or import it.                 *)
(* (infrastructure/database.rs, application/migrations.rs,                 *)
(* application/reembed.rs, application/workspace.rs, and the workspace     *)
(* commands of interfaces/cli.rs.)                                         *)
(*                                                                         *)
(* Files are inodes: a name can be removed, and given to a new file, while *)
(* processes still hold the old one.  Each action is one file-system call, *)
(* one statement or one transaction.                                       *)
(***************************************************************************)
EXTENDS Integers, FiniteSets

CONSTANTS
    Procs,         \* processes (servers and command lines)
    Models,        \* embedding models a process may be configured with
    Dim,           \* Dim[m]: the dimension of its vectors
    Unknown,       \* the model that made an old store's unrecorded vectors
    None,
    Latest,        \* STM_SCHEMA_VERSION, LTM_SCHEMA_VERSION
    Stores,        \* what the directory may hold at first, or be imported
    Ops,           \* which of "serve", "delete", "reembed", "import" may run
    MaxInodes,     \* bound: files ever created
    MaxJobs,       \* bound: commands run
    MaxCrashes     \* bound: crashes, failed embeddings, damaged copies

VARIABLES
    there,         \* does the directory exist
    lockFile,      \* the inode named .lock, 0 if none
    file,          \* per kind, the inode named stm.sqlite, ltm.sqlite, or 0
    content,       \* per inode of a store, what it holds
    inodes,        \* the last inode given
    held,          \* per process, the advisory lock it holds
    conn,          \* per process and kind, the inode it is connected to, or 0
    pc, job,       \* per process, where it is and what it is doing
    backups,       \* snapshots taken: <<inode, version>>
    crossed,       \* history: a command met a directory that was coming or going
    jobs, crashes

disk == <<there, lockFile, file, content, inodes>>
vars == <<disk, held, conn, pc, job, backups, crossed, jobs, crashes>>

Kinds == {"stm", "ltm"}
Free == [ino |-> 0, mode |-> "none"]
NoJob == [op |-> "none", model |-> None]
NoConn == [k \in Kinds |-> 0]

\* kind "none": no tables yet.  whole: a complete copy, not one under way.
Store == [version : 0..Latest + 1, kind : Kinds \cup {"none"}, whole : BOOLEAN,
          model : Models \cup {None}, dim : Nat, table : Nat,
          vecs : SUBSET (Models \cup {Unknown})]
Blank == [version |-> 0, kind |-> "none", whole |-> TRUE, model |-> None, dim |-> 0,
          table |-> 0, vecs |-> {}]

\* What every release leaves in a store: the model of its vectors, or no model
\* and vectors nobody can attribute.
Honest(c) ==
    IF c.dim = 0 THEN c.vecs \subseteq {Unknown}
    ELSE /\ c.model \in Models /\ c.dim = Dim[c.model] /\ c.table = c.dim
         /\ c.vecs \subseteq {c.model, Unknown}

ASSUME WorkspaceConstants ==
    /\ None \notin Models /\ Unknown \notin Models
    /\ Dim \in [Models -> Nat \ {0}]
    /\ Latest \in Nat \ {0}
    /\ Stores \subseteq [Kinds -> Store] /\ \A s \in Stores, k \in Kinds : Honest(s[k])
    /\ Ops \subseteq {"serve", "delete", "reembed", "import"}
    /\ {MaxInodes, MaxJobs, MaxCrashes} \subseteq Nat /\ MaxInodes >= 3

-----------------------------------------------------------------------------
Goto(p, where, what) == /\ pc' = [pc EXCEPT ![p] = where]
                        /\ job' = [job EXCEPT ![p] = what]
At(p, where) == pc[p] = where /\ UNCHANGED jobs
Me(p) == job[p].model
Kind(p) == job[p].kind
Ino(p) == conn[p][Kind(p)]
Here(p) == content[Ino(p)]
NewIno == inodes + 1
With(i, c) == [j \in DOMAIN content \cup {i} |-> IF j = i THEN c ELSE content[j]]

\* Ending, in success or in error: connections and lock are dropped.
Release(p) == held' = [held EXCEPT ![p] = Free] /\ conn' = [conn EXCEPT ![p] = NoConn]
End(p) == Release(p) /\ Goto(p, "none", NoJob)
Kept == UNCHANGED <<held, conn>>
Still == UNCHANGED <<crossed, crashes>>

\* Someone is removing the directory, or copying files into it.
Unsettled(p) == \E q \in Procs \ {p} : pc[q] \in {"removing", "copy", "copying"}

Init ==
    /\ \/ /\ there = FALSE /\ lockFile = 0 /\ inodes = 0
          /\ file = NoConn /\ content = <<>>
       \/ /\ there = TRUE /\ lockFile = 1 /\ inodes = 3
          /\ file = [k \in Kinds |-> IF k = "stm" THEN 2 ELSE 3]
          /\ \E s \in Stores : content = [i \in {2, 3} |-> s[IF i = 2 THEN "stm" ELSE "ltm"]]
    /\ held = [p \in Procs |-> Free] /\ conn = [p \in Procs |-> NoConn]
    /\ pc = [p \in Procs |-> "none"] /\ job = [p \in Procs |-> NoJob]
    /\ backups = {} /\ crossed = FALSE /\ jobs = 0 /\ crashes = 0

-----------------------------------------------------------------------------
(***************************************************************************)
(* The advisory lock.                                                      *)
(***************************************************************************)
Begin(p, op, m, where) ==
    /\ op \in Ops /\ pc[p] = "none" /\ jobs < MaxJobs
    /\ jobs' = jobs + 1
    /\ Goto(p, where, [op |-> op, model |-> m, kind |-> "stm", fd |-> 0,
                       left |-> {}, source |-> None])
    /\ UNCHANGED <<disk, held, conn, backups>> /\ Still

\* A server opens its workspace, creating it on demand (open, start, switch).
Serve(p, m) == Begin(p, "serve", m, "dir")
\* workspace delete, reembed: the directory must exist.
Delete(p) == there /\ Begin(p, "delete", None, "lockFile")
Reembed(p, m) == there /\ Begin(p, "reembed", m, "lockFile")
\* workspace import: the directory must not exist.
Import(p, m) == ~there /\ Begin(p, "import", m, "copyDir")

MakeDir(p) ==
    /\ At(p, "dir")
    /\ there' = TRUE
    /\ Goto(p, "lockFile", job[p])
    /\ UNCHANGED <<lockFile, file, content, inodes, backups>> /\ Kept /\ Still

\* open_lock_file: opened, created if missing.
OpenLockFile(p) ==
    /\ At(p, "lockFile")
    /\ IF ~there
          THEN /\ End(p) /\ UNCHANGED <<lockFile, inodes, crossed>>
          ELSE /\ lockFile # 0 \/ inodes < MaxInodes
               /\ lockFile' = IF lockFile = 0 THEN NewIno ELSE lockFile
               /\ inodes' = IF lockFile = 0 THEN NewIno ELSE inodes
               /\ Goto(p, IF job[p].op \in {"delete", "reembed"} THEN "exclusive" ELSE "lease",
                       [job[p] EXCEPT !.fd = lockFile'])
               /\ crossed' = (crossed \/ Unsettled(p))
               /\ Kept
    /\ UNCHANGED <<there, file, content, backups, crashes>>

Holders(ino) == {q \in Procs : held[q].ino = ino}

MayLease(p) == \A q \in Holders(job[p].fd) : held[q].mode = "shared"

\* lease_workspace
Lease(p) ==
    /\ At(p, "lease")
    /\ IF MayLease(p)
          THEN /\ held' = [held EXCEPT ![p] = [ino |-> job[p].fd, mode |-> "shared"]]
               /\ Goto(p, "open", [job[p] EXCEPT !.kind = "stm"])
               /\ crossed' = (crossed \/ job[p].fd # lockFile)
               /\ UNCHANGED conn
          ELSE End(p) /\ UNCHANGED crossed
    /\ UNCHANGED <<disk, backups, crashes>>

\* Mutant: maintenance does not ask for the lock.
LockAlways(p) == TRUE
MayLock(p) == Holders(job[p].fd) = {}

\* lock_workspace_exclusive
LockExclusive(p) ==
    /\ At(p, "exclusive")
    /\ IF MayLock(p)
          THEN /\ held' = [held EXCEPT ![p] = [ino |-> job[p].fd, mode |-> "exclusive"]]
               /\ IF job[p].op = "delete"
                     THEN Goto(p, "removing",
                               [job[p] EXCEPT !.left = ({lockFile} \cup {file[k] : k \in Kinds}) \ {0}])
                     ELSE Goto(p, "open", job[p])
               /\ crossed' = (crossed \/ job[p].fd # lockFile)
               /\ UNCHANGED conn
          ELSE End(p) /\ UNCHANGED crossed
    /\ UNCHANGED <<disk, backups, crashes>>

-----------------------------------------------------------------------------
(***************************************************************************)
(* Deleting (remove_dir_all under the exclusive lock): the entries one by  *)
(* one, in any order, then the directory, if nothing has come into it.     *)
(***************************************************************************)
Unlink(p) ==
    /\ At(p, "removing")
    /\ \E i \in job[p].left :
          /\ lockFile' = IF lockFile = i THEN 0 ELSE lockFile
          /\ file' = [k \in Kinds |-> IF file[k] = i THEN 0 ELSE file[k]]
          /\ Goto(p, "removing", [job[p] EXCEPT !.left = @ \ {i}])
    /\ UNCHANGED <<there, content, inodes, backups>> /\ Kept /\ Still

RemoveDir(p) ==
    /\ At(p, "removing") /\ job[p].left = {}
    /\ there' = ~(lockFile = 0 /\ \A k \in Kinds : file[k] = 0)
    /\ End(p)
    /\ UNCHANGED <<lockFile, file, content, inodes, backups>> /\ Still

-----------------------------------------------------------------------------
(***************************************************************************)
(* Opening the two stores, one after the other (open_store, migrate_store, *)
(* check_embedding).  An error ends the command; an import also removes    *)
(* the directory it made.                                                  *)
(***************************************************************************)
Fail(p) == IF job[p].op = "import" THEN Goto(p, "discard", job[p]) /\ Kept ELSE End(p)

NextStore(p) ==
    IF Kind(p) = "stm" THEN Goto(p, "open", [job[p] EXCEPT !.kind = "ltm"]) /\ Kept
    ELSE IF job[p].op = "verify" THEN End(p)
    ELSE /\ Kept
         /\ Goto(p, CASE job[p].op = "serve"  -> "serving"
                      [] job[p].op = "import" -> "imported"
                      [] OTHER                -> "embed", job[p])

OpenFile(p) ==
    /\ At(p, "open")
    /\ IF ~there \/ (file[Kind(p)] = 0 /\ job[p].op = "reembed")
          THEN Fail(p) /\ UNCHANGED <<file, content, inodes>>
          ELSE LET missing == file[Kind(p)] = 0 IN
               /\ missing => inodes < MaxInodes
               /\ file' = IF missing THEN [file EXCEPT ![Kind(p)] = NewIno] ELSE file
               /\ content' = IF missing THEN With(NewIno, Blank) ELSE content
               /\ inodes' = IF missing THEN NewIno ELSE inodes
               /\ conn' = [conn EXCEPT ![p][Kind(p)] = file'[Kind(p)]]
               /\ Goto(p, "version", job[p])
               /\ UNCHANGED held
    /\ UNCHANGED <<there, lockFile, backups>> /\ Still

\* What follows once a store is at the latest version.
Migrated(p) ==
    CASE job[p].op = "reembed" -> Goto(p, "snapshot", job[p]) /\ Kept
      [] job[p].op = "import"  -> NextStore(p)
      [] OTHER                 -> Goto(p, "identity", job[p]) /\ Kept

\* The version and kind guards.
Supported(c) == c.version <= Latest

\* Mutant: a store that was never versioned is taken for a new one.
Versioned(c) == c.kind # "none" /\ c.version > 0
HasData(c) == c.kind # "none"

ReadVersion(p) ==
    /\ At(p, "version")
    /\ LET c == Here(p) IN
       IF ~c.whole \/ ~Supported(c) \/ c.kind \notin {"none", Kind(p)}
          THEN Fail(p)
       ELSE IF c.version >= Latest THEN Migrated(p)
       ELSE Goto(p, IF HasData(c) THEN "backup" ELSE "migrate", job[p]) /\ Kept
    /\ UNCHANGED <<disk, backups>> /\ Still

BackUp(p) ==
    /\ At(p, "backup")
    /\ backups' = backups \cup {<<Ino(p), Here(p).version>>}
    /\ Goto(p, "migrate", job[p])
    /\ UNCHANGED disk /\ Kept /\ Still

Set(p, c) == content' = [content EXCEPT ![Ino(p)] = c]
Rest == UNCHANGED <<there, lockFile, file, inodes, backups>>

Migrate(p) ==
    /\ At(p, "migrate")
    /\ Set(p, [Here(p) EXCEPT !.version = Latest, !.kind = Kind(p),
                              !.table = IF @ = 0 THEN Dim[Me(p)] ELSE @])
    /\ Migrated(p)
    /\ Rest /\ Still

Adopting == {"rebuild", "recordModel", "recordDim"}

MayAdopt(p) == Here(p).vecs = {} \/ Here(p).table = Dim[Me(p)]

\* Mutant: only the dimension is compared.
SameDim(p) == Here(p).dim = Dim[Me(p)]
SameIdentity(p) == Here(p).model = Me(p) /\ Here(p).dim = Dim[Me(p)]

CheckIdentity(p) ==
    /\ At(p, "identity")
    /\ IF Here(p).model # None /\ Here(p).dim # 0
          THEN /\ IF SameIdentity(p) THEN NextStore(p) ELSE Fail(p)
               /\ UNCHANGED crossed
       ELSE IF ~MayAdopt(p) THEN Fail(p) /\ UNCHANGED crossed
       ELSE /\ Goto(p, IF Here(p).table # Dim[Me(p)] THEN "rebuild" ELSE "recordModel", job[p])
            /\ crossed' = (crossed \/ \E q \in Procs : pc[q] \in Adopting /\ Me(q) # Me(p))
            /\ Kept
    /\ UNCHANGED <<disk, backups, crashes>>

\* An empty index of another dimension is made anew.
Rebuild(p) ==
    /\ At(p, "rebuild")
    /\ Set(p, [Here(p) EXCEPT !.table = Dim[Me(p)]])
    /\ Goto(p, "recordModel", job[p])
    /\ Rest /\ Kept /\ Still

\* record_embedding: one statement after the other, in no transaction.
RecordModel(p) ==
    /\ At(p, "recordModel")
    /\ Set(p, [Here(p) EXCEPT !.model = Me(p)])
    /\ Goto(p, "recordDim", job[p])
    /\ Rest /\ Kept /\ Still

RecordDim(p) ==
    /\ At(p, "recordDim")
    /\ Set(p, [Here(p) EXCEPT !.dim = Dim[Me(p)]])
    /\ NextStore(p)
    /\ Rest /\ Still

\* A served store is written to with the server's own embedder; a vector of
\* another dimension is refused by the table.
WriteVector(p, k) ==
    /\ At(p, "serving")
    /\ content[conn[p][k]].table = Dim[Me(p)]
    /\ content' = [content EXCEPT ![conn[p][k]].vecs = @ \cup {Me(p)}]
    /\ Rest /\ Kept /\ Still /\ UNCHANGED <<pc, job>>

\* Stopping, or switching to another workspace: the lease goes with the stores.
Close(p) ==
    /\ At(p, "serving")
    /\ End(p)
    /\ UNCHANGED <<disk, backups>> /\ Still

-----------------------------------------------------------------------------
(***************************************************************************)
(* Re-embedding: both stores snapshotted, everything embedded before       *)
(* anything is written, then each store in a transaction of its own.       *)
(***************************************************************************)
Snapshot(p) ==
    /\ At(p, "snapshot")
    /\ backups' = backups \cup {<<Ino(p), Here(p).version>>}
    /\ NextStore(p)
    /\ UNCHANGED disk /\ Still

Embed(p) ==
    /\ At(p, "embed")
    /\ \/ /\ Goto(p, "rewrite", [job[p] EXCEPT !.kind = "stm"])
          /\ Kept /\ UNCHANGED crashes
       \/ /\ crashes < MaxCrashes /\ crashes' = crashes + 1
          /\ End(p)
    /\ UNCHANGED <<disk, backups, crossed>>

Reembedded(vecs, m) == IF vecs = {} THEN {} ELSE {m}

Rewrite(p) ==
    /\ At(p, "rewrite")
    /\ Set(p, [Here(p) EXCEPT !.model = Me(p), !.dim = Dim[Me(p)], !.table = Dim[Me(p)],
                              !.vecs = Reembedded(@, Me(p))])
    /\ IF Kind(p) = "stm" THEN Goto(p, "rewrite", [job[p] EXCEPT !.kind = "ltm"]) /\ Kept
                          ELSE End(p)
    /\ Rest /\ Still

-----------------------------------------------------------------------------
(***************************************************************************)
(* Importing: a byte copy of two store files, under no lock, then opened   *)
(* like any workspace.                                                     *)
(***************************************************************************)
CopyDir(p) ==
    /\ At(p, "copyDir")
    /\ IF there THEN End(p) /\ UNCHANGED there
       ELSE /\ \E s \in Stores : Goto(p, "copy", [job[p] EXCEPT !.source = s])
            /\ there' = TRUE /\ Kept
    /\ crossed' = (crossed \/ \E q \in Procs \ {p} : pc[q] # "none")
    /\ UNCHANGED <<lockFile, file, content, inodes, backups, crashes>>

Copy(p) ==
    /\ At(p, "copy")
    /\ LET missing == file[Kind(p)] = 0
           ino == IF missing THEN NewIno ELSE file[Kind(p)] IN
          /\ missing => inodes < MaxInodes
          /\ file' = [file EXCEPT ![Kind(p)] = ino]
          /\ content' = With(ino, [job[p].source[Kind(p)] EXCEPT !.whole = FALSE])
          /\ inodes' = IF missing THEN NewIno ELSE inodes
          /\ Goto(p, "copying", [job[p] EXCEPT !.fd = ino])
    /\ UNCHANGED <<there, lockFile, backups>> /\ Kept /\ Still

\* The copy is complete, or the source changed under it, which discards it.
CopyDone(p) ==
    /\ At(p, "copying")
    /\ \/ /\ content' = [content EXCEPT ![job[p].fd].whole = TRUE]
          /\ IF Kind(p) = "stm" THEN Goto(p, "copy", [job[p] EXCEPT !.kind = "ltm"])
                                ELSE Goto(p, "dir", job[p])
          /\ UNCHANGED crashes
       \/ /\ crashes < MaxCrashes /\ crashes' = crashes + 1
          /\ Goto(p, "discard", job[p])
          /\ UNCHANGED content
    /\ Rest /\ Kept /\ UNCHANGED crossed

Discard(p) ==
    /\ At(p, "discard")
    /\ there' = FALSE /\ lockFile' = 0 /\ file' = NoConn
    /\ End(p)
    /\ crossed' = (crossed \/ \E q \in Procs \ {p} : pc[q] # "none")
    /\ UNCHANGED <<content, inodes, backups, crashes>>

\* Migrated and sound: let go, and opened once more as a server would.
Imported(p) ==
    /\ At(p, "imported")
    /\ Release(p)
    /\ Goto(p, "dir", [job[p] EXCEPT !.op = "verify", !.kind = "stm"])
    /\ UNCHANGED <<disk, backups>> /\ Still

-----------------------------------------------------------------------------
\* The system frees the lock and the connections of a process that dies; what
\* is on disk stays as it is.
Crash(p) ==
    /\ pc[p] # "none" /\ crashes < MaxCrashes
    /\ crashes' = crashes + 1
    /\ End(p)
    /\ crossed' = (crossed \/ pc[p] \in {"removing", "copy", "copying", "discard"})
    /\ UNCHANGED <<disk, backups, jobs>>

Locking(p) == MakeDir(p) \/ OpenLockFile(p) \/ Lease(p) \/ LockExclusive(p)
Opening(p) == \/ OpenFile(p) \/ ReadVersion(p) \/ BackUp(p) \/ Migrate(p)
              \/ CheckIdentity(p) \/ Rebuild(p) \/ RecordModel(p) \/ RecordDim(p)
Commands(p) ==
    \/ \E m \in Models : Serve(p, m) \/ Reembed(p, m) \/ Import(p, m)
    \/ Delete(p) \/ Unlink(p) \/ RemoveDir(p)
    \/ \E k \in Kinds : WriteVector(p, k)
    \/ Close(p)
    \/ Snapshot(p) \/ Embed(p) \/ Rewrite(p)
    \/ CopyDir(p) \/ Copy(p) \/ CopyDone(p) \/ Discard(p) \/ Imported(p)
    \/ Crash(p)

Next == \E p \in Procs : Locking(p) \/ Opening(p) \/ Commands(p)

Spec == Init /\ [][Next]_vars

-----------------------------------------------------------------------------
TypeOK ==
    /\ there \in BOOLEAN /\ inodes \in 0..MaxInodes
    /\ lockFile \in 0..inodes /\ file \in [Kinds -> 0..inodes]
    /\ DOMAIN content \subseteq 1..inodes
    /\ content \in [DOMAIN content -> Store]
    /\ held \in [Procs -> [ino : 0..inodes, mode : {"none", "shared", "exclusive"}]]
    /\ conn \in [Procs -> [Kinds -> 0..inodes]]
    /\ \A p \in Procs : /\ pc[p] = "none" <=> job[p] = NoJob
                        /\ pc[p] = "none" => held[p] = Free /\ conn[p] = NoConn
    /\ crossed \in BOOLEAN /\ jobs \in 0..MaxJobs /\ crashes \in 0..MaxCrashes

Serving(p) == pc[p] = "serving"

\* A store a process serves was embedded by that process's own model, in both
\* files: also after a re-embedding that stopped between the two, a crash
\* inside recording an identity, or an adoption of an unrecorded store.
AgreesWithStore ==
    crossed \/ \A p \in Procs : Serving(p) => \A k \in Kinds :
        LET c == content[conn[p][k]] IN
        /\ c.model = Me(p) /\ c.dim = Dim[Me(p)] /\ c.table = Dim[Me(p)]
        /\ c.vecs \subseteq {Me(p), Unknown}

\* No index mixes the vectors of two models, apart from the vectors of an old
\* store that never said which model made them.
OneVectorSpace ==
    crossed \/ \A i \in DOMAIN content : Cardinality(content[i].vecs \ {Unknown}) <= 1

\* While the files are removed or rewritten nobody else serves them (P2R-3),
\* and what a process serves is what the directory holds: as long as no
\* process opens a directory that is just then being removed or copied into.
MaintenanceIsAlone ==
    \A p, q \in Procs : p # q /\ pc[p] \in {"removing", "rewrite"} => ~Serving(q)
ServedIsOnDisk ==
    crossed \/ /\ MaintenanceIsAlone
               /\ \A p \in Procs : Serving(p) => there /\ conn[p] = file

\* A store with tables is migrated only once a snapshot of it at its own
\* version exists, however many processes find it old at once.
MigratedHasBackup ==
    [][\A i \in DOMAIN content :
          content'[i].version # content[i].version /\ content[i].kind # "none"
              => crossed \/ <<i, content[i].version>> \in backups]_vars

\* A store of a newer release, or of the other kind, is not written to.
Foreign(c, k) == c.version > Latest \/ c.kind \notin {k, "none"}
ForeignIsUntouched ==
    [][\A k \in Kinds : file[k] # 0 /\ Foreign(content[file[k]], k) =>
          crossed \/ content'[file[k]] = content[file[k]]
                  \/ ~content[file[k]].whole]_vars

\* Whatever two processes and a crash do to a directory, a lock and a connection
\* go with the command that took them, a store that is served was embedded by its
\* process's model, and no index mixes two models (open_store, check_identity).
StoresAreSound == TypeOK /\ AgreesWithStore /\ OneVectorSpace

\* An upgrade never costs a store: one that is migrated was copied first, and one
\* that is not this release's to migrate stays as it is (migrations::run).
UpgradesAreSafe == MigratedHasBackup /\ ForeignIsUntouched
=============================================================================
