--------------------------- MODULE WorkspaceProofs ---------------------------
(***************************************************************************)
(* Theorems about Workspace, for every set of processes and models, every  *)
(* collection of stores and every bound.                                   *)
(***************************************************************************)
EXTENDS Workspace, FiniteSetTheorems, TLAPS

Job == [op : {"serve", "delete", "reembed", "import", "verify"}, model : Models \cup {None},
        kind : Kinds, fd : Nat, left : SUBSET Nat, source : {None} \cup Stores]
Held == [ino : Nat, mode : {"none", "shared", "exclusive"}]

Outside == {"none", "dir", "lockFile", "exclusive", "lease", "copyDir", "copy", "copying"}
Reading == {"version", "backup", "migrate", "snapshot", "identity"} \cup Adopting
Entering == {"open"} \cup Reading
Opened == {"serving", "imported", "embed", "rewrite"}
Places == Outside \cup Entering \cup Opened \cup {"removing", "discard"}

Servers == {"serve", "import", "verify"}
Unlocked(h, c) == h = Free /\ c = NoConn
Locked(j, h) ==
    /\ h.mode = IF j.op \in Servers THEN "shared" ELSE "exclusive"
    /\ h.ino # 0

\* At each place of its command: what a process is doing, holds, and has open.
Placed(at, j, h, c) ==
    /\ at \in Places /\ h \in Held /\ c \in [Kinds -> Nat]
    /\ IF at = "none" THEN j = NoJob ELSE j \in Job
    /\ at # "none" /\ j.op # "delete" => j.model \in Models
    /\ at \in Outside => Unlocked(h, c)
    /\ at = "discard" => Unlocked(h, c) \/ Locked(j, h)
    /\ at \notin Outside \cup {"discard"} => Locked(j, h)
    /\ at = "removing" => j.op = "delete" /\ c = NoConn
    /\ at \in Entering \cup Opened => j.op # "delete"
    /\ at \in Entering /\ j.kind = "ltm" => c["stm"] # 0
    /\ at \in Reading => c[j.kind] # 0
    /\ at \in Opened => c["stm"] # 0 /\ c["ltm"] # 0
    /\ at \in {"dir", "lease"} => j.op \in Servers
    /\ at \in {"lockFile", "exclusive"} /\ j.op = "reembed" => j.kind = "stm"
    /\ at = "exclusive" => j.op \in {"delete", "reembed"}
    /\ at \in {"lease", "exclusive"} => j.fd # 0
    /\ at \in {"copyDir", "copy", "copying", "discard", "imported"} => j.op = "import"
    /\ at \in {"copy", "copying"} => j.source \in Stores
    /\ at \in {"identity"} \cup Adopting => j.op \in {"serve", "verify"}
    /\ at \in {"snapshot", "embed", "rewrite"} => j.op = "reembed"
    /\ at = "serving" => j.op = "serve"
Processes ==
    /\ pc = [p \in Procs |-> pc[p]] /\ job = [p \in Procs |-> job[p]]
    /\ held = [p \in Procs |-> held[p]] /\ conn = [p \in Procs |-> conn[p]]
    /\ \A p \in Procs : Placed(pc[p], job[p], held[p], conn[p])

\* Every inode that is named, open or locked has been made.
Made(i) == i = 0 \/ i \in DOMAIN content
Files ==
    /\ there \in BOOLEAN /\ crossed \in BOOLEAN
    /\ inodes \in 0..MaxInodes /\ jobs \in 0..MaxJobs /\ crashes \in 0..MaxCrashes
    /\ lockFile \in 0..inodes
    /\ DOMAIN content \subseteq 1..inodes /\ content \in [DOMAIN content -> Store]
    /\ file \in [Kinds -> Nat] /\ \A k \in Kinds : Made(file[k])
    /\ \A p \in Procs : /\ held[p].ino \in 0..inodes
                        /\ \A k \in Kinds : Made(conn[p][k])
                        /\ pc[p] # "none" => job[p].fd \in 0..inodes
                        /\ pc[p] = "copying" => job[p].fd \in DOMAIN content

\* An exclusive lock has one holder.
Exclusion ==
    \A p, q \in Procs : p # q /\ held[p].mode = "exclusive" => held[q].ino # held[p].ino

-----------------------------------------------------------------------------
\* As long as no command met a directory that was coming or going:
\* nobody is near a directory that is copied into, everybody who holds a lock
\* holds the one named in it, a deletion is alone, and what is open is what is named;
Before == {"none", "dir", "lockFile"}
Holds(p) == held[p].ino # 0
Copying(p) == pc[p] \in {"copy", "copying"}
Removing(p) == pc[p] = "removing"
Orderly(p) ==
    /\ Copying(p) => there /\ \A q \in Procs \ {p} : pc[q] \in Before
    /\ pc[p] = "copy" => file[Kind(p)] = 0
    /\ pc[p] = "copying" => /\ job[p].fd = file[Kind(p)]
                            /\ content[job[p].fd].whole = FALSE
    /\ Copying(p) /\ Kind(p) = "stm" => file["ltm"] = 0
    /\ Holds(p) => there
    /\ Holds(p) => held[p].ino = lockFile \/ (Removing(p) /\ lockFile = 0)
    /\ Removing(p) => \A q \in Procs \ {p} : ~Holds(q)
    /\ \A k \in Kinds : conn[p][k] \in {0, file[k]}
Directory ==
    /\ ~there => lockFile = 0 /\ file = NoConn
    /\ file["stm"] = file["ltm"] => file["stm"] = 0
    /\ \A p \in Procs : Orderly(p)

\* every store says which model made its vectors, one model at a time moves in,
\* and what a process has seen of a store is still so.
Passed(j) == {k \in Kinds : k = "stm" /\ j.kind = "ltm"}
Mine(s, j) == s.dim # 0 /\ s.model = j.model
Own(s, k) == s.version <= Latest /\ s.kind \in {k, "none"}
Knows(at, j, s) ==
    /\ at \in Entering => \A k \in Passed(j) : Own(s[k], k)
    /\ at \in Entering /\ j.op \in {"serve", "verify"} => \A k \in Passed(j) : Mine(s[k], j)
    /\ at \in Reading \ {"version"} => Own(s[j.kind], j.kind)
    /\ at \in Adopting /\ s[j.kind].dim # 0 => s[j.kind].model = j.model
    /\ at \in {"recordModel", "recordDim"} => s[j.kind].table = Dim[j.model]
    /\ at = "recordDim" => s[j.kind].model = j.model
    /\ at \in Opened => \A k \in Kinds : Own(s[k], k)
    /\ at = "serving" => \A k \in Kinds : Mine(s[k], j)
Seen(p) == [k \in Kinds |-> content[conn[p][k]]]
Old(s) == s.kind # "none" /\ s.version # Latest
Clear(p) ==
    /\ Knows(pc[p], job[p], Seen(p))
    /\ pc[p] = "migrate" /\ Old(Here(p)) => <<Ino(p), Here(p).version>> \in backups
    /\ \A q \in Procs : {pc[p], pc[q]} \subseteq Adopting => Me(p) = Me(q)
Identities ==
    /\ \A i \in DOMAIN content : Honest(content[i])
    /\ \A p \in Procs : Clear(p)

WorkspaceInv == Processes /\ Files /\ Exclusion /\ (crossed \/ (Directory /\ Identities))

-----------------------------------------------------------------------------
(***************************************************************************)
(* The processes.                                                          *)
(***************************************************************************)
\* A step of p leaves the others where they are.
Frame(p) ==
    /\ pc' = [pc EXCEPT ![p] = pc'[p]] /\ job' = [job EXCEPT ![p] = job'[p]]
    /\ held' = [held EXCEPT ![p] = held'[p]] /\ conn' = [conn EXCEPT ![p] = conn'[p]]
Goes(p, at, j) == pc'[p] = at /\ job'[p] = j /\ held'[p] = held[p] /\ conn'[p] = conn[p]
Ends(p) == pc'[p] = "none" /\ job'[p] = NoJob /\ held'[p] = Free /\ conn'[p] = NoConn

Shaped ==
    /\ pc = [p \in Procs |-> pc[p]] /\ job = [p \in Procs |-> job[p]]
    /\ held = [p \in Procs |-> held[p]] /\ conn = [p \in Procs |-> conn[p]]

LEMMA Moves ==
    ASSUME Shaped, NEW p \in Procs
    PROVE  /\ End(p) => Frame(p) /\ Ends(p)
           /\ \A at, j : Goto(p, at, j) /\ Kept => Frame(p) /\ Goes(p, at, j)
           /\ \A at, j : Goto(p, at, j) =>
                 /\ pc' = [pc EXCEPT ![p] = pc'[p]] /\ job' = [job EXCEPT ![p] = job'[p]]
                 /\ pc'[p] = at /\ job'[p] = j
           /\ Release(p) =>
                 /\ held' = [held EXCEPT ![p] = held'[p]] /\ conn' = [conn EXCEPT ![p] = conn'[p]]
                 /\ held'[p] = Free /\ conn'[p] = NoConn
  <1>1. ASSUME NEW at, NEW j, Goto(p, at, j)
        PROVE  /\ pc' = [pc EXCEPT ![p] = pc'[p]] /\ job' = [job EXCEPT ![p] = job'[p]]
               /\ pc'[p] = at /\ job'[p] = j
    BY <1>1 DEF Goto, Shaped
  <1>2. ASSUME Release(p)
        PROVE  /\ held' = [held EXCEPT ![p] = held'[p]] /\ conn' = [conn EXCEPT ![p] = conn'[p]]
               /\ held'[p] = Free /\ conn'[p] = NoConn
    BY <1>2 DEF Release, Shaped
  <1>3. ASSUME Kept
        PROVE  /\ held' = [held EXCEPT ![p] = held'[p]] /\ conn' = [conn EXCEPT ![p] = conn'[p]]
               /\ held'[p] = held[p] /\ conn'[p] = conn[p]
    BY <1>3 DEF Kept, Shaped
  <1>4. End(p) => Frame(p) /\ Ends(p)
    BY <1>1, <1>2 DEF End, Frame, Ends
  <1>5. \A at, j : Goto(p, at, j) /\ Kept => Frame(p) /\ Goes(p, at, j)
    BY <1>1, <1>3 DEF Frame, Goes
  <1> QED BY <1>1, <1>2, <1>4, <1>5

\* What opening, and what follows it, comes to.
Fails(p) == IF job[p].op = "import" THEN Goes(p, "discard", job[p]) ELSE Ends(p)
GoesOn(p) ==
    IF Kind(p) = "stm" THEN Goes(p, "open", [job[p] EXCEPT !.kind = "ltm"])
    ELSE IF job[p].op = "verify" THEN Ends(p)
    ELSE Goes(p, CASE job[p].op = "serve"  -> "serving"
                   [] job[p].op = "import" -> "imported"
                   [] OTHER                -> "embed", job[p])
Admits(p) ==
    CASE job[p].op = "reembed" -> Goes(p, "snapshot", job[p])
      [] job[p].op = "import"  -> GoesOn(p)
      [] OTHER                 -> Goes(p, "identity", job[p])

LEMMA Outcomes ==
    ASSUME Shaped, NEW p \in Procs
    PROVE  /\ Fail(p) => Frame(p) /\ Fails(p)
           /\ NextStore(p) => Frame(p) /\ GoesOn(p)
           /\ Migrated(p) => Frame(p) /\ Admits(p)
  <1>1. Fail(p) => Frame(p) /\ Fails(p)
    BY Moves DEF Fail, Fails
  <1>2. NextStore(p) => Frame(p) /\ GoesOn(p)
    BY Moves DEF NextStore, GoesOn
  <1>3. Migrated(p) => Frame(p) /\ Admits(p)
    BY Moves, <1>2 DEF Migrated, Admits
  <1> QED BY <1>1, <1>2, <1>3

LEMMA Reshape ==
    ASSUME NEW S, NEW f, f = [q \in S |-> f[q]], NEW p, NEW x, NEW g, g = [f EXCEPT ![p] = x]
    PROVE  g = [q \in S |-> g[q]]
  <1>1. g = [q \in S |-> IF q = p THEN x ELSE f[q]]
    OBVIOUS
  <1> QED BY <1>1

\* So only the process that moved is to be looked at.
LEMMA Placing ==
    ASSUME Processes, NEW p \in Procs, Frame(p),
           Placed(pc'[p], job'[p], held'[p], conn'[p])
    PROVE  Processes'
  <1>1. Shaped'
    <2>1. pc' = [q \in Procs |-> pc'[q]]
      BY Reshape DEF Processes, Frame
    <2>2. job' = [q \in Procs |-> job'[q]]
      BY Reshape DEF Processes, Frame
    <2>3. held' = [q \in Procs |-> held'[q]]
      BY Reshape DEF Processes, Frame
    <2>4. conn' = [q \in Procs |-> conn'[q]]
      BY Reshape DEF Processes, Frame
    <2> QED BY <2>1, <2>2, <2>3, <2>4 DEF Shaped
  <1>2. ASSUME NEW q \in Procs
        PROVE  Placed(pc'[q], job'[q], held'[q], conn'[q])
    <2>1. CASE q = p
      BY <2>1
    <2>2. CASE q # p
      BY <2>2 DEF Processes, Frame
    <2> QED BY <2>1, <2>2
  <1> QED BY <1>1, <1>2 DEF Processes, Shaped

LEMMA NobodyPlaced == Placed("none", NoJob, Free, NoConn)
  <1>1. Free \in Held /\ NoConn \in [Kinds -> Nat]
    BY DEF Free, NoConn, Held
  <1> QED BY <1>1 DEF Placed, Places, Outside, Entering, Reading, Adopting, Opened, Unlocked

LEMMA EndsPlaced ==
    ASSUME NEW p, Ends(p)
    PROVE  Placed(pc'[p], job'[p], held'[p], conn'[p])
  BY NobodyPlaced DEF Ends

LEMMA KindTurns ==
    ASSUME NEW j \in Job
    PROVE  \A k \in Kinds : LET t == [j EXCEPT !.kind = k] IN
              t \in Job /\ t.kind = k /\ t.op = j.op /\ t.model = j.model /\ t.fd = j.fd
  BY DEF Job

LEMMA FailsPlaced ==
    ASSUME Processes, NEW p \in Procs, pc[p] \in Entering, Fails(p)
    PROVE  Placed(pc'[p], job'[p], held'[p], conn'[p])
  <1> PICK at, j, h, c : at = pc[p] /\ j = job[p] /\ h = held[p] /\ c = conn[p]
    OBVIOUS
  <1>1. Placed(at, j, h, c)
    BY DEF Processes
  <1>2. CASE j.op = "import"
    <2>1. Goes(p, "discard", j)
      BY <1>2 DEF Fails
    <2>2. Placed("discard", j, h, c)
      BY <1>1, <1>2 DEF Placed, Places, Outside, Entering, Reading, Adopting, Opened
    <2> QED BY <2>1, <2>2 DEF Goes
  <1>3. CASE j.op # "import"
    BY <1>3, EndsPlaced DEF Fails
  <1> QED BY <1>2, <1>3

LEMMA GoesOnPlaced ==
    ASSUME Processes, NEW p \in Procs, pc[p] \in Reading, GoesOn(p)
    PROVE  Placed(pc'[p], job'[p], held'[p], conn'[p])
  <1> PICK at, j, h, c : at = pc[p] /\ j = job[p] /\ h = held[p] /\ c = conn[p]
    OBVIOUS
  <1>1. Placed(at, j, h, c) /\ at \in Reading
    BY DEF Processes
  <1>2. j \in Job
    BY <1>1 DEF Placed, Reading, Adopting
  <1>3. CASE j.kind = "stm"
    <2> PICK t : t = [j EXCEPT !.kind = "ltm"]
      OBVIOUS
    <2>1. Goes(p, "open", t)
      BY <1>3 DEF GoesOn, Kind
    <2>2. t \in Job /\ t.kind = "ltm" /\ t.op = j.op /\ t.model = j.model
      BY <1>2, KindTurns DEF Kinds
    <2>3. Placed("open", t, h, c)
      BY <1>1, <1>3, <2>2 DEF Placed, Places, Outside, Entering, Reading, Adopting, Opened, Locked
    <2> QED BY <2>1, <2>3 DEF Goes
  <1>4. CASE j.kind # "stm" /\ j.op = "verify"
    BY <1>4, EndsPlaced DEF GoesOn, Kind
  <1>5. CASE j.kind # "stm" /\ j.op # "verify"
    <2>1. j.kind = "ltm"
      BY <1>5, <1>2 DEF Job, Kinds
    <2>2. CASE j.op = "serve"
      <3>1. Goes(p, "serving", j)
        BY <1>5, <2>2 DEF GoesOn, Kind
      <3>2. Placed("serving", j, h, c)
        BY <1>1, <2>1, <2>2 DEF Placed, Places, Outside, Entering, Reading, Adopting, Opened
      <3> QED BY <3>1, <3>2 DEF Goes
    <2>3. CASE j.op = "import"
      <3>1. Goes(p, "imported", j)
        BY <1>5, <2>3 DEF GoesOn, Kind
      <3>2. Placed("imported", j, h, c)
        BY <1>1, <2>1, <2>3 DEF Placed, Places, Outside, Entering, Reading, Adopting, Opened
      <3> QED BY <3>1, <3>2 DEF Goes
    <2>4. CASE j.op \notin {"serve", "import"}
      <3>1. Goes(p, "embed", j)
        BY <1>5, <2>4 DEF GoesOn, Kind
      <3>2. j.op = "reembed"
        BY <1>1, <1>2, <1>5, <2>4 DEF Job, Placed, Entering
      <3>3. Placed("embed", j, h, c)
        BY <1>1, <2>1, <3>2 DEF Placed, Places, Outside, Entering, Reading, Adopting, Opened
      <3> QED BY <3>1, <3>3 DEF Goes
    <2> QED BY <2>2, <2>3, <2>4
  <1> QED BY <1>3, <1>4, <1>5

LEMMA AdmitsPlaced ==
    ASSUME Processes, NEW p \in Procs, pc[p] \in Reading, Admits(p)
    PROVE  Placed(pc'[p], job'[p], held'[p], conn'[p])
  <1> PICK at, j, h, c : at = pc[p] /\ j = job[p] /\ h = held[p] /\ c = conn[p]
    OBVIOUS
  <1>1. Placed(at, j, h, c) /\ at \in Reading
    BY DEF Processes
  <1>2. j \in Job
    BY <1>1 DEF Placed, Reading, Adopting
  <1>3. CASE j.op = "reembed"
    <2>1. Placed("snapshot", j, h, c)
      BY <1>1, <1>3 DEF Placed, Places, Outside, Entering, Reading, Adopting, Opened
    <2> QED BY <1>3, <2>1 DEF Goes, Admits
  <1>4. CASE j.op = "import"
    BY <1>4, GoesOnPlaced DEF Admits
  <1>5. CASE j.op \notin {"reembed", "import"}
    <2>1. j.op \in {"serve", "verify"}
      BY <1>1, <1>2, <1>5 DEF Placed, Job, Entering
    <2>2. Placed("identity", j, h, c)
      BY <1>1, <2>1 DEF Placed, Places, Outside, Entering, Reading, Adopting, Opened
    <2> QED BY <1>5, <2>2 DEF Goes, Admits
  <1> QED BY <1>3, <1>4, <1>5

\* The lock and the directory.
LEMMA LockingPlaced ==
    ASSUME Processes, Files, NEW p \in Procs, Locking(p)
    PROVE  Frame(p) /\ Placed(pc'[p], job'[p], held'[p], conn'[p])
  <1> PICK at, j, h, c : at = pc[p] /\ j = job[p] /\ h = held[p] /\ c = conn[p]
    OBVIOUS
  <1>0. Shaped /\ Placed(at, j, h, c)
    BY DEF Processes, Shaped
  <1>1. CASE MakeDir(p)
    <2>1. at = "dir" /\ Frame(p) /\ Goes(p, "lockFile", j)
      BY <1>0, <1>1, Moves DEF MakeDir, At
    <2>2. Placed("lockFile", j, h, c)
      BY <1>0, <2>1 DEF Placed, Places, Outside, Entering, Reading, Adopting, Opened, Servers
    <2> QED BY <2>1, <2>2 DEF Goes
  <1>2. CASE OpenLockFile(p)
    <2>0. at = "lockFile" /\ j \in Job
      BY <1>0, <1>2 DEF OpenLockFile, At, Placed
    <2>1. CASE ~there
      BY <1>0, <1>2, <2>1, Moves, EndsPlaced DEF OpenLockFile
    <2>2. CASE there
      <3> PICK t : t = [j EXCEPT !.fd = lockFile']
        OBVIOUS
      <3> PICK to : to = IF j.op \in {"delete", "reembed"} THEN "exclusive" ELSE "lease"
        OBVIOUS
      <3>1. Frame(p) /\ Goes(p, to, t)
        BY <1>0, <1>2, <2>2, Moves DEF OpenLockFile
      <3>2. lockFile' \in Nat /\ lockFile' # 0
        BY <1>2, <2>2 DEF OpenLockFile, Files, NewIno
      <3>3. t \in Job /\ t.fd # 0 /\ t.op = j.op /\ t.model = j.model /\ t.kind = j.kind
        BY <2>0, <3>2 DEF Job
      <3>4. Placed(to, t, h, c)
        BY <1>0, <2>0, <3>3 DEF Placed, Places, Outside, Entering, Reading, Adopting, Opened,
                                Servers, Job
      <3> QED BY <3>1, <3>4 DEF Goes
    <2> QED BY <2>1, <2>2 DEF Files
  <1>3. CASE Lease(p)
    <2>0. at = "lease" /\ j \in Job
      BY <1>0, <1>3 DEF Lease, At, Placed
    <2>1. CASE MayLease(p)
      <3> PICK t, g : t = [j EXCEPT !.kind = "stm"] /\ g = [ino |-> j.fd, mode |-> "shared"]
        OBVIOUS
      <3>1. Frame(p) /\ pc'[p] = "open" /\ job'[p] = t /\ held'[p] = g /\ conn'[p] = c
        BY <1>0, <1>3, <2>1, Moves DEF Lease, Shaped, Frame
      <3>2. t \in Job /\ t.kind = "stm" /\ t.op = j.op /\ t.model = j.model
        BY <2>0, KindTurns DEF Kinds
      <3>3. g \in Held /\ Locked(t, g)
        BY <1>0, <2>0, <3>2 DEF Placed, Held, Job, Locked
      <3>4. Placed("open", t, g, c)
        BY <1>0, <2>0, <3>2, <3>3 DEF Placed, Places, Outside, Entering, Reading, Adopting,
                                     Opened, Servers
      <3> QED BY <3>1, <3>4
    <2>2. CASE ~MayLease(p)
      BY <1>0, <1>3, <2>2, Moves, EndsPlaced DEF Lease
    <2> QED BY <2>1, <2>2
  <1>4. CASE LockExclusive(p)
    <2>0. at = "exclusive" /\ j \in Job
      BY <1>0, <1>4 DEF LockExclusive, At, Placed
    <2>1. CASE MayLock(p) /\ j.op = "delete"
      <3> PICK t, g : /\ t = [j EXCEPT !.left = ({lockFile} \cup {file[k] : k \in Kinds}) \ {0}]
                      /\ g = [ino |-> j.fd, mode |-> "exclusive"]
        OBVIOUS
      <3>1. Frame(p) /\ pc'[p] = "removing" /\ job'[p] = t /\ held'[p] = g /\ conn'[p] = c
        BY <1>0, <1>4, <2>1, Moves DEF LockExclusive, Shaped, Frame
      <3>2. ({lockFile} \cup {file[k] : k \in Kinds}) \ {0} \subseteq Nat
        BY DEF Files
      <3>3. t \in Job /\ t.op = "delete"
        BY <2>0, <2>1, <3>2 DEF Job
      <3>4. g \in Held /\ Locked(t, g) /\ c = NoConn
        BY <1>0, <2>0, <3>3 DEF Placed, Held, Job, Locked, Servers, Outside, Unlocked
      <3>5. Placed("removing", t, g, c)
        BY <1>0, <3>3, <3>4 DEF Placed, Places, Outside, Entering, Reading, Adopting, Opened,
                                Servers
      <3> QED BY <3>1, <3>5
    <2>2. CASE MayLock(p) /\ j.op # "delete"
      <3> PICK g : g = [ino |-> j.fd, mode |-> "exclusive"]
        OBVIOUS
      <3>1. Frame(p) /\ pc'[p] = "open" /\ job'[p] = j /\ held'[p] = g /\ conn'[p] = c
        BY <1>0, <1>4, <2>2, Moves DEF LockExclusive, Shaped, Frame
      <3>2. j.op = "reembed" /\ j.kind = "stm" /\ j.fd # 0
        BY <1>0, <2>0, <2>2 DEF Placed
      <3>3. g \in Held /\ Locked(j, g)
        BY <2>0, <3>2 DEF Held, Job, Locked, Servers
      <3>4. Placed("open", j, g, c)
        BY <1>0, <2>0, <3>2, <3>3 DEF Placed, Places, Outside, Entering, Reading, Adopting,
                                     Opened, Servers
      <3> QED BY <3>1, <3>4
    <2>3. CASE ~MayLock(p)
      BY <1>0, <1>4, <2>3, Moves, EndsPlaced DEF LockExclusive
    <2> QED BY <2>1, <2>2, <2>3
  <1> QED BY <1>1, <1>2, <1>3, <1>4 DEF Locking

\* The stores, as they are opened.
LEMMA OpeningPlaced ==
    ASSUME Processes, Files, NEW p \in Procs, Opening(p)
    PROVE  Frame(p) /\ Placed(pc'[p], job'[p], held'[p], conn'[p])
  <1> PICK at, j, h, c : at = pc[p] /\ j = job[p] /\ h = held[p] /\ c = conn[p]
    OBVIOUS
  <1>0. Shaped /\ Placed(at, j, h, c)
    BY DEF Processes, Shaped
  <1>1. CASE OpenFile(p)
    <2>0. at = "open" /\ at \in Entering /\ j \in Job
      BY <1>0, <1>1 DEF OpenFile, At, Placed, Entering
    <2>1. CASE ~there \/ (file[Kind(p)] = 0 /\ job[p].op = "reembed")
      BY <1>0, <1>1, <2>0, <2>1, Outcomes, FailsPlaced DEF OpenFile
    <2>2. CASE ~(~there \/ (file[Kind(p)] = 0 /\ job[p].op = "reembed"))
      <3> PICK k, i : k = j.kind /\ i = file'[k]
        OBVIOUS
      <3> PICK d : d = [c EXCEPT ![k] = i]
        OBVIOUS
      <3>0. k \in Kinds /\ c \in [Kinds -> Nat]
        BY <1>0, <2>0 DEF Job, Placed
      <3>1. i \in Nat /\ i # 0
        BY <1>1, <2>2, <3>0 DEF OpenFile, Files, NewIno, Kind
      <3>2. /\ pc' = [pc EXCEPT ![p] = "version"] /\ job' = [job EXCEPT ![p] = j]
            /\ held' = held /\ conn' = [conn EXCEPT ![p][k] = i]
        BY <1>1, <2>2 DEF OpenFile, Goto, Kind
      <3>3. pc'[p] = "version" /\ job'[p] = j /\ held'[p] = h /\ conn'[p] = d
        BY <1>0, <3>2 DEF Shaped
      <3>4. Frame(p)
        BY <1>0, <3>2, <3>3 DEF Shaped, Frame
      <3>5. d \in [Kinds -> Nat] /\ d[k] # 0 /\ (k = "ltm" => d["stm"] = c["stm"])
        BY <3>0, <3>1 DEF Kinds
      <3>6. Placed("version", j, h, d)
        BY <1>0, <2>0, <3>5 DEF Placed, Places, Outside, Entering, Reading, Adopting, Opened
      <3> QED BY <3>3, <3>4, <3>6
    <2> QED BY <2>1, <2>2
  <1>2. ASSUME at \in Reading, NEW to \in {"backup", "migrate"}, Goto(p, to, j), Kept
        PROVE  Frame(p) /\ Placed(pc'[p], job'[p], held'[p], conn'[p])
    <2>1. Frame(p) /\ Goes(p, to, j)
      BY <1>0, <1>2, Moves
    <2>2. Placed(to, j, h, c)
      BY <1>0, <1>2 DEF Placed, Places, Outside, Entering, Reading, Adopting, Opened
    <2> QED BY <2>1, <2>2 DEF Goes
  <1>3. CASE ReadVersion(p)
    <2>0. at = "version" /\ at \in Reading /\ at \in Entering
      BY <1>3 DEF ReadVersion, At, Reading, Entering
    <2>1. \/ Fail(p) \/ Migrated(p)
          \/ (Goto(p, "backup", j) /\ Kept) \/ (Goto(p, "migrate", j) /\ Kept)
      BY <1>3 DEF ReadVersion
    <2> QED BY <1>0, <1>2, <2>0, <2>1, Outcomes, FailsPlaced, AdmitsPlaced
  <1>4. CASE BackUp(p)
    <2>1. at \in Reading /\ Goto(p, "migrate", j) /\ Kept
      BY <1>4 DEF BackUp, At, Reading
    <2> QED BY <1>2, <2>1
  <1>5. CASE Migrate(p)
    <2>1. at \in Reading /\ Migrated(p)
      BY <1>5 DEF Migrate, At, Reading
    <2> QED BY <1>0, <2>1, Outcomes, AdmitsPlaced
  <1>6. ASSUME at \in {"identity"} \cup Adopting, NEW to \in Adopting, Goto(p, to, j), Kept
        PROVE  Frame(p) /\ Placed(pc'[p], job'[p], held'[p], conn'[p])
    <2>1. Frame(p) /\ Goes(p, to, j)
      BY <1>0, <1>6, Moves
    <2>2. Placed(to, j, h, c)
      BY <1>0, <1>6 DEF Placed, Places, Outside, Entering, Reading, Adopting, Opened
    <2> QED BY <2>1, <2>2 DEF Goes
  <1>7. CASE CheckIdentity(p)
    <2>0. at \in {"identity"} /\ at \in Reading /\ at \in Entering
      BY <1>7 DEF CheckIdentity, At, Reading, Entering
    <2>1. \/ NextStore(p) \/ Fail(p)
          \/ \E to \in Adopting : Goto(p, to, j) /\ Kept
      BY <1>7 DEF CheckIdentity, Adopting
    <2> QED BY <1>0, <1>6, <2>0, <2>1, Outcomes, FailsPlaced, GoesOnPlaced
  <1>8. CASE Rebuild(p) \/ RecordModel(p)
    <2>1. at \in Adopting /\ \E to \in Adopting : Goto(p, to, j) /\ Kept
      BY <1>8 DEF Rebuild, RecordModel, At, Adopting
    <2> QED BY <1>6, <2>1
  <1>9. CASE RecordDim(p)
    <2>1. at \in Reading /\ NextStore(p)
      BY <1>9 DEF RecordDim, At, Reading, Adopting
    <2> QED BY <1>0, <2>1, Outcomes, GoesOnPlaced
  <1> QED BY <1>1, <1>3, <1>4, <1>5, <1>7, <1>8, <1>9 DEF Opening

\* The commands.
LEMMA BeginPlaced ==
    ASSUME Processes, NEW p \in Procs, NEW op \in {"serve", "delete", "reembed", "import"},
           NEW m \in Models \cup {None}, NEW where \in {"dir", "lockFile", "copyDir"},
           Begin(p, op, m, where),
           op # "delete" => m \in Models,
           where = "dir" => op = "serve", where = "copyDir" => op = "import"
    PROVE  Frame(p) /\ Placed(pc'[p], job'[p], held'[p], conn'[p])
  <1> PICK j : j = [op |-> op, model |-> m, kind |-> "stm", fd |-> 0, left |-> {}, source |-> None]
    OBVIOUS
  <1>1. Shaped /\ Placed(pc[p], job[p], held[p], conn[p]) /\ pc[p] = "none"
    BY DEF Processes, Shaped, Begin
  <1>2. Frame(p) /\ Goes(p, where, j)
    <2>1. Goto(p, where, j) /\ Kept
      BY DEF Begin, Kept
    <2> QED BY <1>1, <2>1, Moves
  <1>3. j \in Job /\ j.op = op /\ j.model = m /\ j.kind = "stm"
    BY DEF Job, Kinds
  <1>4. Placed(where, j, held[p], conn[p])
    BY <1>1, <1>3 DEF Placed, Places, Outside, Entering, Reading, Adopting, Opened, Servers
  <1> QED BY <1>2, <1>4 DEF Goes

LEMMA ImportingPlaced ==
    ASSUME Processes, Files, NEW p \in Procs,
           CopyDir(p) \/ Copy(p) \/ CopyDone(p) \/ Discard(p) \/ Imported(p)
    PROVE  Frame(p) /\ Placed(pc'[p], job'[p], held'[p], conn'[p])
  <1> PICK at, j, h, c : at = pc[p] /\ j = job[p] /\ h = held[p] /\ c = conn[p]
    OBVIOUS
  <1>0. Shaped /\ Placed(at, j, h, c)
    BY DEF Processes, Shaped
  <1>1. at \in {"copyDir", "copy", "copying", "discard", "imported"} /\ j \in Job /\ j.op = "import"
    BY <1>0 DEF CopyDir, Copy, CopyDone, Discard, Imported, At, Placed
  <1> USE DEF Places, Outside, Entering, Reading, Adopting, Opened
  <1>2. CASE CopyDir(p)
    <2>1. CASE there
      BY <1>0, <1>2, <2>1, Moves, EndsPlaced DEF CopyDir
    <2>2. CASE ~there
      <3>1. PICK s \in Stores : Goto(p, "copy", [j EXCEPT !.source = s]) /\ Kept
        BY <1>2, <2>2 DEF CopyDir
      <3> PICK t : t = [j EXCEPT !.source = s]
        OBVIOUS
      <3>2. Frame(p) /\ Goes(p, "copy", t)
        BY <1>0, <3>1, Moves
      <3>3. t \in Job /\ t.op = "import" /\ t.model = j.model /\ t.source = s
        BY <1>1 DEF Job
      <3>4. at = "copyDir"
        BY <1>2 DEF CopyDir, At
      <3>5. Placed("copy", t, h, c)
        BY <1>0, <1>1, <3>3, <3>4 DEF Placed
      <3> QED BY <3>2, <3>5 DEF Goes
    <2> QED BY <2>1, <2>2 DEF Files
  <1>3. CASE Copy(p)
    <2>1. PICK i : Goto(p, "copying", [j EXCEPT !.fd = i]) /\ i \in Nat
      <3>1. file[Kind(p)] \in Nat /\ NewIno \in Nat
        BY <1>1 DEF Files, Job, Kind, NewIno
      <3> QED BY <1>3, <3>1 DEF Copy
    <2> PICK t : t = [j EXCEPT !.fd = i]
      OBVIOUS
    <2>2. Frame(p) /\ Goes(p, "copying", t) /\ at = "copy"
      BY <1>0, <1>3, <2>1, Moves DEF Copy, At
    <2>3. t \in Job /\ t.op = "import" /\ t.model = j.model /\ t.source = j.source
      BY <1>1, <2>1 DEF Job
    <2>4. Placed("copying", t, h, c)
      BY <1>0, <1>1, <2>2, <2>3 DEF Placed
    <2> QED BY <2>2, <2>4 DEF Goes
  <1>4. CASE CopyDone(p)
    <2>0. at = "copying"
      BY <1>4 DEF CopyDone, At
    <2>1. CASE Goto(p, "copy", [j EXCEPT !.kind = "ltm"])
      <3> PICK t : t = [j EXCEPT !.kind = "ltm"]
        OBVIOUS
      <3>1. Frame(p) /\ Goes(p, "copy", t)
        BY <1>0, <1>4, <2>1, Moves DEF CopyDone
      <3>2. t \in Job /\ t.op = "import" /\ t.model = j.model /\ t.source = j.source
        BY <1>1 DEF Job, Kinds
      <3>3. Placed("copy", t, h, c)
        BY <1>0, <1>1, <2>0, <3>2 DEF Placed
      <3> QED BY <3>1, <3>3 DEF Goes
    <2>2. ASSUME NEW to \in {"dir", "discard"}, Goto(p, to, j)
          PROVE  Frame(p) /\ Placed(pc'[p], job'[p], held'[p], conn'[p])
      <3>1. Frame(p) /\ Goes(p, to, j)
        BY <1>0, <1>4, <2>2, Moves DEF CopyDone
      <3>2. Placed(to, j, h, c)
        BY <1>0, <1>1, <2>0 DEF Placed, Servers
      <3> QED BY <3>1, <3>2 DEF Goes
    <2>3. \/ Goto(p, "copy", [j EXCEPT !.kind = "ltm"])
          \/ Goto(p, "dir", j) \/ Goto(p, "discard", j)
      BY <1>4 DEF CopyDone
    <2> QED BY <2>1, <2>2, <2>3
  <1>5. CASE Discard(p)
    BY <1>0, <1>5, Moves, EndsPlaced DEF Discard
  <1>6. CASE Imported(p)
    <2> PICK t : t = [j EXCEPT !.op = "verify", !.kind = "stm"]
      OBVIOUS
    <2>1. /\ Frame(p) /\ pc'[p] = "dir" /\ job'[p] = t
          /\ held'[p] = Free /\ conn'[p] = NoConn
      BY <1>0, <1>6, Moves DEF Imported, Frame
    <2>2. t \in Job /\ t.op = "verify" /\ t.model = j.model
      BY <1>1 DEF Job, Kinds
    <2>3. Placed("dir", t, Free, NoConn)
      BY <1>0, <1>1, <2>2, NobodyPlaced DEF Placed, Servers
    <2> QED BY <2>1, <2>3
  <1> QED BY <1>2, <1>3, <1>4, <1>5, <1>6

LEMMA CommandsPlaced ==
    ASSUME Processes, Files, NEW p \in Procs, Commands(p)
    PROVE  Frame(p) /\ Placed(pc'[p], job'[p], held'[p], conn'[p])
  <1> PICK at, j, h, c : at = pc[p] /\ j = job[p] /\ h = held[p] /\ c = conn[p]
    OBVIOUS
  <1>0. Shaped /\ Placed(at, j, h, c)
    BY DEF Processes, Shaped
  <1>1. CASE Delete(p) \/ \E m \in Models : Serve(p, m) \/ Reembed(p, m) \/ Import(p, m)
    BY <1>1, BeginPlaced DEF Delete, Serve, Reembed, Import
  <1>2. CASE RemoveDir(p) \/ Close(p) \/ Crash(p)
    BY <1>0, <1>2, Moves, EndsPlaced DEF RemoveDir, Close, Crash
  <1>3. CASE Unlink(p)
    <2>1. PICK i \in j.left : Goto(p, "removing", [j EXCEPT !.left = @ \ {i}]) /\ Kept
      BY <1>3 DEF Unlink
    <2> PICK t : t = [j EXCEPT !.left = @ \ {i}]
      OBVIOUS
    <2>2. Frame(p) /\ Goes(p, "removing", t) /\ at = "removing"
      BY <1>0, <1>3, <2>1, Moves DEF Unlink, At
    <2>3. j \in Job /\ t = [j EXCEPT !.left = j.left \ {i}]
      BY <1>0, <2>2 DEF Placed
    <2>4. t \in Job /\ t.op = j.op
      BY <2>3 DEF Job
    <2>5. Placed("removing", t, h, c)
      BY <1>0, <2>2, <2>4 DEF Placed, Locked, Places, Outside, Entering, Reading, Adopting, Opened
    <2> QED BY <2>2, <2>5 DEF Goes
  <1>4. CASE \E k \in Kinds : WriteVector(p, k)
    <2>1. Frame(p) /\ Goes(p, at, j)
      BY <1>0, <1>4 DEF WriteVector, Kept, Shaped, Frame, Goes
    <2> QED BY <1>0, <2>1 DEF Goes
  <1>5. CASE Snapshot(p)
    <2>1. at \in Reading /\ NextStore(p)
      BY <1>5 DEF Snapshot, At, Reading
    <2> QED BY <1>0, <2>1, Outcomes, GoesOnPlaced
  <1>6. ASSUME at \in {"embed", "rewrite"}, NEW k \in Kinds,
               Goto(p, "rewrite", [j EXCEPT !.kind = k]), Kept
        PROVE  Frame(p) /\ Placed(pc'[p], job'[p], held'[p], conn'[p])
    <2> PICK t : t = [j EXCEPT !.kind = k]
      OBVIOUS
    <2>1. Frame(p) /\ Goes(p, "rewrite", t)
      BY <1>0, <1>6, Moves
    <2>2. t \in Job /\ t.op = j.op /\ t.model = j.model
      BY <1>0, <1>6, KindTurns DEF Placed
    <2>3. Placed("rewrite", t, h, c)
      BY <1>0, <1>6, <2>2 DEF Placed, Locked, Places, Outside, Entering, Reading, Adopting, Opened
    <2> QED BY <2>1, <2>3 DEF Goes
  <1>7. CASE Embed(p)
    <2>1. at \in {"embed"} /\ (End(p) \/ (Goto(p, "rewrite", [j EXCEPT !.kind = "stm"]) /\ Kept))
      BY <1>7 DEF Embed, At
    <2> QED BY <1>0, <1>6, <2>1, Moves, EndsPlaced DEF Kinds
  <1>8. CASE Rewrite(p)
    <2>1. at \in {"rewrite"} /\ (End(p) \/ (Goto(p, "rewrite", [j EXCEPT !.kind = "ltm"]) /\ Kept))
      BY <1>8 DEF Rewrite, At
    <2> QED BY <1>0, <1>6, <2>1, Moves, EndsPlaced DEF Kinds
  <1> QED BY <1>1, <1>2, <1>3, <1>4, <1>5, <1>7, <1>8, ImportingPlaced DEF Commands

LEMMA ProcessesKept ==
    ASSUME Processes, Files, NEW p \in Procs, Locking(p) \/ Opening(p) \/ Commands(p)
    PROVE  Frame(p) /\ Processes'
  BY LockingPlaced, OpeningPlaced, CommandsPlaced, Placing

-----------------------------------------------------------------------------
(***************************************************************************)
(* The files.                                                              *)
(***************************************************************************)
\* Inodes and stores only come to be.
DiskGrows ==
    /\ there' \in BOOLEAN
    /\ inodes' \in 0..MaxInodes /\ inodes <= inodes' /\ lockFile' \in 0..inodes'
    /\ DOMAIN content \subseteq DOMAIN content' /\ DOMAIN content' \subseteq 1..inodes'
    /\ content' \in [DOMAIN content' -> Store]
    /\ file' \in [Kinds -> Nat] /\ \A k \in Kinds : Made(file[k])'

LEMMA DiskStays == ASSUME Files, UNCHANGED disk PROVE DiskGrows
  BY DEF Files, DiskGrows, disk, Made

\* A new inode with a store in it.
LEMMA FileMade ==
    ASSUME Files, inodes < MaxInodes, NEW k \in Kinds, NEW s \in Store,
           there' = there, lockFile' = lockFile, file' = [file EXCEPT ![k] = NewIno],
           content' = With(NewIno, s), inodes' = NewIno
    PROVE  DiskGrows
  <1>1. NewIno \in Nat /\ NewIno \notin DOMAIN content /\ NewIno \in 1..inodes'
    BY WorkspaceConstants DEF Files, NewIno
  <1>2. DOMAIN content' = DOMAIN content \cup {NewIno}
    BY DEF With
  <1>3. content' \in [DOMAIN content' -> Store]
    BY <1>2 DEF With, Files
  <1>4. DOMAIN content' \subseteq 1..inodes'
    BY <1>1, <1>2 DEF Files, NewIno
  <1>5. file' \in [Kinds -> Nat] /\ \A l \in Kinds : Made(file[l])'
    BY <1>1, <1>2 DEF Files, Made
  <1>6. inodes' \in 0..MaxInodes /\ inodes <= inodes' /\ lockFile' \in 0..inodes'
    BY WorkspaceConstants DEF Files, NewIno
  <1> QED BY <1>2, <1>3, <1>4, <1>5, <1>6 DEF Files, DiskGrows

\* A store written where there is one.
LEMMA StoreWritten ==
    ASSUME Files, NEW i \in DOMAIN content, NEW s \in Store,
           content' = [content EXCEPT ![i] = s], Rest
    PROVE  DiskGrows
  BY DEF Files, DiskGrows, Rest, Made

\* Whoever reads a store has one to read.
LEMMA OpenIsMade ==
    ASSUME Processes, Files, NEW p \in Procs
    PROVE  /\ pc[p] \in Reading => Ino(p) \in DOMAIN content
           /\ pc[p] \in Opened =>
                 \A k \in Kinds : conn[p][k] \in DOMAIN content
           /\ pc[p] # "none" => Kind(p) \in Kinds
           /\ pc[p] \in Reading \cup Opened => Me(p) \in Models /\ Dim[Me(p)] \in Nat \ {0}
  <1> PICK at, j, h, c : at = pc[p] /\ j = job[p] /\ h = held[p] /\ c = conn[p]
    OBVIOUS
  <1>1. Placed(at, j, h, c)
    BY DEF Processes
  <1>2. at # "none" => j \in Job /\ j.kind \in Kinds
    BY <1>1 DEF Placed, Job
  <1>3. at \in Reading \cup Opened => at # "none" /\ j.op # "delete"
    BY <1>1 DEF Placed, Reading, Opened, Adopting, Entering
  <1>4. at \in Reading \cup Opened => j.model \in Models
    BY <1>1, <1>3 DEF Placed
  <1>5. at \in Reading \cup Opened => Dim[j.model] \in Nat \ {0}
    BY <1>4, WorkspaceConstants
  <1>6. at \in Reading => c[j.kind] \in DOMAIN content
    BY <1>1, <1>2, <1>3 DEF Placed, Files, Made
  <1>7. at \in Opened => \A k \in Kinds : c[k] \in DOMAIN content
    BY <1>1 DEF Placed, Files, Made, Kinds
  <1> QED BY <1>2, <1>4, <1>5, <1>6, <1>7 DEF Ino, Kind, Me

\* What the transactions leave in a store.
Migration(s, k, m) ==
    [s EXCEPT !.version = Latest, !.kind = k, !.table = IF @ = 0 THEN Dim[m] ELSE @]
Rewriting(s, m) ==
    [s EXCEPT !.model = m, !.dim = Dim[m], !.table = Dim[m], !.vecs = Reembedded(@, m)]

LEMMA WritingStores ==
    ASSUME NEW s \in Store, NEW k \in Kinds, NEW m \in Models, Dim[m] \in Nat
    PROVE  /\ Migration(s, k, m) \in Store /\ Rewriting(s, m) \in Store
           /\ [s EXCEPT !.table = Dim[m]] \in Store /\ [s EXCEPT !.model = m] \in Store
           /\ [s EXCEPT !.dim = Dim[m]] \in Store /\ [s EXCEPT !.vecs = @ \cup {m}] \in Store
           /\ \A w \in BOOLEAN : [s EXCEPT !.whole = w] \in Store
  <1>1. Latest \in 0..Latest + 1 /\ Reembedded(s.vecs, m) \in SUBSET (Models \cup {Unknown})
    BY WorkspaceConstants DEF Reembedded
  <1>2. Migration(s, k, m) \in Store
    BY <1>1 DEF Store, Migration
  <1>3. Rewriting(s, m) \in Store
    BY <1>1 DEF Store, Rewriting
  <1>4. \A w \in BOOLEAN : [s EXCEPT !.whole = w] \in Store
    BY DEF Store
  <1>5. /\ [s EXCEPT !.table = Dim[m]] \in Store /\ [s EXCEPT !.model = m] \in Store
        /\ [s EXCEPT !.dim = Dim[m]] \in Store
    BY DEF Store
  <1>6. [s EXCEPT !.vecs = @ \cup {m}] \in Store
    BY DEF Store
  <1> QED BY <1>2, <1>3, <1>4, <1>5, <1>6

\* The steps that write the store a process has in hand.
Written(p) ==
    CASE pc[p] = "migrate"     -> Migration(Here(p), Kind(p), Me(p))
      [] pc[p] = "rebuild"     -> [Here(p) EXCEPT !.table = Dim[Me(p)]]
      [] pc[p] = "recordModel" -> [Here(p) EXCEPT !.model = Me(p)]
      [] pc[p] = "recordDim"   -> [Here(p) EXCEPT !.dim = Dim[Me(p)]]
      [] pc[p] = "rewrite"     -> Rewriting(Here(p), Me(p))
Storing(p) == Migrate(p) \/ Rebuild(p) \/ RecordModel(p) \/ RecordDim(p) \/ Rewrite(p)

LEMMA StoringWrites ==
    ASSUME Processes, Files, NEW p \in Procs, Storing(p)
    PROVE  /\ Ino(p) \in DOMAIN content /\ Here(p) \in Store /\ Written(p) \in Store
           /\ content' = [content EXCEPT ![Ino(p)] = Written(p)] /\ Rest
           /\ pc[p] \in {"migrate", "rewrite"} \cup Adopting
           /\ UNCHANGED <<crossed, jobs, crashes>>
  <1>1. pc[p] \in {"migrate", "rewrite"} \cup Adopting
    BY DEF Storing, Migrate, Rebuild, RecordModel, RecordDim, Rewrite, At, Adopting
  <1>2. Ino(p) \in DOMAIN content /\ Kind(p) \in Kinds /\ Me(p) \in Models /\ Dim[Me(p)] \in Nat
    <2>1. pc[p] \in Reading \cup Opened /\ pc[p] # "none"
      BY <1>1 DEF Adopting, Reading, Opened
    <2>2. Kind(p) \in Kinds
      BY <2>1, OpenIsMade
    <2> QED BY <2>1, <2>2, OpenIsMade DEF Ino
  <1>3. Here(p) \in Store
    BY <1>2 DEF Here, Files
  <1> PICK s, k, m : s = Here(p) /\ k = Kind(p) /\ m = Me(p)
    OBVIOUS
  <1>4. /\ Migration(s, k, m) \in Store /\ Rewriting(s, m) \in Store
        /\ [s EXCEPT !.table = Dim[m]] \in Store /\ [s EXCEPT !.model = m] \in Store
        /\ [s EXCEPT !.dim = Dim[m]] \in Store
    BY <1>2, <1>3, WritingStores
  <1>5. Written(p) \in Store
    BY <1>1, <1>4 DEF Written, Adopting
  <1>6. content' = [content EXCEPT ![Ino(p)] = Written(p)]
    <2>1. CASE Migrate(p)
      BY <2>1 DEF Migrate, At, Set, Written, Migration
    <2>2. CASE Rebuild(p)
      BY <2>2 DEF Rebuild, At, Set, Written
    <2>3. CASE RecordModel(p)
      BY <2>3 DEF RecordModel, At, Set, Written
    <2>4. CASE RecordDim(p)
      BY <2>4 DEF RecordDim, At, Set, Written
    <2>5. CASE Rewrite(p)
      BY <2>5 DEF Rewrite, At, Set, Written, Rewriting
    <2> QED BY <2>1, <2>2, <2>3, <2>4, <2>5 DEF Storing
  <1>7. Rest /\ UNCHANGED <<crossed, jobs, crashes>>
    BY DEF Storing, Migrate, Rebuild, RecordModel, RecordDim, Rewrite, At, Still
  <1> QED BY <1>1, <1>2, <1>3, <1>5, <1>6, <1>7

\* The steps that leave the disk alone.
Looking(p) ==
    \/ \E m \in Models : Serve(p, m) \/ Reembed(p, m) \/ Import(p, m)
    \/ Delete(p) \/ Lease(p) \/ LockExclusive(p) \/ ReadVersion(p) \/ BackUp(p)
    \/ CheckIdentity(p) \/ Close(p) \/ Snapshot(p) \/ Embed(p) \/ Imported(p) \/ Crash(p)

LEMMA DiskKept ==
    ASSUME Processes, Files, NEW p \in Procs, Locking(p) \/ Opening(p) \/ Commands(p)
    PROVE  DiskGrows
  <1>1. CASE Looking(p)
    <2>1. UNCHANGED disk
      BY <1>1 DEF Looking, Serve, Reembed, Import, Delete, Begin, Lease, LockExclusive, ReadVersion,
                  BackUp, CheckIdentity, Close, Snapshot, Embed, Imported, Crash
    <2> QED BY <2>1, DiskStays
  <1>2. CASE Storing(p)
    BY <1>2, StoringWrites, StoreWritten
  <1>3. CASE MakeDir(p) \/ RemoveDir(p)
    <2>1. there' \in BOOLEAN
      BY <1>3, Zenon DEF MakeDir, RemoveDir
    <2>2. UNCHANGED <<lockFile, file, content, inodes>>
      BY <1>3 DEF MakeDir, RemoveDir
    <2> QED BY <2>1, <2>2 DEF Files, DiskGrows, Made
  <1>4. CASE OpenLockFile(p)
    BY <1>4, WorkspaceConstants DEF OpenLockFile, Files, DiskGrows, Made, NewIno
  <1>5. CASE OpenFile(p)
    <2>1. CASE UNCHANGED disk
      BY <2>1, DiskStays
    <2>2. CASE ~UNCHANGED disk
      <3>1. /\ inodes < MaxInodes /\ file' = [file EXCEPT ![Kind(p)] = NewIno]
            /\ content' = With(NewIno, Blank) /\ inodes' = NewIno
        BY <1>5, <2>2 DEF OpenFile, disk
      <3>2. Blank \in Store
        BY WorkspaceConstants DEF Blank, Store
      <3>3. Kind(p) \in Kinds
        BY <1>5, OpenIsMade DEF OpenFile, At
      <3>4. there' = there /\ lockFile' = lockFile
        BY <1>5 DEF OpenFile
      <3> QED BY <3>1, <3>2, <3>3, <3>4, FileMade
    <2> QED BY <2>1, <2>2
  <1>6. CASE Unlink(p)
    <2>1. /\ lockFile' \in {0, lockFile} /\ file' = [k \in Kinds |-> file'[k]]
          /\ \A k \in Kinds : file'[k] \in {0, file[k]}
      BY <1>6 DEF Unlink
    <2>2. UNCHANGED <<there, content, inodes>>
      BY <1>6 DEF Unlink
    <2> QED BY <2>1, <2>2 DEF Files, DiskGrows, Made
  <1>7. CASE \E k \in Kinds : WriteVector(p, k)
    <2>1. PICK k \in Kinds : WriteVector(p, k)
      BY <1>7
    <2> PICK i, s : i = conn[p][k] /\ s = content[i]
      OBVIOUS
    <2>2. i \in DOMAIN content /\ Me(p) \in Models /\ Dim[Me(p)] \in Nat
      BY <2>1, OpenIsMade DEF WriteVector, At, Opened
    <2>3. s \in Store
      BY <2>2 DEF Files
    <2>4. [s EXCEPT !.vecs = @ \cup {Me(p)}] \in Store
      BY <2>2, <2>3, WritingStores DEF Kinds
    <2>5. content' = [content EXCEPT ![i] = [s EXCEPT !.vecs = @ \cup {Me(p)}]]
      BY <2>1 DEF WriteVector
    <2>6. Rest
      BY <2>1 DEF WriteVector
    <2> QED BY <2>2, <2>4, <2>5, <2>6, StoreWritten
  <1>8. CASE CopyDir(p)
    <2>1. there' \in BOOLEAN
      BY <1>8, Zenon DEF CopyDir, Files
    <2>2. UNCHANGED <<lockFile, file, content, inodes>>
      BY <1>8 DEF CopyDir
    <2> QED BY <2>1, <2>2 DEF Files, DiskGrows, Made
  <1>9. CASE Copy(p)
    <2>0. pc[p] = "copy" /\ Kind(p) \in Kinds /\ job[p].source \in Stores
      BY <1>9, OpenIsMade DEF Copy, At, Processes, Placed
    <2> PICK s : s = [job[p].source[Kind(p)] EXCEPT !.whole = FALSE]
      OBVIOUS
    <2>1. s \in Store
      <3>1. job[p].source[Kind(p)] \in Store
        BY <2>0, WorkspaceConstants
      <3> QED BY <3>1 DEF Store
    <2>2. CASE file[Kind(p)] = 0
      <3>1. /\ inodes < MaxInodes /\ file' = [file EXCEPT ![Kind(p)] = NewIno]
            /\ content' = With(NewIno, s) /\ inodes' = NewIno
            /\ there' = there /\ lockFile' = lockFile
        BY <1>9, <2>2 DEF Copy
      <3> QED BY <2>0, <2>1, <3>1, FileMade
    <2>3. CASE file[Kind(p)] # 0
      <3> PICK i : i = file[Kind(p)]
        OBVIOUS
      <3>1. i \in DOMAIN content
        BY <2>0, <2>3 DEF Files, Made
      <3>2. /\ file' = [file EXCEPT ![Kind(p)] = i] /\ content' = With(i, s) /\ inodes' = inodes
            /\ there' = there /\ lockFile' = lockFile /\ backups' = backups
        BY <1>9, <2>3 DEF Copy
      <3>3. file' = file
        BY <3>2 DEF Files
      <3>4. DOMAIN content \cup {i} = DOMAIN content
        BY <3>1
      <3>5. content' = [content EXCEPT ![i] = s]
        BY <3>1, <3>2, <3>4 DEF With, Files
      <3>6. Rest
        BY <3>2, <3>3 DEF Rest
      <3> QED BY <2>1, <3>1, <3>5, <3>6, StoreWritten
    <2> QED BY <2>2, <2>3
  <1>10. CASE CopyDone(p)
    <2>1. Rest
      BY <1>10 DEF CopyDone
    <2>2. CASE content' = content
      BY <2>1, <2>2, DiskStays DEF Rest, disk
    <2>3. CASE content' # content
      <3> PICK i, s : i = job[p].fd /\ s = content[i]
        OBVIOUS
      <3>1. content' = [content EXCEPT ![i] = [s EXCEPT !.whole = TRUE]]
        BY <1>10, <2>3 DEF CopyDone
      <3>2. i \in DOMAIN content
        BY <1>10 DEF CopyDone, At, Files
      <3>3. s \in Store
        BY <3>2 DEF Files
      <3>4. [s EXCEPT !.whole = TRUE] \in Store
        BY <3>3 DEF Store
      <3> QED BY <2>1, <3>1, <3>2, <3>4, StoreWritten
    <2> QED BY <2>2, <2>3
  <1>11. CASE Discard(p)
    <2>1. there' \in BOOLEAN
      BY <1>11, Zenon DEF Discard
    <2>2. lockFile' = 0 /\ file' = NoConn /\ UNCHANGED <<content, inodes>>
      BY <1>11 DEF Discard
    <2> QED BY <2>1, <2>2 DEF NoConn, Files, DiskGrows, Made
  <1> QED BY <1>1, <1>2, <1>3, <1>4, <1>5, <1>6, <1>7, <1>8, <1>9, <1>10, <1>11
          DEF Locking, Opening, Commands, Looking, Storing

\* What a process has in hand is on that disk.
Grips(p) ==
    /\ held[p].ino \in 0..inodes
    /\ \A k \in Kinds : Made(conn[p][k])
    /\ pc[p] # "none" => job[p].fd \in 0..inodes
    /\ pc[p] = "copying" => job[p].fd \in DOMAIN content

LEMMA EndGrips == ASSUME DiskGrows, Files, NEW p, Ends(p) PROVE Grips(p)'
  BY DEF Ends, Free, NoConn, Grips, Made, DiskGrows, Files

LEMMA GoGrips ==
    ASSUME Files, DiskGrows, NEW p \in Procs, pc[p] # "none",
           NEW at, at # "copying", NEW j, j.fd = job[p].fd, Goes(p, at, j)
    PROVE  Grips(p)'
  BY DEF Goes, Grips, Made, DiskGrows, Files

LEMMA OutcomesGrip ==
    ASSUME Processes, Files, DiskGrows, NEW p \in Procs, pc[p] \in Entering,
           Fails(p) \/ GoesOn(p) \/ Admits(p)
    PROVE  Grips(p)'
  <1>1. pc[p] # "none" /\ job[p] \in Job
    BY DEF Processes, Placed, Entering, Reading, Adopting
  <1>2. CASE Fails(p)
    BY <1>1, <1>2, EndGrips, GoGrips DEF Fails
  <1>3. CASE GoesOn(p)
    <2> PICK t : t = [job[p] EXCEPT !.kind = "ltm"]
      OBVIOUS
    <2>1. t.fd = job[p].fd
      BY <1>1, KindTurns DEF Kinds
    <2>2. \/ Goes(p, "open", t) \/ Ends(p) \/ Goes(p, "serving", job[p])
          \/ Goes(p, "imported", job[p]) \/ Goes(p, "embed", job[p])
      BY <1>3 DEF GoesOn
    <2> QED BY <1>1, <2>1, <2>2, EndGrips, GoGrips
  <1>4. CASE Admits(p)
    BY <1>1, <1>3, <1>4, GoGrips DEF Admits
  <1> QED BY <1>2, <1>3, <1>4

LEMMA GripsKept ==
    ASSUME Processes, Files, NEW p \in Procs, Locking(p) \/ Opening(p) \/ Commands(p)
    PROVE  Grips(p)'
  <1> PICK at, j : at = pc[p] /\ j = job[p]
    OBVIOUS
  <1>0. Shaped /\ DiskGrows /\ (at # "none" => j \in Job)
    BY DiskKept DEF Processes, Shaped, Placed
  <1>1. \A k \in Kinds : \A m :
           /\ j \in Job => [j EXCEPT !.kind = k].fd = j.fd
           /\ j \in Job => [j EXCEPT !.left = m].fd = j.fd
           /\ j \in Job => [j EXCEPT !.source = m].fd = j.fd
           /\ j \in Job => [j EXCEPT !.op = m, !.kind = k].fd = j.fd
    BY DEF Job
  <1>2. ASSUME NEW to, to # "copying", NEW t, t.fd = j.fd, Goto(p, to, t), Kept, at # "none"
        PROVE  Grips(p)'
    BY <1>0, <1>2, Moves, GoGrips
  <1>3. CASE \/ RemoveDir(p) \/ Close(p) \/ Crash(p) \/ Discard(p)
    BY <1>0, <1>3, Moves, EndGrips DEF RemoveDir, Close, Crash, Discard
  <1>4. CASE Delete(p) \/ \E m \in Models : Serve(p, m) \/ Reembed(p, m) \/ Import(p, m)
    <2>1. PICK op, m, where : Begin(p, op, m, where) /\ where \in {"dir", "lockFile", "copyDir"}
      BY <1>4 DEF Delete, Serve, Reembed, Import
    <2> PICK t : t = [op |-> op, model |-> m, kind |-> "stm", fd |-> 0,
                      left |-> {}, source |-> None]
      OBVIOUS
    <2>2. Goes(p, where, t)
      <3>1. Goto(p, where, t) /\ Kept
        BY <2>1 DEF Begin, Kept
      <3> QED BY <1>0, <3>1, Moves
    <2> QED BY <1>0, <2>1, <2>2 DEF Goes, Grips, Files, Made, DiskGrows
  <1>5. CASE MakeDir(p)
    BY <1>2, <1>5 DEF MakeDir, At
  <1>6. CASE OpenLockFile(p)
    <2>1. CASE ~there
      BY <1>0, <1>6, <2>1, Moves, EndGrips DEF OpenLockFile
    <2>2. CASE there
      <3> PICK t : t = [j EXCEPT !.fd = lockFile']
        OBVIOUS
      <3>1. t.fd = lockFile'
        BY <1>0, <1>6 DEF OpenLockFile, At, Job
      <3>2. PICK to \in {"exclusive", "lease"} : Goto(p, to, t) /\ Kept
        BY <1>6, <2>2 DEF OpenLockFile
      <3>3. Goes(p, to, t)
        BY <1>0, <3>2, Moves
      <3> QED BY <1>0, <3>1, <3>3 DEF Goes, Grips, Files, Made, DiskGrows
    <2> QED BY <2>1, <2>2 DEF Files
  <1>7. CASE Lease(p) \/ LockExclusive(p)
    <2>0. at # "none" /\ j \in Job
      BY <1>0, <1>7 DEF Lease, LockExclusive, At
    <2>1. CASE End(p)
      BY <1>0, <2>1, Moves, EndGrips
    <2>2. ASSUME NEW to, to # "copying", NEW t, t.fd = j.fd, Goto(p, to, t), NEW mode,
                 held' = [held EXCEPT ![p] = [ino |-> j.fd, mode |-> mode]], conn' = conn
          PROVE  Grips(p)'
      <3>1. held'[p].ino = j.fd /\ pc'[p] = to /\ job'[p] = t /\ conn'[p] = conn[p]
        BY <1>0, <2>2, Moves DEF Shaped
      <3> QED BY <1>0, <2>0, <2>2, <3>1 DEF Grips, Files, Made, DiskGrows
    <2>3. CASE Lease(p)
      BY <1>1, <2>0, <2>1, <2>2, <2>3 DEF Lease, Kinds
    <2>4. CASE LockExclusive(p) /\ ~End(p)
      <3> PICK left : left = ({lockFile} \cup {file[k] : k \in Kinds}) \ {0}
        OBVIOUS
      <3>1. held' = [held EXCEPT ![p] = [ino |-> j.fd, mode |-> "exclusive"]] /\ conn' = conn
        BY <2>4 DEF LockExclusive
      <3>2. Goto(p, "removing", [j EXCEPT !.left = left]) \/ Goto(p, "open", j)
        BY <2>4 DEF LockExclusive
      <3>3. [j EXCEPT !.left = left].fd = j.fd
        BY <2>0, <1>1 DEF Kinds
      <3> QED BY <2>2, <3>1, <3>2, <3>3
    <2> QED BY <1>7, <2>1, <2>3, <2>4
  <1>8. CASE OpenFile(p)
    <2>1. at \in Entering
      BY <1>8 DEF OpenFile, At, Entering
    <2>2. CASE Fail(p)
      BY <1>0, <2>1, <2>2, Outcomes, OutcomesGrip
    <2>3. CASE ~Fail(p)
      <3> PICK k, i : k = Kind(p) /\ i = file'[k]
        OBVIOUS
      <3>1. conn' = [conn EXCEPT ![p][k] = i] /\ Goto(p, "version", j) /\ held' = held
        BY <1>8, <2>3 DEF OpenFile
      <3>2. k \in Kinds
        BY <1>8, OpenIsMade DEF OpenFile, At
      <3>3. \A l \in Kinds : conn'[p][l] \in {conn[p][l], i}
        BY <1>0, <3>1 DEF Shaped
      <3>4. Made(i)'
        BY <1>0, <3>2 DEF DiskGrows, Made
      <3>5. pc'[p] = "version" /\ job'[p] = j /\ held'[p] = held[p]
        BY <1>0, <3>1, Moves
      <3>6. at # "none"
        BY <1>8 DEF OpenFile, At
      <3>7. \A l \in Kinds : Made(conn[p][l])'
        BY <1>0, <3>3, <3>4 DEF Files, DiskGrows, Made
      <3> QED BY <1>0, <3>5, <3>6, <3>7 DEF Grips, Files, DiskGrows
    <2> QED BY <2>2, <2>3
  <1>9. CASE \/ ReadVersion(p) \/ Migrate(p) \/ CheckIdentity(p) \/ RecordDim(p) \/ Snapshot(p)
    <2>1. at \in Entering /\ at # "none"
      BY <1>9 DEF ReadVersion, Migrate, CheckIdentity, RecordDim, Snapshot, At, Entering, Reading,
                  Adopting
    <2>2. \/ Fail(p) \/ NextStore(p) \/ Migrated(p)
          \/ \E to \in {"backup", "migrate", "rebuild", "recordModel"} : Goto(p, to, j) /\ Kept
      BY <1>9 DEF ReadVersion, Migrate, CheckIdentity, RecordDim, Snapshot
    <2> QED BY <1>0, <1>2, <2>1, <2>2, Outcomes, OutcomesGrip
  <1>10. CASE BackUp(p) \/ Rebuild(p) \/ RecordModel(p)
    BY <1>2, <1>10 DEF BackUp, Rebuild, RecordModel, At
  <1>11. CASE Unlink(p)
    <2>1. at # "none" /\ \E i \in j.left : Goto(p, "removing", [j EXCEPT !.left = j.left \ {i}]) /\ Kept
      BY <1>0, <1>11 DEF Unlink, At
    <2> QED BY <1>0, <1>1, <1>2, <2>1 DEF Kinds
  <1>12. CASE \E k \in Kinds : WriteVector(p, k)
    BY <1>0, <1>12 DEF WriteVector, At, Kept, Grips, Files, DiskGrows, Made
  <1>13. CASE Embed(p) \/ Rewrite(p)
    <2>1. at # "none" /\ \/ End(p)
                         \/ \E k \in Kinds : Goto(p, "rewrite", [j EXCEPT !.kind = k]) /\ Kept
      BY <1>13 DEF Embed, Rewrite, At, Kinds
    <2> QED BY <1>0, <1>1, <1>2, <2>1, Moves, EndGrips
  <1>14. CASE CopyDir(p)
    <2>1. at # "none" /\ \/ End(p)
                         \/ \E s \in Stores : Goto(p, "copy", [j EXCEPT !.source = s]) /\ Kept
      BY <1>14 DEF CopyDir, At
    <2> QED BY <1>0, <1>1, <1>2, <2>1, Moves, EndGrips DEF Kinds
  <1>15. CASE Copy(p)
    <2> PICK i : i = IF file[Kind(p)] = 0 THEN NewIno ELSE file[Kind(p)]
      OBVIOUS
    <2>1. Goto(p, "copying", [j EXCEPT !.fd = i]) /\ Kept /\ at = "copy"
      BY <1>15 DEF Copy, At
    <2> PICK t : t = [j EXCEPT !.fd = i]
      OBVIOUS
    <2>2. t.fd = i /\ Goes(p, "copying", t)
      BY <1>0, <2>1, Moves DEF Job
    <2>3. i \in DOMAIN content'
      BY <1>15 DEF Copy, With
    <2> QED BY <1>0, <2>1, <2>2, <2>3 DEF Goes, Grips, Files, Made, DiskGrows
  <1>16. CASE CopyDone(p)
    <2>1. at # "none" /\ Kept /\ \/ Goto(p, "copy", [j EXCEPT !.kind = "ltm"])
                                 \/ Goto(p, "dir", j) \/ Goto(p, "discard", j)
      BY <1>16 DEF CopyDone, At
    <2> QED BY <1>0, <1>1, <1>2, <2>1 DEF Kinds
  <1>17. CASE Imported(p)
    <2>1. PICK t : t = [j EXCEPT !.op = "verify", !.kind = "stm"]
      OBVIOUS
    <2>2. Release(p) /\ Goto(p, "dir", t) /\ at = "imported"
      BY <1>17, <2>1 DEF Imported, At
    <2>3. t.fd = j.fd
      BY <1>0, <1>1, <2>1, <2>2 DEF Kinds
    <2>4. pc'[p] = "dir" /\ job'[p] = t /\ held'[p] = Free /\ conn'[p] = NoConn
      BY <1>0, <2>2, Moves
    <2>5. held'[p].ino = 0 /\ \A k \in Kinds : conn'[p][k] = 0
      BY <2>4 DEF Free, NoConn
    <2>6. j.fd \in 0..inodes /\ inodes <= inodes' /\ inodes \in Nat /\ inodes' \in Nat
      <3>1. pc[p] # "none"
        BY <2>2
      <3>2. j.fd \in 0..inodes
        BY <3>1 DEF Files
      <3>3. inodes \in Nat /\ inodes <= inodes' /\ inodes' \in Nat
        BY <1>0, WorkspaceConstants DEF Files, DiskGrows
      <3> QED BY <3>2, <3>3
    <2>7. t.fd \in 0..inodes' /\ held'[p].ino \in 0..inodes'
      BY <2>3, <2>5, <2>6
    <2> QED BY <2>4, <2>5, <2>7 DEF Grips, Made
  <1>18. CASE Locking(p)
    BY <1>5, <1>6, <1>7, <1>18 DEF Locking
  <1>19. CASE Opening(p)
    BY <1>8, <1>9, <1>10, <1>19 DEF Opening
  <1>20. CASE Commands(p)
    BY <1>3, <1>4, <1>9, <1>11, <1>12, <1>13, <1>14, <1>15, <1>16, <1>17, <1>20 DEF Commands
  <1> QED BY <1>18, <1>19, <1>20

LEMMA FilesKept ==
    ASSUME Processes, Files, NEW p \in Procs, Locking(p) \/ Opening(p) \/ Commands(p)
    PROVE  Files'
  <1>1. Frame(p) /\ DiskGrows /\ Grips(p)'
    BY ProcessesKept, DiskKept, GripsKept
  <1>2. ASSUME NEW q \in Procs PROVE Grips(q)'
    <2>1. CASE q = p
      BY <1>1, <2>1
    <2>2. CASE q # p
      <3>1. /\ pc'[q] = pc[q] /\ job'[q] = job[q] /\ held'[q] = held[q] /\ conn'[q] = conn[q]
        BY <1>1, <2>2 DEF Frame, Processes
      <3>2. Grips(q)
        BY DEF Files, Grips
      <3> QED BY <1>1, <3>1, <3>2 DEF Grips, Made, DiskGrows, Files
    <2> QED BY <2>1, <2>2
  <1>3. crossed' \in BOOLEAN
    <2>1. crossed' = crossed \/ crossed' \in BOOLEAN
      <3>1. CASE Locking(p)
        BY <3>1, Zenon DEF Locking, MakeDir, OpenLockFile, Lease, LockExclusive, Still
      <3>2. CASE Opening(p)
        BY <3>2, Zenon DEF Opening, OpenFile, ReadVersion, BackUp, Migrate, CheckIdentity, Rebuild,
                           RecordModel, RecordDim, Still
      <3>3. CASE Commands(p)
        BY <3>3, Zenon DEF Commands, Serve, Reembed, Import, Delete, Begin, Unlink, RemoveDir,
                           WriteVector, Close, Snapshot, Embed, Rewrite, CopyDir, Copy, CopyDone,
                           Discard, Imported, Crash, Still
      <3> QED BY <3>1, <3>2, <3>3
    <2> QED BY <2>1, Zenon DEF Files
  <1>4. jobs' \in 0..MaxJobs /\ crashes' \in 0..MaxCrashes
    <2>1. jobs' = jobs \/ (jobs < MaxJobs /\ jobs' = jobs + 1)
      <3>1. CASE Locking(p)
        BY <3>1, Zenon DEF Locking, MakeDir, OpenLockFile, Lease, LockExclusive, At
      <3>2. CASE Opening(p)
        BY <3>2, Zenon DEF Opening, OpenFile, ReadVersion, BackUp, Migrate, CheckIdentity, Rebuild,
                           RecordModel, RecordDim, At
      <3>3. CASE Commands(p)
        BY <3>3, Zenon DEF Commands, Serve, Reembed, Import, Delete, Begin, Unlink, RemoveDir,
                           WriteVector, Close, Snapshot, Embed, Rewrite, CopyDir, Copy, CopyDone,
                           Discard, Imported, Crash, At
      <3> QED BY <3>1, <3>2, <3>3
    <2>2. crashes' = crashes \/ (crashes < MaxCrashes /\ crashes' = crashes + 1)
      <3>1. CASE Locking(p)
        BY <3>1, Zenon DEF Locking, MakeDir, OpenLockFile, Lease, LockExclusive, Still
      <3>2. CASE Opening(p)
        BY <3>2, Zenon DEF Opening, OpenFile, ReadVersion, BackUp, Migrate, CheckIdentity, Rebuild,
                           RecordModel, RecordDim, Still
      <3>3. CASE Commands(p)
        BY <3>3, Zenon DEF Commands, Serve, Reembed, Import, Delete, Begin, Unlink, RemoveDir,
                           WriteVector, Close, Snapshot, Embed, Rewrite, CopyDir, Copy, CopyDone,
                           Discard, Imported, Crash, Still
      <3> QED BY <3>1, <3>2, <3>3
    <2> QED BY <2>1, <2>2, WorkspaceConstants DEF Files
  <1> QED BY <1>1, <1>2, <1>3, <1>4 DEF Files, DiskGrows, Grips

-----------------------------------------------------------------------------
(***************************************************************************)
(* The lock.                                                               *)
(***************************************************************************)
\* A lock is taken by the rules, and otherwise only given back.
LEMMA Locks ==
    ASSUME Processes, Files, NEW p \in Procs, Locking(p) \/ Opening(p) \/ Commands(p)
    PROVE  \/ held'[p] = held[p] \/ held'[p] = Free
           \/ /\ Lease(p) /\ MayLease(p) /\ held'[p] = [ino |-> job[p].fd, mode |-> "shared"]
           \/ /\ LockExclusive(p) /\ MayLock(p)
              /\ held'[p] = [ino |-> job[p].fd, mode |-> "exclusive"]
  <1>0. Shaped
    BY DEF Processes, Shaped
  <1>1. Fail(p) \/ NextStore(p) \/ Migrated(p) => held'[p] = held[p] \/ held'[p] = Free
    BY <1>0, Outcomes DEF Fails, GoesOn, Admits, Goes, Ends
  <1>2. Kept \/ End(p) \/ Release(p) => held'[p] = held[p] \/ held'[p] = Free
    BY <1>0, Moves DEF Kept, Ends
  <1>3. CASE Locking(p)
    BY <1>0, <1>2, <1>3 DEF Locking, MakeDir, OpenLockFile, Lease, LockExclusive, Files, Shaped
  <1>4. CASE Opening(p)
    BY <1>1, <1>2, <1>4 DEF Opening, OpenFile, ReadVersion, BackUp, Migrate, CheckIdentity, Rebuild,
                            RecordModel, RecordDim
  <1>5. CASE Commands(p)
    BY <1>1, <1>2, <1>5 DEF Commands, Serve, Reembed, Import, Delete, Begin, Unlink, RemoveDir,
                            WriteVector, Close, Snapshot, Embed, Rewrite, CopyDir, Copy, CopyDone,
                            Discard, Imported, Crash, Kept, Files
  <1> QED BY <1>3, <1>4, <1>5

LEMMA ExclusionKept ==
    ASSUME Processes, Files, Exclusion, NEW p \in Procs, Locking(p) \/ Opening(p) \/ Commands(p)
    PROVE  Exclusion'
  <1>1. \A q \in Procs \ {p} : held'[q] = held[q]
    BY ProcessesKept DEF Frame, Processes
  <1>2. \A q \in Procs : held[q] \in Held /\ (held[q].mode = "exclusive" => held[q].ino # 0)
    BY DEF Processes, Placed, Unlocked, Locked, Free
  <1>3. CASE held'[p] = held[p]
    BY <1>1, <1>3 DEF Exclusion
  <1>4. CASE held'[p] = Free
    BY <1>1, <1>2, <1>4 DEF Exclusion, Free
  <1>5. CASE MayLease(p) /\ held'[p] = [ino |-> job[p].fd, mode |-> "shared"]
    BY <1>1, <1>2, <1>5 DEF Exclusion, MayLease, Holders
  <1>6. CASE MayLock(p) /\ held'[p] = [ino |-> job[p].fd, mode |-> "exclusive"]
    BY <1>1, <1>2, <1>6 DEF Exclusion, MayLock, Holders
  <1> QED BY <1>3, <1>4, <1>5, <1>6, Locks


-----------------------------------------------------------------------------
(***************************************************************************)
(* The directory.                                                          *)
(***************************************************************************)
Typed == Processes /\ Files /\ Exclusion
Steps(p) == Locking(p) \/ Opening(p) \/ Commands(p)

\* What is crossed stays crossed.
LEMMA CrossedStays ==
    ASSUME NEW p \in Procs, Steps(p)
    PROVE  crossed => crossed'
  <1>1. CASE Locking(p)
    BY <1>1, Zenon DEF Locking, MakeDir, OpenLockFile, Lease, LockExclusive, Still
  <1>2. CASE Opening(p)
    BY <1>2, Zenon DEF Opening, OpenFile, ReadVersion, BackUp, Migrate, CheckIdentity, Rebuild,
                       RecordModel, RecordDim, Still
  <1>3. CASE Commands(p)
    BY <1>3, Zenon DEF Commands, Serve, Reembed, Import, Delete, Begin, Unlink, RemoveDir,
                       WriteVector, Close, Snapshot, Embed, Rewrite, CopyDir, Copy, CopyDone,
                       Discard, Imported, Crash, Still
  <1> QED BY <1>1, <1>2, <1>3 DEF Steps

\* A process that has a store open, or is deleting, holds a lock.
LEMMA HoldersOnly ==
    ASSUME Processes, NEW q \in Procs
    PROVE  /\ pc[q] \in Outside => ~Holds(q)
           /\ pc[q] \notin Outside \cup {"discard"} => Holds(q)
           /\ \A k \in Kinds : conn[q][k] # 0 => Holds(q)
           /\ Holds(q) => held[q].mode \in {"shared", "exclusive"}
           /\ Removing(q) => held[q].mode = "exclusive"
  BY DEF Processes, Placed, Unlocked, Locked, Holds, Free, NoConn, Servers, Removing, Outside

\* While files are copied in, the others only come as far as the directory.
LEMMA UnderCopy ==
    ASSUME Typed, Directory, NEW p \in Procs, Steps(p), ~crossed',
           NEW q \in Procs \ {p}, Copying(q)
    PROVE  pc'[p] \in Before /\ there' /\ UNCHANGED <<file, content>>
  <1>0. Shaped /\ there /\ pc[p] \in Before
    BY DEF Typed, Processes, Shaped, Directory, Orderly
  <1>1. CASE pc[p] = "none"
    <2>1. PICK op, m, where : Begin(p, op, m, where) /\ where \in {"dir", "lockFile"}
      BY <1>0, <1>1 DEF Steps, Locking, Opening, Commands, MakeDir, OpenLockFile, Lease, LockExclusive,
          OpenFile, ReadVersion, BackUp, Migrate, CheckIdentity, Rebuild, RecordModel, RecordDim,
          Serve, Reembed, Import, Delete, Unlink, RemoveDir, WriteVector, Close, Snapshot, Embed,
          Rewrite, CopyDir, Copy, CopyDone, Discard, Imported, Crash, At
    <2>2. pc'[p] = where
      BY <1>0, <2>1, Moves DEF Begin
    <2> QED BY <1>0, <2>1, <2>2 DEF Before, Begin, disk
  <1>2. CASE pc[p] = "dir"
    <2>1. MakeDir(p) \/ Crash(p)
      BY <1>2 DEF Steps, Locking, Opening, Commands, MakeDir, OpenLockFile, Lease, LockExclusive,
          OpenFile, ReadVersion, BackUp, Migrate, CheckIdentity, Rebuild, RecordModel, RecordDim,
          Serve, Reembed, Import, Delete, Begin, Unlink, RemoveDir, WriteVector, Close, Snapshot,
          Embed, Rewrite, CopyDir, Copy, CopyDone, Discard, Imported, At
    <2> QED BY <1>0, <2>1, Moves DEF MakeDir, Crash, Before, disk, Ends
  <1>3. CASE pc[p] = "lockFile"
    <2>1. OpenLockFile(p) \/ Crash(p)
      BY <1>3 DEF Steps, Locking, Opening, Commands, MakeDir, OpenLockFile, Lease, LockExclusive,
          OpenFile, ReadVersion, BackUp, Migrate, CheckIdentity, Rebuild, RecordModel, RecordDim,
          Serve, Reembed, Import, Delete, Begin, Unlink, RemoveDir, WriteVector, Close, Snapshot,
          Embed, Rewrite, CopyDir, Copy, CopyDone, Discard, Imported, At
    <2>2. ~OpenLockFile(p)
      BY <1>0 DEF OpenLockFile, Unsettled, Copying
    <2> QED BY <1>0, <2>1, <2>2, Moves DEF Crash, Before, disk, Ends
  <1> QED BY <1>0, <1>1, <1>2, <1>3 DEF Before


\* The steps that name a file, or take a name away, and the others.
Naming(p) ==
    \/ MakeDir(p) \/ OpenLockFile(p) \/ Unlink(p) \/ RemoveDir(p) \/ OpenFile(p)
    \/ CopyDir(p) \/ Copy(p) \/ Discard(p)
Unnaming(p) ==
    \/ Looking(p) \/ Storing(p) \/ CopyDone(p) \/ \E k \in Kinds : WriteVector(p, k)

LEMMA NamesStay ==
    ASSUME NEW p \in Procs, Steps(p)
    PROVE  /\ Naming(p) \/ Unnaming(p)
           /\ Unnaming(p) => UNCHANGED <<there, lockFile, file>>
  <1>1. Naming(p) \/ Unnaming(p)
    <2>1. CASE Locking(p)
      BY <2>1 DEF Locking, Naming, Unnaming, Looking
    <2>2. CASE Opening(p)
      BY <2>2 DEF Opening, Naming, Unnaming, Looking, Storing
    <2>3. CASE Commands(p)
      BY <2>3 DEF Commands, Naming, Unnaming, Looking, Storing
    <2> QED BY <2>1, <2>2, <2>3 DEF Steps
  <1>2. ASSUME Looking(p) PROVE UNCHANGED <<there, lockFile, file>>
    BY <1>2 DEF Looking, Serve, Reembed, Import, Delete, Begin, Lease, LockExclusive, ReadVersion,
                BackUp, CheckIdentity, Close, Snapshot, Embed, Imported, Crash, disk
  <1>3. ASSUME Storing(p) PROVE UNCHANGED <<there, lockFile, file>>
    BY <1>3 DEF Storing, Migrate, Rebuild, RecordModel, RecordDim, Rewrite, Rest
  <1>4. ASSUME CopyDone(p) \/ \E k \in Kinds : WriteVector(p, k)
        PROVE  UNCHANGED <<there, lockFile, file>>
    BY <1>4 DEF CopyDone, WriteVector, Rest
  <1> QED BY <1>1, <1>2, <1>3, <1>4 DEF Unnaming

\* Under a lock the directory, the lock and the files there are stay.
LEMMA UnderLock ==
    ASSUME Typed, Directory, NEW p \in Procs, Steps(p), ~crossed',
           NEW q \in Procs \ {p}, Holds(q)
    PROVE  /\ there' /\ lockFile' = lockFile
           /\ \A k \in Kinds : file[k] # 0 => file'[k] = file[k]
  <1>0. there /\ ~Removing(p) /\ pc[q] # "none" /\ pc[q] \notin Before
    <2>1. there
      BY DEF Directory, Orderly
    <2>2. ~Removing(p)
      BY DEF Directory, Orderly
    <2>3. pc[q] \notin Outside
      BY HoldersOnly DEF Typed
    <2> QED BY <2>1, <2>2, <2>3 DEF Outside, Before
  <1>1. CASE Unnaming(p)
    BY <1>0, <1>1, NamesStay
  <1>2. CASE MakeDir(p)
    BY <1>2, <1>0 DEF MakeDir
  <1>3. CASE OpenLockFile(p)
    <2>1. lockFile # 0
      <3>1. held[q].ino = lockFile \/ Removing(q)
        BY DEF Directory, Orderly
      <3>2. ~Removing(q)
        BY <1>0, <1>3 DEF OpenLockFile, Unsettled, Removing
      <3> QED BY <3>1, <3>2 DEF Holds
    <2> QED BY <1>0, <1>3, <2>1 DEF OpenLockFile
  <1>4. CASE Unlink(p) \/ RemoveDir(p)
    BY <1>0, <1>4 DEF Unlink, RemoveDir, At, Removing
  <1>5. CASE OpenFile(p)
    <2>1. file' = file \/ (file[Kind(p)] = 0 /\ file' = [file EXCEPT ![Kind(p)] = NewIno])
      BY <1>5 DEF OpenFile
    <2>2. UNCHANGED <<there, lockFile>>
      BY <1>5 DEF OpenFile
    <2>3. \A k \in Kinds : file[k] # 0 => file'[k] = file[k]
      BY <2>1 DEF Typed, Files
    <2> QED BY <1>0, <2>2, <2>3
  <1>6. CASE CopyDir(p) \/ Discard(p)
    BY <1>0, <1>6 DEF CopyDir, Discard
  <1>7. CASE Copy(p)
    BY <1>0, <1>7 DEF Copy, At, Directory, Orderly, Copying
  <1> QED BY <1>1, <1>2, <1>3, <1>4, <1>5, <1>6, <1>7, NamesStay DEF Naming

\* A lock is taken on the file that is named .lock, and never beside a deletion.
LEMMA LockTaken ==
    ASSUME Typed, Directory, NEW p \in Procs, Steps(p), ~crossed', held'[p].ino # 0
    PROVE  \/ held'[p] = held[p]
           \/ /\ held'[p].ino = lockFile /\ (Lease(p) \/ LockExclusive(p))
              /\ there /\ \A q \in Procs \ {p} : ~Removing(q)
              /\ LockExclusive(p) => \A q \in Procs \ {p} : ~Holds(q)
  <1>1. CASE held'[p] = held[p] \/ held'[p] = Free
    BY <1>1 DEF Free
  <1>2. CASE ~(held'[p] = held[p] \/ held'[p] = Free)
    <2>1. /\ held'[p].ino = job[p].fd /\ (Lease(p) \/ LockExclusive(p))
          /\ LockExclusive(p) => MayLock(p)
          /\ Lease(p) => MayLease(p)
      <3>1. ~(Lease(p) /\ LockExclusive(p))
        BY DEF Lease, LockExclusive, At
      <3>2. \/ /\ Lease(p) /\ MayLease(p) /\ held'[p] = [ino |-> job[p].fd, mode |-> "shared"]
            \/ /\ LockExclusive(p) /\ MayLock(p)
               /\ held'[p] = [ino |-> job[p].fd, mode |-> "exclusive"]
        <4>1. Processes /\ Files /\ (Locking(p) \/ Opening(p) \/ Commands(p))
          BY DEF Typed, Steps
        <4> QED BY <1>2, <4>1, Locks
      <3> QED BY <3>1, <3>2
    <2>2. job[p].fd = lockFile
      <3>1. CASE Lease(p) /\ MayLease(p)
        BY <3>1 DEF Lease
      <3>2. CASE LockExclusive(p) /\ MayLock(p)
        BY <3>2 DEF LockExclusive
      <3> QED BY <2>1, <3>1, <3>2
    <2>3. there /\ lockFile # 0
      BY <2>1, <2>2 DEF Directory
    <2>4. ASSUME NEW q \in Procs \ {p}, Holds(q) PROVE held[q].ino = lockFile
      BY <2>3, <2>4 DEF Directory, Orderly
    <2>5. \A q \in Procs \ {p} : Removing(q) => Holds(q) /\ held[q].mode = "exclusive"
      BY HoldersOnly DEF Typed, Removing, Outside
    <2>6. CASE Lease(p)
      <3>1. \A q \in Procs \ {p} : Holds(q) => held[q].mode = "shared"
        BY <2>1, <2>2, <2>4, <2>6 DEF MayLease, Holders
      <3>2. ~LockExclusive(p)
        BY <2>6 DEF Lease, LockExclusive, At
      <3> QED BY <2>1, <2>2, <2>3, <2>5, <2>6, <3>1, <3>2
    <2>7. CASE LockExclusive(p)
      <3>1. \A q \in Procs \ {p} : ~Holds(q)
        BY <2>1, <2>2, <2>4, <2>7 DEF MayLock, Holders
      <3> QED BY <2>1, <2>2, <2>3, <2>5, <2>7, <3>1
    <2> QED BY <2>1, <2>6, <2>7
  <1> QED BY <1>1, <1>2

\* The steps a process copies by, deletes by, and connects by.
LEMMA Ways ==
    ASSUME Typed, NEW p \in Procs, Steps(p)
    PROVE  /\ Copying(p)' => CopyDir(p) \/ Copy(p) \/ CopyDone(p)
           /\ Removing(p)' => LockExclusive(p) \/ Unlink(p)
           /\ \/ conn'[p] = conn[p] \/ conn'[p] = NoConn
              \/ OpenFile(p) /\ conn' = [conn EXCEPT ![p][Kind(p)] = file'[Kind(p)]]
  <1>0. Shaped
    BY DEF Typed, Processes, Shaped
  <1> DEFINE Elsewhere == pc'[p] \notin {"copy", "copying", "removing"}
             Connects == conn'[p] = conn[p] \/ conn'[p] = NoConn
  <1>1. End(p) => Elsewhere /\ Connects
    BY <1>0, Moves DEF Ends
  <1>2. ASSUME Fail(p) \/ NextStore(p) \/ Migrated(p) PROVE Elsewhere /\ Connects
    BY <1>0, <1>2, Outcomes DEF Fails, GoesOn, Admits, Goes, Ends
  <1>3. ASSUME NEW at, NEW j, Goto(p, at, j), at \notin {"copy", "copying", "removing"}
        PROVE  Elsewhere
    BY <1>0, <1>3, Moves
  <1>4. Kept \/ Release(p) => Connects
    BY <1>0, Moves DEF Kept
  <1> HIDE DEF Elsewhere, Connects
  <1>5. ASSUME NEW op, NEW m, NEW where, where \notin {"copy", "copying", "removing"},
               Begin(p, op, m, where)
        PROVE  Elsewhere /\ Connects
    BY <1>3, <1>4, <1>5 DEF Begin, Kept
  <1>6. CASE MakeDir(p) \/ BackUp(p) \/ Rebuild(p) \/ RecordModel(p) \/ Imported(p)
    <2>1. Elsewhere
      BY <1>3, <1>6 DEF MakeDir, BackUp, Rebuild, RecordModel, Imported
    <2>2. Connects
      BY <1>4, <1>6 DEF MakeDir, BackUp, Rebuild, RecordModel, Imported
    <2> QED BY <2>1, <2>2 DEF Elsewhere, Connects, Copying, Removing
  <1>7. CASE OpenLockFile(p)
    <2>1. End(p) \/ Kept
      BY <1>7 DEF OpenLockFile
    <2>2. End(p) \/ \E j : Goto(p, "exclusive", j) \/ Goto(p, "lease", j)
      BY <1>7 DEF OpenLockFile
    <2> QED BY <1>1, <1>3, <1>4, <2>1, <2>2 DEF Elsewhere, Connects, Copying, Removing
  <1>8. CASE Lease(p)
    <2>1. End(p) \/ (conn' = conn /\ \E j : Goto(p, "open", j))
      BY <1>8 DEF Lease
    <2> QED BY <1>1, <1>3, <2>1 DEF Elsewhere, Connects, Copying, Removing
  <1>9. CASE LockExclusive(p)
    <2>1. End(p) \/ (conn' = conn /\ pc'[p] \notin {"copy", "copying"})
      <3>1. End(p) \/ (conn' = conn /\ \E j : Goto(p, "open", j) \/ Goto(p, "removing", j))
        BY <1>9 DEF LockExclusive
      <3> QED BY <1>0, <3>1, Moves
    <2> QED BY <1>1, <1>9, <2>1 DEF Elsewhere, Connects, Copying, Removing
  <1>10. CASE OpenFile(p)
    <2>1. \/ Fail(p)
          \/ /\ conn' = [conn EXCEPT ![p][Kind(p)] = file'[Kind(p)]]
             /\ Goto(p, "version", job[p])
      BY <1>10 DEF OpenFile
    <2> QED BY <1>2, <1>3, <1>10, <2>1 DEF Elsewhere, Connects, Copying, Removing
  <1>11. CASE ReadVersion(p) \/ Migrate(p) \/ CheckIdentity(p) \/ RecordDim(p) \/ Snapshot(p)
    <2>1. \/ Fail(p) \/ NextStore(p) \/ Migrated(p)
          \/ \E to \in {"backup", "migrate", "rebuild", "recordModel"} : Goto(p, to, job[p]) /\ Kept
      BY <1>11 DEF ReadVersion, Migrate, CheckIdentity, RecordDim, Snapshot
    <2> QED BY <1>2, <1>3, <1>4, <2>1 DEF Elsewhere, Connects, Copying, Removing
  <1>12. CASE RemoveDir(p) \/ Close(p) \/ Crash(p) \/ Discard(p)
    <2>1. End(p)
      BY <1>12 DEF RemoveDir, Close, Crash, Discard
    <2> QED BY <1>1, <2>1 DEF Elsewhere, Connects, Copying, Removing
  <1>13. CASE Delete(p) \/ \E m \in Models : Serve(p, m) \/ Reembed(p, m) \/ Import(p, m)
    <2>1. PICK op, m, where : Begin(p, op, m, where) /\ where \in {"dir", "lockFile", "copyDir"}
      BY <1>13 DEF Delete, Serve, Reembed, Import
    <2> QED BY <1>5, <2>1 DEF Elsewhere, Connects, Copying, Removing
  <1>14. CASE Unlink(p)
    <2>1. Kept /\ \E j : Goto(p, "removing", j)
      BY <1>14 DEF Unlink
    <2>2. pc'[p] = "removing"
      BY <1>0, <2>1, Moves
    <2> QED BY <1>4, <1>14, <2>1, <2>2 DEF Connects, Copying, Removing
  <1>15. CASE \E k \in Kinds : WriteVector(p, k)
    BY <1>15 DEF WriteVector, At, Kept, Copying, Removing
  <1>16. CASE Embed(p) \/ Rewrite(p)
    <2>1. End(p) \/ (Kept /\ \E j : Goto(p, "rewrite", j))
      BY <1>16 DEF Embed, Rewrite
    <2> QED BY <1>1, <1>3, <1>4, <2>1 DEF Elsewhere, Connects, Copying, Removing
  <1>17. CASE CopyDir(p) \/ Copy(p) \/ CopyDone(p)
    <2>1. /\ End(p) \/ Kept
          /\ \/ End(p)
             \/ \E j, at : Goto(p, at, j) /\ at \in {"copy", "copying", "dir", "discard"}
      BY <1>17 DEF CopyDir, Copy, CopyDone
    <2>2. pc'[p] # "removing"
      BY <1>0, <2>1, Moves DEF Ends
    <2> QED BY <1>1, <1>4, <1>17, <2>1, <2>2 DEF Connects, Copying, Removing
  <1>18. CASE Locking(p)
    BY <1>6, <1>7, <1>8, <1>9, <1>18 DEF Locking
  <1>19. CASE Opening(p)
    BY <1>6, <1>10, <1>11, <1>19 DEF Opening
  <1>20. CASE Commands(p)
    BY <1>6, <1>11, <1>12, <1>13, <1>14, <1>15, <1>16, <1>17, <1>20 DEF Commands
  <1> QED BY <1>18, <1>19, <1>20 DEF Steps

LEMMA OthersOrderly ==
    ASSUME Typed, Directory, NEW p \in Procs, Steps(p), ~crossed', NEW q \in Procs \ {p}
    PROVE  Orderly(q)'
  <1>1. \A r \in Procs \ {p} :
           pc'[r] = pc[r] /\ job'[r] = job[r] /\ held'[r] = held[r] /\ conn'[r] = conn[r]
    BY ProcessesKept DEF Typed, Steps, Frame, Processes
  <1>2. Orderly(q)
    BY DEF Directory
  <1>3. CASE Copying(q)
    <2>1. pc'[p] \in Before /\ there' /\ UNCHANGED <<file, content>>
      BY <1>3, UnderCopy
    <2>2. \A r \in Procs \ {q} : pc'[r] \in Before
      BY <1>1, <1>2, <1>3, <2>1 DEF Orderly
    <2>3. ~Holds(q) /\ ~Removing(q) /\ \A k \in Kinds : conn[q][k] = 0
      <3>1. pc[q] \in Outside /\ conn[q] = NoConn
        BY <1>3 DEF Copying, Outside, Typed, Processes, Placed, Unlocked
      <3> QED BY <1>3, <3>1, HoldersOnly DEF Typed, NoConn, Copying, Removing
    <2> QED BY <1>1, <1>2, <2>1, <2>2, <2>3 DEF Orderly, Copying, Holds, Removing, Kind
  <1>4. CASE ~Copying(q)
    <2>1. Holds(q) => there' /\ lockFile' = lockFile /\ \A k \in Kinds : file[k] # 0 => file'[k] = file[k]
      BY UnderLock
    <2>2. \A k \in Kinds : conn'[q][k] \in {0, file'[k]}
      BY <1>1, <1>2, <2>1, HoldersOnly DEF Typed, Orderly
    <2>3. ASSUME Removing(q) PROVE \A r \in Procs \ {q} : ~Holds(r)'
      <3>1. \A r \in Procs \ {q} : ~Holds(r)
        BY <1>2, <2>3 DEF Orderly
      <3>2. ~Holds(p)'
        BY <2>3, <3>1, LockTaken DEF Holds
      <3> QED BY <1>1, <3>1, <3>2 DEF Holds
    <2> QED BY <1>1, <1>2, <1>4, <2>1, <2>2, <2>3 DEF Orderly, Copying, Holds, Removing
  <1> QED BY <1>3, <1>4

\* A deletion goes on until the directory is gone.
LEMMA RemovingOnly ==
    ASSUME Typed, NEW p \in Procs, Steps(p), Removing(p), held'[p] = held[p]
    PROVE  Unlink(p)
  <1>1. Unlink(p) \/ RemoveDir(p) \/ Crash(p)
    BY DEF Removing, Steps, Locking, Opening, Commands, MakeDir, OpenLockFile, Lease, LockExclusive,
        OpenFile, ReadVersion, BackUp, Migrate, CheckIdentity, Rebuild, RecordModel, RecordDim,
        Serve, Reembed, Import, Delete, Begin, Unlink, RemoveDir, WriteVector, Close, Snapshot,
        Embed, Rewrite, CopyDir, Copy, CopyDone, Discard, Imported, At
  <1>2. Holds(p)
    BY HoldersOnly DEF Typed, Removing, Outside
  <1>3. ~End(p)
    BY <1>2, Moves DEF Typed, Processes, Shaped, Ends, Free, Holds
  <1> QED BY <1>1, <1>3 DEF RemoveDir, Crash

LEMMA HoldersThen ==
    ASSUME Processes', NEW q \in Procs, Removing(q)'
    PROVE  Holds(q)'
  BY DEF Processes, Placed, Unlocked, Locked, Holds, Free, NoConn, Servers, Removing, Outside

LEMMA SelfOrderly ==
    ASSUME Typed, Directory, NEW p \in Procs, Steps(p), ~crossed'
    PROVE  Orderly(p)'
  <1>1. \A r \in Procs \ {p} :
           pc'[r] = pc[r] /\ job'[r] = job[r] /\ held'[r] = held[r] /\ conn'[r] = conn[r]
    BY ProcessesKept DEF Typed, Steps, Frame, Processes
  <1>2. Orderly(p) /\ Shaped /\ Processes'
    BY ProcessesKept DEF Directory, Typed, Steps, Processes, Shaped
  <1>3. CASE Copying(p)'
    <2>1. ~Holds(p)' /\ ~Removing(p)' /\ \A k \in Kinds : conn'[p][k] = 0
      <3>1. Placed(pc'[p], job'[p], held'[p], conn'[p]) /\ pc'[p] \in {"copy", "copying"}
        BY <1>2, <1>3 DEF Processes, Copying
      <3>2. held'[p] = Free /\ conn'[p] = NoConn
        BY <3>1 DEF Placed, Outside, Unlocked
      <3> QED BY <3>1, <3>2 DEF Holds, Removing, Free, NoConn
    <2>2. ASSUME there', \A q \in Procs \ {p} : pc'[q] \in Before,
                 pc'[p] = "copy" => file'[job'[p].kind] = 0,
                 pc'[p] = "copying" => /\ job'[p].fd = file'[job'[p].kind]
                                       /\ content'[job'[p].fd].whole = FALSE,
                 job'[p].kind = "stm" => file'["ltm"] = 0
          PROVE  Orderly(p)'
      BY <2>1, <2>2 DEF Orderly, Kind
    <2>3. CASE CopyDir(p)
      <3>1. CASE there
        BY <1>2, <1>3, <2>3, <3>1, Moves DEF CopyDir, Copying, Ends
      <3>2. CASE ~there
        <4>1. there' /\ pc'[p] = "copy" /\ file' = file /\ file = NoConn
          <5>1. PICK s \in Stores : Goto(p, "copy", [job[p] EXCEPT !.source = s])
            BY <2>3, <3>2 DEF CopyDir
          <5>2. pc'[p] = "copy"
            BY <1>2, <5>1, Moves
          <5> QED BY <2>3, <3>2, <5>2 DEF CopyDir, Directory
        <4>2. \A q \in Procs \ {p} : pc[q] = "none"
          BY <2>3 DEF CopyDir
        <4>3. job'[p].kind \in Kinds
          BY <1>2, <4>1 DEF Processes, Placed, Job
        <4> QED BY <1>1, <2>2, <4>1, <4>2, <4>3 DEF Before, NoConn, Kinds
      <3> QED BY <3>1, <3>2 DEF Typed, Files
    <2>4. CASE Copy(p)
      <3>0. PICK k, i, j, s : /\ k = Kind(p) /\ i = NewIno /\ j = [job[p] EXCEPT !.fd = i]
                              /\ s = [job[p].source[k] EXCEPT !.whole = FALSE]
        OBVIOUS
      <3>1. pc[p] = "copy" /\ k \in Kinds /\ job[p] \in Job /\ file[k] = 0
        BY <1>2, <2>4, <3>0, OpenIsMade DEF Copy, At, Typed, Processes, Placed, Orderly
      <3>2. /\ pc'[p] = "copying" /\ job'[p] = j /\ file' = [file EXCEPT ![k] = i]
            /\ content' = With(i, s) /\ there' = there
        BY <1>2, <2>4, <3>0, <3>1, Moves DEF Copy
      <3>3. j.fd = i /\ j.kind = k
        BY <3>0, <3>1 DEF Job, Kind
      <3>4. s.whole = FALSE
        <4>1. job[p].source[k] \in Store
          BY <3>1, WorkspaceConstants DEF Typed, Processes, Placed
        <4> QED BY <3>0, <4>1 DEF Store
      <3>5. content'[i] = s
        BY <3>2 DEF With
      <3>6. there /\ \A q \in Procs \ {p} : pc[q] \in Before
        BY <1>2, <3>1 DEF Orderly, Copying
      <3>7. file'[k] = i /\ (k = "stm" => file'["ltm"] = 0)
        BY <1>2, <3>0, <3>1, <3>2 DEF Typed, Files, Kinds, Orderly, Copying, Kind
      <3> QED BY <1>1, <2>2, <3>2, <3>3, <3>4, <3>5, <3>6, <3>7
    <2>5. CASE CopyDone(p)
      <3>1. pc[p] = "copying" /\ job[p] \in Job
        BY <2>5 DEF CopyDone, At, Typed, Processes, Placed
      <3>2. PICK j : j = [job[p] EXCEPT !.kind = "ltm"]
        OBVIOUS
      <3>3. Kind(p) = "stm" /\ pc'[p] = "copy" /\ job'[p] = j /\ file' = file /\ there' = there
        <4>1. \/ Kind(p) = "stm" /\ Goto(p, "copy", j)
              \/ Goto(p, "dir", job[p]) \/ Goto(p, "discard", job[p])
          BY <2>5, <3>2 DEF CopyDone
        <4>2. ~(Goto(p, "dir", job[p]) \/ Goto(p, "discard", job[p]))
          BY <1>2, <1>3, Moves DEF Copying
        <4>3. Kind(p) = "stm" /\ pc'[p] = "copy" /\ job'[p] = j
          BY <1>2, <4>1, <4>2, Moves
        <4> QED BY <2>5, <4>3 DEF CopyDone, Rest
      <3>4. j.kind = "ltm"
        BY <3>1, <3>2 DEF Job, Kinds
      <3>5. there /\ file["ltm"] = 0 /\ \A q \in Procs \ {p} : pc[q] \in Before
        BY <1>2, <3>1, <3>3 DEF Orderly, Copying
      <3> QED BY <1>1, <2>2, <3>3, <3>4, <3>5
    <2> QED BY <1>3, <2>3, <2>4, <2>5, Ways
  <1>4. CASE ~Copying(p)'
    <2>1. ASSUME Holds(p)' PROVE there' /\ (held'[p].ino = lockFile' \/ (Removing(p)' /\ lockFile' = 0))
      <3>1. CASE held'[p] = held[p]
        <4>1. Holds(p) /\ there /\ (held[p].ino = lockFile \/ (Removing(p) /\ lockFile = 0))
          BY <1>2, <2>1, <3>1 DEF Holds, Orderly
        <4>2. CASE Unnaming(p) \/ MakeDir(p) \/ OpenFile(p) \/ Copy(p)
          <5>1. there' /\ lockFile' = lockFile
            BY <4>1, <4>2, NamesStay DEF MakeDir, OpenFile, Copy
          <5>2. ~Removing(p) \/ lockFile # 0 \/ Removing(p)'
            <6> SUFFICES ASSUME Removing(p) PROVE Removing(p)'
              OBVIOUS
            <6>1. PICK j : Goto(p, "removing", j)
              BY <3>1, RemovingOnly DEF Unlink
            <6> QED BY <1>2, <6>1, Moves DEF Removing
          <5> QED BY <3>1, <4>1, <5>1, <5>2
        <4>3. CASE OpenLockFile(p) \/ CopyDir(p)
          BY <4>1, <4>3, HoldersOnly DEF OpenLockFile, CopyDir, At, Outside, Typed
        <4>4. CASE Unlink(p)
          <5>1. pc'[p] = "removing" /\ there' = there /\ lockFile' \in {lockFile, 0}
            BY <1>2, <4>4, Moves DEF Unlink
          <5> QED BY <3>1, <4>1, <5>1 DEF Removing
        <4>5. CASE RemoveDir(p) \/ Discard(p)
          BY <1>2, <2>1, <4>5, Moves DEF RemoveDir, Discard, Ends, Holds, Free
        <4> QED BY <4>2, <4>3, <4>4, <4>5, NamesStay DEF Naming
      <3>2. CASE held'[p] # held[p]
        <4>1. held'[p].ino = lockFile /\ (Lease(p) \/ LockExclusive(p)) /\ there
          BY <2>1, <3>2, LockTaken DEF Holds
        <4>2. lockFile' = lockFile /\ there' = there
          BY <4>1 DEF Lease, LockExclusive, disk
        <4> QED BY <4>1, <4>2
      <3> QED BY <3>1, <3>2
    <2>2. ASSUME Removing(p)' PROVE \A q \in Procs \ {p} : ~Holds(q)'
      <3>1. CASE LockExclusive(p)
        <4>1. Holds(p)'
          BY <1>2, <2>2, HoldersThen
        <4>2. held'[p] # held[p]
          BY <3>1, <4>1, HoldersOnly DEF LockExclusive, At, Typed, Outside, Holds
        <4> QED BY <1>1, <3>1, <4>1, <4>2, LockTaken DEF Holds
      <3>2. CASE Unlink(p)
        BY <1>1, <1>2, <3>2 DEF Unlink, At, Orderly, Removing, Holds
      <3> QED BY <2>2, <3>1, <3>2, Ways
    <2>3. ASSUME NEW k \in Kinds PROVE conn'[p][k] \in {0, file'[k]}
      <3>1. CASE conn'[p] = NoConn
        BY <3>1 DEF NoConn
      <3>2. CASE OpenFile(p) /\ conn' = [conn EXCEPT ![p][Kind(p)] = file'[Kind(p)]]
        <4>1. conn'[p][k] = IF k = Kind(p) THEN file'[k] ELSE conn[p][k]
          BY <1>2, <3>2, OpenIsMade DEF OpenFile, At, Shaped, Typed, Processes, Placed
        <4>2. k # Kind(p) => file'[k] = file[k]
          BY <3>2 DEF OpenFile, Typed, Files
        <4> QED BY <1>2, <4>1, <4>2 DEF Orderly
      <3>3. CASE conn'[p] = conn[p]
        <4>1. CASE conn[p][k] = 0
          BY <3>3, <4>1
        <4>2. CASE conn[p][k] # 0
          <5>1. pc[p] \notin Outside /\ ~Removing(p) /\ conn[p][k] = file[k]
            <6>1. conn[p] # NoConn
              BY <4>2 DEF NoConn
            <6> QED BY <1>2, <4>2, <6>1 DEF Typed, Processes, Placed, Unlocked, Removing, Orderly
          <5>2. ~(MakeDir(p) \/ OpenLockFile(p) \/ Unlink(p) \/ RemoveDir(p) \/ CopyDir(p) \/ Copy(p))
            BY <5>1 DEF MakeDir, OpenLockFile, Unlink, RemoveDir, CopyDir, Copy, At, Outside, Removing
          <5>3. ~Discard(p)
            BY <1>2, <3>3, <4>2, Moves DEF Discard, Ends, NoConn
          <5>4. OpenFile(p) => file'[k] = file[k]
            BY <4>2, <5>1 DEF OpenFile, Typed, Files
          <5> QED BY <3>3, <5>1, <5>2, <5>3, <5>4, NamesStay DEF Naming
        <4> QED BY <4>1, <4>2
      <3> QED BY <3>1, <3>2, <3>3, Ways
    <2> QED BY <1>4, <2>1, <2>2, <2>3 DEF Orderly, Copying
  <1> QED BY <1>3, <1>4

LEMMA DirectoryKept ==
    ASSUME Typed, Directory, NEW p \in Procs, Steps(p), ~crossed'
    PROVE  Directory'
  <1>1. \A q \in Procs : Orderly(q)'
    BY SelfOrderly, OthersOrderly
  <1>2. ~there' => lockFile' = 0 /\ file' = NoConn
    <2>1. CASE Unnaming(p)
      BY <2>1, NamesStay DEF Directory
    <2>2. CASE MakeDir(p) \/ OpenLockFile(p) \/ OpenFile(p) \/ CopyDir(p) \/ Discard(p)
      BY <2>2 DEF MakeDir, OpenLockFile, OpenFile, CopyDir, Discard, Directory
    <2>3. CASE Unlink(p) \/ Copy(p)
      <3>1. there
        BY <2>3, HoldersOnly DEF Typed, Unlink, Copy, At, Outside, Directory, Orderly, Copying
      <3> QED BY <2>3, <3>1 DEF Unlink, Copy
    <2>4. CASE RemoveDir(p)
      <3>1. ~there' => lockFile = 0 /\ \A k \in Kinds : file[k] = 0
        BY <2>4, Zenon DEF RemoveDir
      <3>2. UNCHANGED <<lockFile, file>>
        BY <2>4 DEF RemoveDir
      <3> QED BY <3>1, <3>2 DEF NoConn, Typed, Files
    <2> QED BY <2>1, <2>2, <2>3, <2>4, NamesStay DEF Naming
  <1>3. file'["stm"] = file'["ltm"] => file'["stm"] = 0
    <2>1. CASE file' = file \/ file' = NoConn
      BY <2>1 DEF Directory, NoConn, Kinds
    <2>2. ASSUME NEW k \in Kinds, file' = [file EXCEPT ![k] = NewIno]
          PROVE  file'["stm"] = file'["ltm"] => file'["stm"] = 0
      <3>1. \A l \in Kinds : file[l] # NewIno
        BY DEF Typed, Files, Made, NewIno
      <3> QED BY <2>2, <3>1 DEF Typed, Files, Kinds
    <2>3. CASE OpenFile(p) \/ Copy(p)
      <3>1. Kind(p) \in Kinds
        BY <2>3, OpenIsMade DEF OpenFile, Copy, At, Typed
      <3>2. Copy(p) => file[Kind(p)] = 0
        BY DEF Copy, At, Directory, Orderly
      <3>3. file' = file \/ file' = [file EXCEPT ![Kind(p)] = NewIno]
        BY <2>3, <3>2 DEF OpenFile, Copy
      <3> QED BY <2>1, <2>2, <3>1, <3>3
    <2>4. CASE Unlink(p)
      <3>1. \A k \in Kinds : file'[k] = 0 \/ file'[k] = file[k]
        BY <2>4 DEF Unlink
      <3> QED BY <3>1 DEF Directory, Kinds
    <2>5. CASE MakeDir(p) \/ OpenLockFile(p) \/ RemoveDir(p) \/ CopyDir(p) \/ Discard(p)
      BY <2>1, <2>5 DEF MakeDir, OpenLockFile, RemoveDir, CopyDir, Discard
    <2> QED BY <2>1, <2>3, <2>4, <2>5, NamesStay DEF Naming
  <1> QED BY <1>1, <1>2, <1>3 DEF Directory

-----------------------------------------------------------------------------
(***************************************************************************)
(* The stores.                                                             *)
(***************************************************************************)
\* The stores two processes have open are the same or of another kind.
LEMMA OneOfAKind ==
    ASSUME Typed, Directory, NEW p \in Procs, NEW q \in Procs, NEW k \in Kinds, NEW l \in Kinds,
           conn[p][k] # 0, conn[p][k] = conn[q][l]
    PROVE  k = l
  <1>1. file[k] = file[l] /\ file[k] # 0
    BY DEF Directory, Orderly
  <1>2. file["stm"] = file["ltm"] => file["stm"] = 0
    BY DEF Directory
  <1> QED BY <1>1, <1>2 DEF Kinds

\* Who rewrites or deletes is alone.
LEMMA ExclusiveAlone ==
    ASSUME Typed, Directory, NEW p \in Procs, NEW q \in Procs \ {p},
           pc[p] \in {"removing", "rewrite"}
    PROVE  ~Holds(q)
  <1>1. CASE Removing(p)
    BY <1>1 DEF Directory, Orderly
  <1>2. CASE pc[p] = "rewrite" /\ Holds(q)
    <2>1. held[p].mode = "exclusive" /\ Holds(p) /\ ~Removing(p)
      BY <1>2 DEF Typed, Processes, Placed, Locked, Outside, Servers, Removing, Holds
    <2>2. ~Removing(q)
      BY <2>1 DEF Directory, Orderly
    <2>3. held[p].ino = held[q].ino
      BY <1>2, <2>1, <2>2 DEF Directory, Orderly
    <2> QED BY <2>1, <2>3 DEF Typed, Exclusion
  <1> QED BY <1>1, <1>2 DEF Removing

\* What another process may make of a store that is open in a process at "at".
Better(s, t, k, at, j) ==
    /\ Own(s, k) => Own(t, k)
    /\ s.dim # 0 => t.dim # 0 /\ t.model = s.model
    /\ Old(t) => Old(s) /\ t.version = s.version
    /\ at \in Adopting =>
          /\ (s.dim # 0 => s.model = j.model) => (t.dim # 0 => t.model = j.model)
          /\ s.table = Dim[j.model] => t.table = Dim[j.model]
          /\ s.model = j.model => t.model = j.model

LEMMA KnowsStays ==
    ASSUME NEW at, NEW j, NEW h, NEW c, Placed(at, j, h, c), NEW s, NEW t, Knows(at, j, s),
           \A k \in Kinds : c[k] # 0 => Better(s[k], t[k], k, at, j)
    PROVE  Knows(at, j, t)
  <1>1. at \in Entering => \A k \in Passed(j) : k \in Kinds /\ c[k] # 0
    BY DEF Placed, Passed
  <1>2. at \in Reading => j.kind \in Kinds /\ c[j.kind] # 0 /\ Better(s[j.kind], t[j.kind], j.kind, at, j)
    <2>1. at \in Reading => j \in Job /\ c[j.kind] # 0
      BY DEF Placed, Reading, Adopting
    <2> QED BY <2>1 DEF Job
  <1>3. at \in Opened => \A k \in Kinds : c[k] # 0
    BY DEF Placed, Kinds
  <1>4. at \in Adopting => at \in Reading \ {"version"}
    BY DEF Adopting, Reading
  <1>5. at \in Entering => \A k \in Passed(j) : Own(t[k], k)
    BY <1>1 DEF Knows, Better
  <1>6. at \in Entering /\ j.op \in {"serve", "verify"} => \A k \in Passed(j) : Mine(t[k], j)
    BY <1>1 DEF Knows, Better, Mine
  <1>7. at \in Reading \ {"version"} => Own(t[j.kind], j.kind)
    BY <1>2 DEF Knows, Better
  <1>8. at \in Adopting =>
          /\ t[j.kind].dim # 0 => t[j.kind].model = j.model
          /\ at \in {"recordModel", "recordDim"} => t[j.kind].table = Dim[j.model]
          /\ at = "recordDim" => t[j.kind].model = j.model
    BY <1>2, <1>4 DEF Knows, Better
  <1>9. at \in Opened => \A k \in Kinds : Own(t[k], k)
    BY <1>3 DEF Knows, Better
  <1>10. at = "serving" => \A k \in Kinds : Mine(t[k], j)
    BY <1>3 DEF Knows, Better, Mine, Opened
  <1> QED BY <1>5, <1>6, <1>7, <1>8, <1>9, <1>10 DEF Knows, Adopting

\* What the writing process leaves is honest,
LEMMA WrittenIsHonest ==
    ASSUME Typed, Identities, NEW p \in Procs, Storing(p)
    PROVE  Honest(Written(p))
  <1>1. /\ Ino(p) \in DOMAIN content /\ Here(p) \in Store
        /\ pc[p] \in {"migrate", "rewrite"} \cup Adopting
    BY StoringWrites DEF Typed
  <1>2. Me(p) \in Models /\ Dim[Me(p)] \in Nat \ {0}
    BY <1>1, OpenIsMade DEF Typed, Reading, Opened, Adopting
  <1> PICK s, m, k : s = Here(p) /\ m = Me(p) /\ k = Kind(p)
    OBVIOUS
  <1>3. s \in Store /\ Honest(s) /\ m \in Models /\ Dim[m] \in Nat \ {0}
    BY <1>1, <1>2 DEF Identities, Here
  <1>4. pc[p] \in Adopting => /\ s.dim # 0 => s.model = m
                              /\ pc[p] = "recordDim" => s.model = m /\ s.table = Dim[m]
    <2>1. k \in Kinds /\ Seen(p)[k] = s
      BY <1>1, OpenIsMade DEF Typed, Seen, Here, Ino, Adopting, Reading, Opened
    <2> QED BY <2>1 DEF Identities, Clear, Knows, Kind, Me
  <1>5. CASE pc[p] = "migrate"
    <2>1. Written(p) = Migration(s, k, m)
      BY <1>5 DEF Written
    <2>2. Honest(Migration(s, k, m))
      BY <1>3, WorkspaceConstants DEF Migration, Store, Honest
    <2> QED BY <2>1, <2>2
  <1>6. CASE pc[p] = "rewrite"
    <2>1. Written(p) = Rewriting(s, m)
      BY <1>6 DEF Written
    <2>2. Honest(Rewriting(s, m))
      BY <1>3 DEF Rewriting, Reembedded, Store, Honest
    <2> QED BY <2>1, <2>2
  <1>7. CASE pc[p] \in Adopting
    <2>1. CASE pc[p] = "rebuild"
      BY <1>3, <1>4, <1>7, <2>1, WorkspaceConstants DEF Written, Store, Honest
    <2>2. CASE pc[p] = "recordModel"
      BY <1>3, <1>4, <1>7, <2>2, WorkspaceConstants DEF Written, Store, Honest
    <2>3. CASE pc[p] = "recordDim"
      BY <1>3, <1>4, <1>7, <2>3, WorkspaceConstants DEF Written, Store, Honest
    <2> QED BY <1>7, <2>1, <2>2, <2>3 DEF Adopting
  <1> QED BY <1>1, <1>5, <1>6, <1>7

\* What a step does to a store: nothing, or it is being written, or given a
\* vector, or its copy is complete; a new one is empty or a copy.
Given(p, i) ==
    \E k \in Kinds :
        /\ pc[p] = "serving" /\ i = conn[p][k] /\ content[i].table = Dim[Me(p)]
        /\ content'[i] = [content[i] EXCEPT !.vecs = @ \cup {Me(p)}]
Becomes(p, i) ==
    \/ content'[i] = content[i]
    \/ Storing(p) /\ i = Ino(p) /\ content'[i] = Written(p)
    \/ Given(p, i)
    \/ content'[i] = [content[i] EXCEPT !.whole = TRUE]

LEMMA StoresBecome ==
    ASSUME Typed, Directory, NEW p \in Procs, Steps(p)
    PROVE  /\ \A i \in DOMAIN content : Becomes(p, i)
           /\ \A i \in DOMAIN content' \ DOMAIN content : content'[i] \in Store /\ Honest(content'[i])
  <1>0. NewIno \notin DOMAIN content /\ content \in [DOMAIN content -> Store]
    BY DEF Typed, Files, NewIno
  <1>1. CASE content' = content
    BY <1>1 DEF Becomes
  <1>2. ASSUME NEW s \in Store, Honest(s), content' = With(NewIno, s)
        PROVE  /\ \A i \in DOMAIN content : Becomes(p, i)
               /\ \A i \in DOMAIN content' \ DOMAIN content : content'[i] \in Store /\ Honest(content'[i])
    BY <1>0, <1>2 DEF With, Becomes
  <1>3. CASE Storing(p)
    <2>1. Ino(p) \in DOMAIN content /\ content' = [content EXCEPT ![Ino(p)] = Written(p)]
      BY <1>3, StoringWrites DEF Typed
    <2> QED BY <1>3, <2>1 DEF Becomes
  <1>4. CASE \E k \in Kinds : WriteVector(p, k)
    <2>1. PICK k \in Kinds : WriteVector(p, k)
      BY <1>4
    <2>2. pc[p] = "serving" /\ conn[p][k] \in DOMAIN content /\ content[conn[p][k]].table = Dim[Me(p)]
      BY <2>1, OpenIsMade DEF WriteVector, At, Opened, Typed
    <2>3. content' = [content EXCEPT ![conn[p][k]].vecs = @ \cup {Me(p)}]
      BY <2>1 DEF WriteVector
    <2>4. \A i \in DOMAIN content : content'[i] = content[i] \/ Given(p, i)
      BY <2>2, <2>3 DEF Given
    <2>5. DOMAIN content' = DOMAIN content
      BY <2>3
    <2> QED BY <2>4, <2>5 DEF Becomes
  <1>5. CASE CopyDone(p)
    <2>1. content' = content \/ content' = [content EXCEPT ![job[p].fd].whole = TRUE]
      BY <1>5 DEF CopyDone
    <2>2. DOMAIN content' = DOMAIN content
      BY <2>1
    <2>3. \A i \in DOMAIN content :
             content'[i] = content[i] \/ content'[i] = [content[i] EXCEPT !.whole = TRUE]
      BY <2>1
    <2> QED BY <2>2, <2>3 DEF Becomes
  <1>6. CASE OpenFile(p)
    <2>1. Blank \in Store /\ Honest(Blank)
      BY WorkspaceConstants DEF Blank, Store, Honest
    <2>2. content' = content \/ content' = With(NewIno, Blank)
      BY <1>6 DEF OpenFile
    <2> QED BY <1>1, <1>2, <2>1, <2>2
  <1>7. CASE Copy(p)
    <2>1. file[Kind(p)] = 0 /\ job[p].source \in Stores /\ Kind(p) \in Kinds
      BY <1>7, OpenIsMade DEF Copy, At, Directory, Orderly, Typed, Processes, Placed
    <2> PICK s : s = job[p].source[Kind(p)]
      OBVIOUS
    <2>2. s \in Store /\ Honest(s)
      BY <2>1, WorkspaceConstants
    <2> PICK t : t = [s EXCEPT !.whole = FALSE]
      OBVIOUS
    <2>3. t \in Store /\ t.dim = s.dim /\ t.model = s.model /\ t.table = s.table /\ t.vecs = s.vecs
      BY <2>2 DEF Store
    <2>4. Honest(t)
      BY <2>2, <2>3 DEF Honest
    <2>5. content' = With(NewIno, t)
      BY <1>7, <2>1 DEF Copy
    <2> QED BY <1>2, <2>3, <2>4, <2>5
  <1>8. CASE Looking(p)
    BY <1>1, <1>8 DEF Looking, Serve, Reembed, Import, Delete, Begin, Lease, LockExclusive, ReadVersion,
                BackUp, CheckIdentity, Close, Snapshot, Embed, Imported, Crash, disk
  <1>9. CASE MakeDir(p) \/ OpenLockFile(p) \/ Unlink(p) \/ RemoveDir(p) \/ CopyDir(p) \/ Discard(p)
    BY <1>1, <1>9 DEF MakeDir, OpenLockFile, Unlink, RemoveDir, CopyDir, Discard
  <1> QED BY <1>3, <1>4, <1>5, <1>6, <1>7, <1>8, <1>9, NamesStay DEF Naming, Unnaming

LEMMA HonestKept ==
    ASSUME Typed, Directory, Identities, NEW p \in Procs, Steps(p)
    PROVE  \A i \in DOMAIN content' : Honest(content'[i])
  <1> SUFFICES ASSUME NEW i \in DOMAIN content, Becomes(p, i) PROVE Honest(content'[i])
    BY StoresBecome
  <1>0. content[i] \in Store /\ Honest(content[i])
    BY DEF Typed, Files, Identities
  <1>1. CASE Storing(p) /\ content'[i] = Written(p)
    BY <1>1, WrittenIsHonest
  <1>2. CASE Given(p, i)
    <2>1. PICK k \in Kinds : /\ pc[p] = "serving" /\ i = conn[p][k]
                             /\ content'[i] = [content[i] EXCEPT !.vecs = @ \cup {Me(p)}]
      BY <1>2 DEF Given
    <2>2. content[i].dim # 0 /\ content[i].model = Me(p)
      BY <2>1 DEF Identities, Clear, Knows, Mine, Seen, Me
    <2> PICK s, m : s = content[i] /\ m = Me(p)
      OBVIOUS
    <2>3. Honest([s EXCEPT !.vecs = @ \cup {m}])
      BY <1>0, <2>2 DEF Honest, Store
    <2> QED BY <2>1, <2>3
  <1>3. CASE content'[i] = [content[i] EXCEPT !.whole = TRUE]
    BY <1>0, <1>3 DEF Honest, Store
  <1> QED BY <1>0, <1>1, <1>2, <1>3 DEF Becomes

\* and no worse for whoever else has it open.
LEMMA WrittenIsBetter ==
    ASSUME Typed, Directory, Identities, NEW p \in Procs, Storing(p), NEW q \in Procs \ {p}, Holds(q)
    PROVE  Better(Here(p), Written(p), Kind(p), pc[q], job[q])
  <1>1. /\ Ino(p) \in DOMAIN content /\ Here(p) \in Store
        /\ pc[p] \in {"migrate", "rewrite"} \cup Adopting
    BY StoringWrites DEF Typed
  <1>2. Me(p) \in Models /\ Dim[Me(p)] \in Nat \ {0} /\ Kind(p) \in Kinds
    BY <1>1, OpenIsMade DEF Typed, Reading, Opened, Adopting
  <1>3. pc[p] # "rewrite"
    BY ExclusiveAlone
  <1> PICK s, m, k : s = Here(p) /\ m = Me(p) /\ k = Kind(p)
    OBVIOUS
  <1> PICK at, j : at = pc[q] /\ j = job[q]
    OBVIOUS
  <1>4. pc[p] \in Adopting => /\ s.dim # 0 => s.model = m
                              /\ pc[p] = "recordDim" => s.model = m
                              /\ at \in Adopting => j.model = m
    <2>1. Seen(p)[k] = s
      BY <1>2 DEF Seen, Here, Ino
    <2> QED BY <2>1 DEF Identities, Clear, Knows, Kind, Me
  <1>5. at \in Adopting => Dim[j.model] # 0
    BY OpenIsMade DEF Typed, Reading, Me
  <1>6. s \in Store /\ m \in Models /\ Dim[m] \in Nat \ {0} /\ k \in Kinds
    BY <1>1, <1>2
  <1>7. CASE pc[p] = "migrate"
    <2>1. PICK t : t = Migration(s, k, m)
      OBVIOUS
    <2>2. /\ t.version = Latest /\ t.kind = k /\ t.dim = s.dim /\ t.model = s.model
          /\ s.table # 0 => t.table = s.table
      BY <1>6, <2>1 DEF Migration, Store
    <2>3. Better(s, t, k, at, j)
      BY <1>5, <2>2, WorkspaceConstants DEF Better, Own, Old
    <2> QED BY <1>7, <2>1, <2>3 DEF Written
  <1>8. CASE pc[p] = "rebuild"
    <2>1. PICK t : t = [s EXCEPT !.table = Dim[m]]
      OBVIOUS
    <2>2. /\ t.version = s.version /\ t.kind = s.kind /\ t.dim = s.dim /\ t.model = s.model
          /\ t.table = Dim[m]
      BY <1>6, <2>1 DEF Store
    <2>3. Better(s, t, k, at, j)
      BY <1>4, <1>8, <2>2 DEF Better, Own, Old, Adopting
    <2> QED BY <1>8, <2>1, <2>3 DEF Written
  <1>9. CASE pc[p] = "recordModel"
    <2>1. PICK t : t = [s EXCEPT !.model = m]
      OBVIOUS
    <2>2. /\ t.version = s.version /\ t.kind = s.kind /\ t.dim = s.dim /\ t.model = m
          /\ t.table = s.table
      BY <1>6, <2>1 DEF Store
    <2>3. Better(s, t, k, at, j)
      BY <1>4, <1>9, <2>2 DEF Better, Own, Old, Adopting
    <2> QED BY <1>9, <2>1, <2>3 DEF Written
  <1>10. CASE pc[p] = "recordDim"
    <2>1. PICK t : t = [s EXCEPT !.dim = Dim[m]]
      OBVIOUS
    <2>2. /\ t.version = s.version /\ t.kind = s.kind /\ t.dim = Dim[m] /\ t.model = s.model
          /\ t.table = s.table
      BY <1>6, <2>1 DEF Store
    <2>3. Better(s, t, k, at, j)
      BY <1>4, <1>6, <1>10, <2>2 DEF Better, Own, Old, Adopting
    <2> QED BY <1>10, <2>1, <2>3 DEF Written
  <1> QED BY <1>1, <1>3, <1>7, <1>8, <1>9, <1>10 DEF Adopting

\* A vector, or a complete copy, changes nothing a process has seen.
LEMMA SameIsBetter ==
    ASSUME NEW s \in Store, NEW t, NEW k, NEW at, NEW j,
           t = s \/ (\E v : t = [s EXCEPT !.vecs = v]) \/ t = [s EXCEPT !.whole = TRUE]
    PROVE  Better(s, t, k, at, j)
  <1>1. /\ t.version = s.version /\ t.kind = s.kind /\ t.dim = s.dim /\ t.model = s.model
        /\ t.table = s.table
    BY DEF Store
  <1> QED BY <1>1 DEF Better, Own, Old

LEMMA BetterForOthers ==
    ASSUME Typed, Directory, Identities, NEW p \in Procs, Steps(p), NEW q \in Procs \ {p},
           NEW k \in Kinds, conn[q][k] # 0
    PROVE  Better(content[conn[q][k]], content'[conn[q][k]], k, pc[q], job[q])
  <1> PICK i : i = conn[q][k]
    OBVIOUS
  <1>1. i \in DOMAIN content /\ content[i] \in Store
    BY DEF Typed, Files, Made
  <1>2. CASE Storing(p) /\ i = Ino(p) /\ content'[i] = Written(p)
    <2>1. Holds(q)
      BY HoldersOnly DEF Typed
    <2>2. Kind(p) \in Kinds
      BY <1>2, StoringWrites, OpenIsMade DEF Typed, Adopting
    <2>3. k = Kind(p)
      BY <1>2, <2>2, OneOfAKind DEF Ino
    <2> QED BY <1>2, <2>1, <2>3, WrittenIsBetter DEF Here
  <1>3. CASE Given(p, i)
    <2>1. \E v : content'[i] = [content[i] EXCEPT !.vecs = v]
      BY <1>3 DEF Given
    <2> QED BY <1>1, <2>1, SameIsBetter
  <1>4. CASE content'[i] = content[i] \/ content'[i] = [content[i] EXCEPT !.whole = TRUE]
    BY <1>1, <1>4, SameIsBetter
  <1> QED BY <1>1, <1>2, <1>3, <1>4, StoresBecome DEF Becomes

LEMMA BackupsGrow ==
    ASSUME NEW p \in Procs, Steps(p)
    PROVE  backups \subseteq backups'
  <1>1. CASE Locking(p)
    BY <1>1 DEF Locking, MakeDir, OpenLockFile, Lease, LockExclusive
  <1>2. CASE Opening(p)
    BY <1>2 DEF Opening, OpenFile, ReadVersion, BackUp, Migrate, CheckIdentity, Rebuild,
                RecordModel, RecordDim, Rest
  <1>3. CASE Commands(p)
    BY <1>3 DEF Commands, Serve, Reembed, Import, Delete, Begin, Unlink, RemoveDir,
                WriteVector, Close, Snapshot, Embed, Rewrite, CopyDir, Copy, CopyDone,
                Discard, Imported, Crash, Rest
  <1> QED BY <1>1, <1>2, <1>3 DEF Steps

LEMMA OthersClear ==
    ASSUME Typed, Directory, Identities, NEW p \in Procs, Steps(p), Clear(p)',
           NEW q \in Procs \ {p}
    PROVE  Clear(q)'
  <1>1. \A r \in Procs \ {p} :
           pc'[r] = pc[r] /\ job'[r] = job[r] /\ held'[r] = held[r] /\ conn'[r] = conn[r]
    BY ProcessesKept DEF Typed, Steps, Frame, Processes
  <1>2. \A k \in Kinds : conn[q][k] # 0 =>
           Better(content[conn[q][k]], content'[conn[q][k]], k, pc[q], job[q])
    BY BetterForOthers
  <1>3. Clear(q)
    BY DEF Identities
  <1> PICK at, j, h, c : at = pc[q] /\ j = job[q] /\ h = held[q] /\ c = conn[q]
    OBVIOUS
  <1>4. Placed(at, j, h, c)
    BY DEF Typed, Processes
  <1>5. Knows(pc[q], job[q], Seen(q)')
    <2>1. PICK s, t : s = Seen(q) /\ t = Seen(q)'
      OBVIOUS
    <2>2. \A k \in Kinds : c[k] # 0 => Better(s[k], t[k], k, at, j)
      BY <1>1, <1>2, <2>1 DEF Seen
    <2>3. Knows(at, j, s)
      BY <1>3, <2>1 DEF Clear
    <2>4. Knows(at, j, t)
      BY <1>4, <2>2, <2>3, KnowsStays
    <2> QED BY <2>1, <2>4
  <1>6. ASSUME at = "migrate", Old(Here(q))' PROVE <<Ino(q), Here(q).version>>' \in backups'
    <2>1. j.kind \in Kinds /\ c[j.kind] # 0
      BY <1>4, <1>6 DEF Placed, Reading, Job
    <2>2. Better(Here(q), Here(q)', j.kind, at, j) /\ Ino(q)' = Ino(q)
      BY <1>1, <1>2, <2>1 DEF Here, Ino, Kind
    <2>3. Old(Here(q)) /\ Here(q)'.version = Here(q).version
      BY <1>6, <2>2 DEF Better, Old
    <2>4. <<Ino(q), Here(q).version>> \in backups
      BY <1>3, <1>6, <2>3 DEF Clear
    <2> QED BY <2>2, <2>3, <2>4, BackupsGrow
  <1>7. ASSUME NEW r \in Procs, {pc'[q], pc'[r]} \subseteq Adopting PROVE Me(q)' = Me(r)'
    <2>1. CASE r = p
      BY <1>7, <2>1 DEF Clear
    <2>2. CASE r # p
      BY <1>1, <1>3, <1>7, <2>2 DEF Clear, Me
    <2> QED BY <2>1, <2>2
  <1> QED BY <1>1, <1>5, <1>6, <1>7 DEF Clear

\* What a process sees of the stores after its own step.
LEMMA ClearBy ==
    ASSUME NEW p \in Procs, Knows(pc'[p], job'[p], Seen(p)'),
           pc'[p] # "migrate", pc'[p] \notin Adopting
    PROVE  Clear(p)'
  BY DEF Clear

LEMMA ClearElsewhere ==
    ASSUME NEW p \in Procs, pc'[p] \notin Entering \cup Opened
    PROVE  Clear(p)'
  BY DEF Clear, Knows, Entering, Reading, Adopting, Opened

LEMMA ClearGoesOn ==
    ASSUME NEW p \in Procs, job[p] \in Job, GoesOn(p),
           \A k \in Passed(job[p]) \cup {Kind(p)} :
               /\ Own(Seen(p)'[k], k)
               /\ job[p].op \in {"serve", "verify"} => Mine(Seen(p)'[k], job[p])
    PROVE  Clear(p)'
  <1> PICK j, s : j = job[p] /\ s = Seen(p)'
    OBVIOUS
  <1>1. CASE j.kind = "stm"
    <2>1. PICK t : t = [j EXCEPT !.kind = "ltm"]
      OBVIOUS
    <2>2. pc'[p] = "open" /\ job'[p] = t
      BY <1>1, <2>1 DEF GoesOn, Goes, Kind
    <2>3. t.kind = "ltm" /\ t.op = j.op /\ t.model = j.model
      BY <2>1, KindTurns DEF Kinds
    <2>4. Knows("open", t, s)
      BY <1>1, <2>3 DEF Knows, Passed, Kind, Mine, Reading, Opened, Adopting
    <2> QED BY <2>2, <2>4, ClearBy DEF Adopting
  <1>2. CASE j.kind = "ltm" /\ j.op = "verify"
    BY <1>2, ClearElsewhere DEF GoesOn, Kind, Ends, Entering, Reading, Adopting, Opened
  <1>3. CASE j.kind = "ltm" /\ j.op # "verify"
    <2>1. pc'[p] \in {"serving", "imported", "embed"} /\ job'[p] = j
      BY <1>3 DEF GoesOn, Goes, Kind
    <2>2. pc'[p] = "serving" => j.op = "serve"
      BY <1>3 DEF GoesOn, Goes, Kind
    <2>3. \A k \in Kinds : k \in Passed(j) \cup {j.kind}
      BY <1>3 DEF Passed, Kinds
    <2>4. Knows(pc'[p], j, s)
      BY <2>1, <2>2, <2>3 DEF Knows, Kind, Entering, Reading, Adopting
    <2> QED BY <2>1, <2>4, ClearBy DEF Adopting
  <1> QED BY <1>1, <1>2, <1>3 DEF Job, Kinds

LEMMA ClearAdmits ==
    ASSUME NEW p \in Procs, job[p] \in Job, Admits(p),
           \A k \in Passed(job[p]) \cup {Kind(p)} : Own(Seen(p)'[k], k),
           job[p].op \in {"serve", "verify"} =>
               \A k \in Passed(job[p]) : Mine(Seen(p)'[k], job[p])
    PROVE  Clear(p)'
  <1> PICK j, s : j = job[p] /\ s = Seen(p)'
    OBVIOUS
  <1>1. CASE j.op = "import"
    BY <1>1, ClearGoesOn DEF Admits
  <1>2. CASE j.op # "import"
    <2>1. pc'[p] \in {"snapshot", "identity"} /\ job'[p] = j
      BY <1>2 DEF Admits, Goes
    <2>2. Knows(pc'[p], j, s)
      BY <2>1 DEF Knows, Kind, Entering, Reading, Adopting, Opened
    <2> QED BY <2>1, <2>2, ClearBy DEF Adopting
  <1> QED BY <1>1, <1>2

\* A process's own writing touches the store in hand only.
LEMMA OwnHand ==
    ASSUME Typed, Directory, NEW p \in Procs, Storing(p), conn'[p] = conn[p]
    PROVE  /\ Kind(p) \in Kinds /\ Seen(p)[Kind(p)] = Here(p) /\ Seen(p)'[Kind(p)] = Written(p)
           /\ \A k \in Kinds : k # Kind(p) /\ conn[p][k] # 0 => Seen(p)'[k] = Seen(p)[k]
  <1>1. Ino(p) \in DOMAIN content /\ content' = [content EXCEPT ![Ino(p)] = Written(p)]
    BY StoringWrites DEF Typed
  <1>2. Kind(p) \in Kinds
    BY StoringWrites, OpenIsMade DEF Typed, Adopting
  <1>3. Seen(p)[Kind(p)] = Here(p) /\ Seen(p)'[Kind(p)] = Written(p)
    BY <1>1, <1>2 DEF Seen, Here, Ino
  <1>4. ASSUME NEW k \in Kinds, k # Kind(p), conn[p][k] # 0 PROVE Seen(p)'[k] = Seen(p)[k]
    <2>1. conn[p][k] # Ino(p)
      BY <1>2, <1>4, OneOfAKind DEF Ino
    <2>2. conn[p][k] \in DOMAIN content
      BY <1>4 DEF Typed, Files, Made
    <2>3. content'[conn[p][k]] = content[conn[p][k]]
      BY <1>1, <2>1, <2>2
    <2> QED BY <2>3 DEF Seen
  <1> QED BY <1>2, <1>3, <1>4

\* Coming to a store,
LEMMA ComingClear ==
    ASSUME Typed, NEW p \in Procs, Lease(p) \/ LockExclusive(p)
    PROVE  Clear(p)'
  <1> PICK j : j = job[p]
    OBVIOUS
  <1>0. Shaped /\ j \in Job /\ (pc[p] = "exclusive" /\ j.op # "delete" => j.kind = "stm")
    BY DEF Typed, Processes, Shaped, Placed, Lease, LockExclusive, At
  <1>1. ASSUME NEW t \in Job, t.kind = "stm", Goto(p, "open", t) PROVE Clear(p)'
    <2>1. pc'[p] = "open" /\ job'[p] = t
      BY <1>0, <1>1, Moves
    <2>2. Knows("open", t, Seen(p)')
      BY <1>1 DEF Knows, Passed, Reading, Opened, Adopting
    <2> QED BY <2>1, <2>2, ClearBy DEF Adopting
  <1>2. CASE Lease(p)
    <2> PICK t : t = [j EXCEPT !.kind = "stm"]
      OBVIOUS
    <2>1. t \in Job /\ t.kind = "stm"
      BY <1>0, KindTurns DEF Kinds
    <2>2. Goto(p, "open", t) \/ End(p)
      BY <1>2 DEF Lease
    <2> QED BY <1>0, <1>1, <2>1, <2>2, Moves, ClearElsewhere
            DEF Ends, Entering, Reading, Adopting, Opened
  <1>3. CASE LockExclusive(p)
    <2>1. \/ End(p) \/ (\E t : Goto(p, "removing", t))
          \/ (j.op # "delete" /\ Goto(p, "open", j))
      BY <1>3 DEF LockExclusive
    <2>2. pc'[p] \in {"none", "removing"} \/ (j.op # "delete" /\ Goto(p, "open", j))
      BY <1>0, <2>1, Moves DEF Ends
    <2> QED BY <1>0, <1>1, <1>3, <2>2, ClearElsewhere
            DEF LockExclusive, At, Entering, Reading, Adopting, Opened
  <1> QED BY <1>2, <1>3

LEMMA OpenFileClear ==
    ASSUME Typed, Directory, Identities, NEW p \in Procs, OpenFile(p)
    PROVE  Clear(p)'
  <1>0. Shaped /\ pc[p] = "open" /\ Steps(p)
    BY DEF Typed, Processes, Shaped, OpenFile, At, Steps, Opening
  <1>1. CASE Fail(p)
    BY <1>0, <1>1, Outcomes, ClearElsewhere
       DEF Fails, Goes, Ends, Entering, Reading, Adopting, Opened
  <1>2. CASE ~Fail(p)
    <2> PICK j, c : j = job[p] /\ c = conn[p]
      OBVIOUS
    <2>1. /\ Goto(p, "version", j)
          /\ conn' = [conn EXCEPT ![p][Kind(p)] = file'[Kind(p)]]
          /\ content' = content \/ content' = With(NewIno, Blank)
      BY <1>2 DEF OpenFile
    <2>2. pc'[p] = "version" /\ job'[p] = j
      BY <1>0, <2>1, Moves
    <2>3. \A k \in Passed(j) : Seen(p)'[k] = Seen(p)[k]
      <3>1. ASSUME NEW k \in Passed(j) PROVE k \in Kinds /\ c[k] # 0 /\ k # j.kind
        BY <1>0 DEF Typed, Processes, Placed, Passed, Entering
      <3>2. ASSUME NEW k \in Passed(j) PROVE conn'[p][k] = c[k]
        BY <2>1, <3>1 DEF Typed, Processes, Placed, Kind
      <3>3. ASSUME NEW k \in Passed(j) PROVE content'[c[k]] = content[c[k]]
        <4>1. c[k] \in DOMAIN content /\ c[k] # NewIno
          BY <3>1 DEF Typed, Files, Made, NewIno
        <4> QED BY <2>1, <4>1 DEF With
      <3> QED BY <3>1, <3>2, <3>3 DEF Seen
    <2>4. Knows("open", j, Seen(p))
      BY <1>0 DEF Identities, Clear
    <2>5. Knows("version", j, Seen(p)')
      BY <2>3, <2>4 DEF Knows, Entering, Reading, Opened, Adopting
    <2> QED BY <2>2, <2>5, ClearBy DEF Adopting
  <1> QED BY <1>1, <1>2

\* finding out what it is,
LEMMA LookingClear ==
    ASSUME Typed, Directory, Identities, NEW p \in Procs, ~crossed',
           ReadVersion(p) \/ BackUp(p) \/ CheckIdentity(p) \/ Snapshot(p)
    PROVE  Clear(p)'
  <1> PICK j, k, s : j = job[p] /\ k = Kind(p) /\ s = Seen(p)
    OBVIOUS
  <1>0. Shaped /\ pc[p] \in Reading /\ j \in Job /\ k \in Kinds /\ j.kind = k /\ content' = content
    <2>1. Shaped /\ pc[p] \in Reading /\ content' = content
      BY DEF Typed, Processes, Shaped, ReadVersion, BackUp, CheckIdentity, Snapshot, At, Reading, disk
    <2>2. j \in Job
      BY <2>1 DEF Typed, Processes, Placed, Reading, Adopting
    <2> QED BY <2>1, <2>2 DEF Kind, Job
  <1>1. s[k] = Here(p)
    BY <1>0 DEF Seen, Here, Ino
  <1>2. Knows(pc[p], j, s)
    BY DEF Identities, Clear
  <1>3. /\ \A l \in Passed(j) : Own(s[l], l)
        /\ j.op \in {"serve", "verify"} => \A l \in Passed(j) : Mine(s[l], j)
        /\ pc[p] # "version" => Own(s[k], k)
    BY <1>0, <1>2 DEF Knows, Entering
  <1>4. Fail(p) => Clear(p)'
    BY <1>0, Outcomes, ClearElsewhere DEF Fails, Goes, Ends, Entering, Reading, Adopting, Opened
  <1>5. \A at, t : Goes(p, at, t) => Seen(p)' = s
    BY <1>0 DEF Goes, Seen
  <1>6. ASSUME Migrated(p), Own(s[k], k) PROVE Clear(p)'
    <2>1. Admits(p)
      BY <1>0, <1>6, Outcomes
    <2>2. CASE pc'[p] = "none"
      BY <2>2, ClearElsewhere DEF Entering, Reading, Adopting, Opened
    <2>3. CASE pc'[p] # "none"
      <3>1. Seen(p)' = s
        BY <1>5, <2>1, <2>3 DEF Admits, GoesOn, Ends
      <3> QED BY <1>0, <1>3, <1>6, <2>1, <3>1, ClearAdmits
    <2> QED BY <2>2, <2>3
  <1>7. ASSUME NextStore(p), Own(s[k], k), j.op \in {"serve", "verify"} => Mine(s[k], j)
        PROVE  Clear(p)'
    <2>1. GoesOn(p)
      BY <1>0, <1>7, Outcomes
    <2>2. CASE pc'[p] = "none"
      BY <2>2, ClearElsewhere DEF Entering, Reading, Adopting, Opened
    <2>3. CASE pc'[p] # "none"
      <3>1. Seen(p)' = s
        BY <1>5, <2>1, <2>3 DEF GoesOn, Ends
      <3> QED BY <1>0, <1>3, <1>7, <2>1, <3>1, ClearGoesOn
    <2> QED BY <2>2, <2>3
  <1>8. CASE ReadVersion(p)
    <2>1. CASE Fail(p)
      BY <1>4, <2>1
    <2>2. CASE ~Fail(p)
      <3>1. Own(Here(p), k)
        BY <1>8, <2>2 DEF ReadVersion, Supported, Own
      <3>2. CASE Migrated(p)
        BY <1>1, <1>6, <3>1, <3>2
      <3>3. CASE ~Migrated(p)
        <4>1. PICK at : /\ at \in {"backup", "migrate"} /\ Goto(p, at, j) /\ Kept
                        /\ at = "migrate" => ~HasData(Here(p))
          BY <1>8, <2>2, <3>3 DEF ReadVersion
        <4>2. Goes(p, at, j)
          BY <1>0, <4>1, Moves
        <4>3. Seen(p)' = s /\ pc'[p] = at /\ job'[p] = j /\ Ino(p)' = Ino(p)
          BY <1>5, <4>2 DEF Goes, Ino, Kind
        <4>4. Knows(at, j, s)
          BY <1>0, <1>1, <1>3, <3>1, <4>1 DEF Knows, Adopting, Opened
        <4>5. at = "migrate" => ~Old(Here(p))'
          BY <1>0, <4>1, <4>3 DEF HasData, Old, Here
        <4> QED BY <4>1, <4>3, <4>4, <4>5 DEF Clear, Adopting
      <3> QED BY <3>2, <3>3
    <2> QED BY <2>1, <2>2
  <1>9. CASE BackUp(p)
    <2>1. Goes(p, "migrate", j)
      BY <1>0, <1>9, Moves DEF BackUp
    <2>2. Seen(p)' = s /\ pc'[p] = "migrate" /\ job'[p] = j /\ Ino(p)' = Ino(p)
      BY <1>5, <2>1 DEF Goes, Ino, Kind
    <2>3. pc[p] = "backup" /\ <<Ino(p), Here(p).version>> \in backups'
      BY <1>9 DEF BackUp, At
    <2>4. Here(p)' = Here(p)
      BY <1>0, <2>2 DEF Here
    <2>5. Knows("migrate", j, s)
      BY <1>0, <1>3, <2>3 DEF Knows, Adopting, Opened
    <2> QED BY <2>2, <2>3, <2>4, <2>5 DEF Clear, Adopting
  <1>10. CASE CheckIdentity(p)
    <2>1. CASE Fail(p)
      BY <1>4, <2>1
    <2>2. CASE ~Fail(p) /\ Here(p).model # None /\ Here(p).dim # 0
      <3>1. NextStore(p) /\ SameIdentity(p) /\ pc[p] = "identity"
        BY <1>10, <2>2 DEF CheckIdentity, At
      <3>2. Mine(s[k], j)
        BY <1>1, <2>2, <3>1 DEF SameIdentity, Mine, Me
      <3> QED BY <1>3, <1>7, <3>1, <3>2
    <2>3. CASE ~Fail(p) /\ ~(Here(p).model # None /\ Here(p).dim # 0)
      <3>1. PICK at : /\ at \in {"rebuild", "recordModel"} /\ Goto(p, at, j) /\ Kept
                      /\ at = "recordModel" => Here(p).table = Dim[j.model]
        BY <1>10, <2>3 DEF CheckIdentity, Me
      <3>2. \A q \in Procs : pc[q] \in Adopting => Me(q) = Me(p)
        <4>1. crossed' = (crossed \/ \E q \in Procs : pc[q] \in Adopting /\ Me(q) # Me(p))
          BY <1>10, <2>3, Zenon DEF CheckIdentity
        <4> QED BY <4>1, Zenon
      <3>3. pc[p] = "identity" /\ Goes(p, at, j)
        BY <1>0, <1>10, <3>1, Moves DEF CheckIdentity, At
      <3>4. Seen(p)' = s /\ pc'[p] = at /\ job'[p] = j
        BY <1>5, <3>3 DEF Goes
      <3>5. Here(p).dim = 0
        <4>1. Honest(Here(p))
          BY <1>0, OpenIsMade DEF Typed, Identities, Here
        <4> QED BY <2>3, <4>1, WorkspaceConstants DEF Honest
      <3>6. Knows(at, j, s)
        BY <1>0, <1>1, <1>3, <3>1, <3>3, <3>5 DEF Knows, Adopting, Opened
      <3>7. \A q \in Procs : pc'[q] \in Adopting => Me(q)' = Me(p)'
        <4>1. \A q \in Procs \ {p} : pc'[q] = pc[q] /\ job'[q] = job[q]
          BY <1>10, ProcessesKept DEF Typed, Opening, Frame, Processes
        <4> QED BY <3>2, <3>4, <4>1 DEF Me
      <3> QED BY <3>1, <3>4, <3>6, <3>7 DEF Clear
    <2> QED BY <2>1, <2>2, <2>3
  <1>11. CASE Snapshot(p)
    <2>1. NextStore(p) /\ pc[p] = "snapshot"
      BY <1>11 DEF Snapshot, At
    <2>2. j.op = "reembed"
      BY <2>1 DEF Typed, Processes, Placed
    <2> QED BY <1>3, <1>7, <2>1, <2>2
  <1> QED BY <1>8, <1>9, <1>10, <1>11

\* writing to it.
LEMMA StoringClear ==
    ASSUME Typed, Directory, Identities, NEW p \in Procs, Storing(p)
    PROVE  Clear(p)'
  <1> PICK j, k, s, m : j = job[p] /\ k = Kind(p) /\ s = Here(p) /\ m = Me(p)
    OBVIOUS
  <1>0. /\ Shaped /\ pc[p] \in {"migrate", "rewrite"} \cup Adopting /\ s \in Store /\ Honest(s)
        /\ j \in Job /\ k \in Kinds /\ j.kind = k /\ j.model = m
        /\ m \in Models /\ Dim[m] \in Nat \ {0}
    <2>1. /\ Ino(p) \in DOMAIN content /\ s \in Store
          /\ pc[p] \in {"migrate", "rewrite"} \cup Adopting
      BY StoringWrites DEF Typed
    <2>2. pc[p] \in Reading \cup Opened /\ pc[p] # "none"
      BY <2>1 DEF Adopting, Reading, Opened
    <2>3. j \in Job
      BY <2>2 DEF Typed, Processes, Placed
    <2>4. Honest(s)
      BY <2>1 DEF Identities, Here
    <2> QED BY <2>1, <2>2, <2>3, <2>4, OpenIsMade DEF Typed, Processes, Shaped, Kind, Me
  <1>1. Knows(pc[p], j, Seen(p))
    BY DEF Identities, Clear
  <1>2. Seen(p)[k] = s
    BY <1>0 DEF Seen, Here, Ino
  <1>3. pc[p] \in Reading =>
          /\ \A l \in Passed(j) : l \in Kinds /\ l # k /\ conn[p][l] # 0
          /\ \A l \in Passed(j) : Own(Seen(p)[l], l)
          /\ j.op \in {"serve", "verify"} => \A l \in Passed(j) : Mine(Seen(p)[l], j)
    BY <1>0, <1>1 DEF Knows, Entering, Passed, Typed, Processes, Placed
  <1>4. pc[p] # "rewrite" => Own(s, k)
    BY <1>0, <1>1, <1>2 DEF Knows, Reading, Adopting
  <1>5. conn'[p] = conn[p] =>
          /\ Seen(p)'[k] = Written(p)
          /\ \A l \in Kinds : l # k /\ conn[p][l] # 0 => Seen(p)'[l] = Seen(p)[l]
    BY OwnHand
  <1>6. CASE pc[p] = "rewrite"
    <2>1. Rewrite(p)
      BY <1>6 DEF Storing, Migrate, Rebuild, RecordModel, RecordDim, At
    <2>2. CASE End(p)
      BY <1>0, <2>2, Moves, ClearElsewhere DEF Ends, Entering, Reading, Adopting, Opened
    <2>3. CASE ~End(p)
      <3> PICK t : t = [j EXCEPT !.kind = "ltm"]
        OBVIOUS
      <3>1. Goes(p, "rewrite", t)
        BY <1>0, <2>1, <2>3, Moves DEF Rewrite
      <3>2. \A l \in Kinds : conn[p][l] # 0
        BY <1>6 DEF Typed, Processes, Placed, Opened, Kinds
      <3>3. Written(p).version = s.version /\ Written(p).kind = s.kind
        BY <1>0, <1>6 DEF Written, Rewriting, Store
      <3>4. \A l \in Kinds : Own(Seen(p)'[l], l)
        <4>1. \A l \in Kinds : Own(Seen(p)[l], l)
          BY <1>1, <1>6 DEF Knows, Opened
        <4> QED BY <1>2, <1>5, <3>1, <3>2, <3>3, <4>1 DEF Goes, Own
      <3>5. Knows("rewrite", t, Seen(p)')
        BY <3>4 DEF Knows, Entering, Reading, Adopting
      <3> QED BY <3>1, <3>5, ClearBy DEF Goes, Adopting
    <2> QED BY <2>2, <2>3
  <1>7. CASE pc[p] = "migrate"
    <2>1. Migrate(p)
      BY <1>7 DEF Storing, Rewrite, Rebuild, RecordModel, RecordDim, At
    <2>2. Admits(p)
      BY <1>0, <2>1, Outcomes DEF Migrate
    <2>3. CASE pc'[p] = "none"
      BY <2>3, ClearElsewhere DEF Entering, Reading, Adopting, Opened
    <2>4. CASE pc'[p] # "none"
      <3>1. conn'[p] = conn[p]
        BY <2>2, <2>4 DEF Admits, GoesOn, Goes, Ends
      <3>2. Own(Written(p), k)
        <4>1. Own(Migration(s, k, m), k)
          BY <1>0, WorkspaceConstants DEF Migration, Store, Own
        <4> QED BY <1>7, <4>1 DEF Written
      <3>3. \A l \in Passed(j) : Seen(p)'[l] = Seen(p)[l]
        BY <1>3, <1>5, <1>7, <3>1 DEF Reading
      <3> QED BY <1>0, <1>3, <1>5, <1>7, <2>2, <3>1, <3>2, <3>3, ClearAdmits DEF Reading
    <2> QED BY <2>3, <2>4
  <1>8. CASE pc[p] \in {"rebuild", "recordModel"}
    <2>1. Rebuild(p) \/ RecordModel(p)
      BY <1>8 DEF Storing, Rewrite, Migrate, RecordDim, At
    <2>2. PICK at : /\ at = IF pc[p] = "rebuild" THEN "recordModel" ELSE "recordDim"
                    /\ Goes(p, at, j)
      BY <1>0, <2>1, Moves DEF Rebuild, RecordModel, At
    <2>3. pc'[p] = at /\ job'[p] = j /\ conn'[p] = conn[p] /\ at \in {"recordModel", "recordDim"}
      BY <2>2 DEF Goes
    <2>4. PICK t : t = Written(p)
      OBVIOUS
    <2>5. /\ t.version = s.version /\ t.kind = s.kind /\ t.dim = s.dim /\ t.table = Dim[m]
          /\ at = "recordModel" => t.model = s.model
          /\ at = "recordDim" => t.model = m
      <3>1. CASE pc[p] = "rebuild"
        BY <1>0, <2>2, <2>4, <3>1 DEF Written, Store
      <3>2. CASE pc[p] = "recordModel"
        <4>1. s.table = Dim[m]
          BY <1>0, <1>1, <1>2, <3>2 DEF Knows
        <4> QED BY <1>0, <2>2, <2>4, <3>2, <4>1 DEF Written, Store
      <3> QED BY <1>8, <3>1, <3>2
    <2>6. s.dim # 0 => s.model = m
      BY <1>0, <1>1, <1>2, <1>8 DEF Knows, Adopting
    <2>7. pc[p] \in Reading /\ pc[p] # "rewrite"
      BY <1>8 DEF Reading, Adopting
    <2>8. Knows(at, j, Seen(p)')
      <3>1. Seen(p)'[k] = t /\ \A l \in Passed(j) : Seen(p)'[l] = Seen(p)[l]
        BY <1>3, <1>5, <2>3, <2>4, <2>7
      <3>2. Own(t, k)
        BY <1>4, <2>5, <2>7 DEF Own
      <3> QED BY <1>0, <1>3, <2>3, <2>5, <2>6, <2>7, <3>1, <3>2 DEF Knows, Adopting, Opened
    <2>9. \A q \in Procs : pc'[q] \in Adopting => Me(q)' = Me(p)'
      <3>1. \A q \in Procs \ {p} : pc'[q] = pc[q] /\ job'[q] = job[q]
        BY <2>1, ProcessesKept DEF Typed, Opening, Frame, Processes
      <3>2. \A q \in Procs : pc[q] \in Adopting => Me(q) = Me(p)
        BY <1>8 DEF Identities, Clear, Adopting
      <3> QED BY <2>3, <3>1, <3>2 DEF Me
    <2> QED BY <2>3, <2>8, <2>9 DEF Clear
  <1>9. CASE pc[p] = "recordDim"
    <2>1. RecordDim(p)
      BY <1>9 DEF Storing, Rewrite, Rebuild, RecordModel, Migrate, At
    <2>2. GoesOn(p)
      BY <1>0, <2>1, Outcomes DEF RecordDim
    <2>3. CASE pc'[p] = "none"
      BY <2>3, ClearElsewhere DEF Entering, Reading, Adopting, Opened
    <2>4. CASE pc'[p] # "none"
      <3>1. conn'[p] = conn[p]
        BY <2>2, <2>4 DEF GoesOn, Goes, Ends
      <3>2. Own(Written(p), k) /\ Mine(Written(p), j)
        <4>1. s.model = m /\ Own(s, k)
          BY <1>0, <1>1, <1>2, <1>4, <1>9 DEF Knows
        <4>2. Written(p) = [s EXCEPT !.dim = Dim[m]]
          BY <1>9 DEF Written
        <4> QED BY <1>0, <4>1, <4>2 DEF Store, Own, Mine
      <3>3. \A l \in Passed(j) : Seen(p)'[l] = Seen(p)[l]
        BY <1>3, <1>5, <1>9, <3>1 DEF Reading, Adopting
      <3> QED BY <1>0, <1>3, <1>5, <1>9, <2>2, <3>1, <3>2, <3>3, ClearGoesOn DEF Reading, Adopting
    <2> QED BY <2>3, <2>4
  <1> QED BY <1>0, <1>6, <1>7, <1>8, <1>9 DEF Adopting

LEMMA VectorClear ==
    ASSUME Typed, Directory, Identities, NEW p \in Procs, NEW k \in Kinds, WriteVector(p, k)
    PROVE  Clear(p)'
  <1>1. pc[p] = "serving" /\ Steps(p) /\ UNCHANGED <<pc, job, conn>>
    BY DEF WriteVector, At, Kept, Steps, Commands
  <1>2. \A l \in Kinds : Better(content[conn[p][l]], content'[conn[p][l]], l, pc[p], job[p])
    <2> SUFFICES ASSUME NEW l \in Kinds
                 PROVE  Better(content[conn[p][l]], content'[conn[p][l]], l, pc[p], job[p])
      OBVIOUS
    <2> PICK i : i = conn[p][l]
      OBVIOUS
    <2>1. i \in DOMAIN content /\ conn[p][k] \in DOMAIN content /\ content[i] \in Store
      BY <1>1, OpenIsMade DEF Typed, Files, Opened
    <2>2. content' = [content EXCEPT ![conn[p][k]].vecs = @ \cup {Me(p)}]
      BY DEF WriteVector
    <2>3. content'[i] = content[i] \/ \E v : content'[i] = [content[i] EXCEPT !.vecs = v]
      BY <2>1, <2>2
    <2> QED BY <2>1, <2>3, SameIsBetter
  <1>3. Knows(pc[p], job[p], Seen(p)')
    <2> PICK s, t, at, j, h, c : /\ s = Seen(p) /\ t = Seen(p)' /\ at = pc[p] /\ j = job[p]
                                 /\ h = held[p] /\ c = conn[p]
      OBVIOUS
    <2>1. \A l \in Kinds : c[l] # 0 => Better(s[l], t[l], l, at, j)
      BY <1>1, <1>2 DEF Seen
    <2>2. Knows(at, j, s) /\ Placed(at, j, h, c)
      BY DEF Identities, Clear, Typed, Processes
    <2>3. Knows(at, j, t)
      BY <2>1, <2>2, KnowsStays
    <2> QED BY <2>3
  <1> QED BY <1>1, <1>3, ClearBy DEF Adopting

LEMMA EmbedClear ==
    ASSUME Typed, Directory, Identities, NEW p \in Procs, Embed(p)
    PROVE  Clear(p)'
  <1>1. Shaped /\ pc[p] = "embed" /\ content' = content
    BY DEF Typed, Processes, Shaped, Embed, At, disk
  <1>2. CASE End(p)
    BY <1>1, <1>2, Moves, ClearElsewhere DEF Ends, Entering, Reading, Adopting, Opened
  <1>3. CASE ~End(p)
    <2> PICK t : t = [job[p] EXCEPT !.kind = "stm"]
      OBVIOUS
    <2>1. Goes(p, "rewrite", t)
      BY <1>1, <1>3, Moves DEF Embed
    <2>2. Seen(p)' = Seen(p)
      BY <1>1, <2>1 DEF Goes, Seen
    <2>3. Knows("embed", job[p], Seen(p))
      BY <1>1 DEF Identities, Clear
    <2>4. Knows("rewrite", t, Seen(p)')
      BY <2>2, <2>3 DEF Knows, Entering, Reading, Adopting, Opened
    <2> QED BY <2>1, <2>4, ClearBy DEF Goes, Adopting
  <1> QED BY <1>2, <1>3

LEMMA SelfClear ==
    ASSUME Typed, Directory, Identities, NEW p \in Procs, Steps(p), ~crossed'
    PROVE  Clear(p)'
  <1>0. Shaped
    BY DEF Typed, Processes, Shaped
  <1>1. CASE Locking(p)
    <2>1. CASE MakeDir(p) \/ OpenLockFile(p)
      <3>1. End(p) \/ \E at, t : at \in Outside /\ Goto(p, at, t)
        BY <2>1 DEF MakeDir, OpenLockFile, Outside
      <3>2. pc'[p] \in Outside
        BY <1>0, <3>1, Moves DEF Ends, Outside
      <3> QED BY <3>2, ClearElsewhere DEF Outside, Entering, Reading, Adopting, Opened
    <2> QED BY <1>1, <2>1, ComingClear DEF Locking
  <1>2. CASE Opening(p)
    BY <1>2, OpenFileClear, LookingClear, StoringClear DEF Opening, Storing
  <1>3. CASE Commands(p)
    <2>1. CASE Delete(p) \/ \E m \in Models : Serve(p, m) \/ Reembed(p, m) \/ Import(p, m)
      <3>1. PICK op, m, where : Begin(p, op, m, where) /\ where \in {"dir", "lockFile", "copyDir"}
        BY <2>1 DEF Delete, Serve, Reembed, Import
      <3>2. pc'[p] \in Outside
        BY <1>0, <3>1, Moves DEF Begin, Outside
      <3> QED BY <3>2, ClearElsewhere DEF Outside, Entering, Reading, Adopting, Opened
    <2>2. CASE Unlink(p) \/ CopyDir(p) \/ Copy(p) \/ CopyDone(p) \/ Imported(p)
      <3>1. End(p) \/ \E at, t : at \in Outside \cup {"removing", "discard"} /\ Goto(p, at, t)
        BY <2>2 DEF Unlink, CopyDir, Copy, CopyDone, Imported, Outside
      <3>2. pc'[p] \in Outside \cup {"removing", "discard"}
        BY <1>0, <3>1, Moves DEF Ends, Outside
      <3> QED BY <3>2, ClearElsewhere DEF Outside, Entering, Reading, Adopting, Opened
    <2>3. CASE RemoveDir(p) \/ Close(p) \/ Discard(p) \/ Crash(p)
      <3>1. pc'[p] = "none"
        BY <1>0, <2>3, Moves DEF RemoveDir, Close, Discard, Crash, Ends
      <3> QED BY <3>1, ClearElsewhere DEF Entering, Reading, Adopting, Opened
    <2> QED BY <1>3, <2>1, <2>2, <2>3, VectorClear, LookingClear, EmbedClear, StoringClear
            DEF Commands, Storing
  <1> QED BY <1>1, <1>2, <1>3 DEF Steps

LEMMA IdentitiesKept ==
    ASSUME Typed, Directory, Identities, NEW p \in Procs, Steps(p), ~crossed'
    PROVE  Identities'
  BY HonestKept, SelfClear, OthersClear DEF Identities

-----------------------------------------------------------------------------
(***************************************************************************)
(* The invariant, and what follows.                                        *)
(***************************************************************************)
LEMMA InitWorkspace == Init => WorkspaceInv
  <1> SUFFICES ASSUME Init PROVE WorkspaceInv
    OBVIOUS
  <1>1. \A p \in Procs : pc[p] = "none" /\ job[p] = NoJob /\ held[p] = Free /\ conn[p] = NoConn
    BY DEF Init
  <1>2. Processes
    BY <1>1, NobodyPlaced DEF Init, Processes
  <1>3. Files /\ Directory /\ \A i \in DOMAIN content : Honest(content[i])
    <2>0. \A p \in Procs : Orderly(p)
      BY <1>1 DEF Free, NoConn, Orderly, Copying, Removing, Holds
    <2>1. ASSUME there \in BOOLEAN, lockFile \in 0..inodes, inodes \in 0..MaxInodes,
                 DOMAIN content \subseteq 1..inodes, content \in [DOMAIN content -> Store],
                 file \in [Kinds -> Nat], \A k \in Kinds : Made(file[k])
          PROVE  Files
      <3>1. crossed = FALSE /\ jobs = 0 /\ crashes = 0
        BY DEF Init
      <3>2. MaxJobs \in Nat /\ MaxCrashes \in Nat
        BY WorkspaceConstants
      <3>3. \A p \in Procs : held[p].ino = 0 /\ pc[p] = "none" /\ \A k \in Kinds : Made(conn[p][k])
        BY <1>1 DEF Free, NoConn, Made
      <3>4. jobs \in 0..MaxJobs /\ crashes \in 0..MaxCrashes /\ 0 \in 0..inodes
        BY <2>1, <3>1, <3>2
      <3>5. \A p \in Procs :
               /\ held[p].ino \in 0..inodes /\ (\A k \in Kinds : Made(conn[p][k]))
               /\ pc[p] # "none" => job[p].fd \in 0..inodes
               /\ pc[p] = "copying" => job[p].fd \in DOMAIN content
        BY <3>3, <3>4
      <3>6. crossed \in BOOLEAN
        BY <3>1
      <3> QED BY <2>1, <3>4, <3>5, <3>6, Zenon DEF Files
    <2>4. there \in BOOLEAN
      BY DEF Init
    <2>2. CASE ~there
      <3>1. lockFile = 0 /\ inodes = 0 /\ file = NoConn /\ content = <<>>
        BY <2>2 DEF Init
      <3>2. DOMAIN content = {} /\ content \in [DOMAIN content -> Store]
        BY <3>1
      <3>3. /\ file \in [Kinds -> Nat] /\ \A k \in Kinds : Made(file[k])
            /\ lockFile \in 0..inodes /\ inodes \in 0..MaxInodes
        BY <3>1, WorkspaceConstants DEF Made, NoConn
      <3>4. Files
        BY <2>1, <2>4, <3>2, <3>3
      <3> QED BY <2>0, <3>1, <3>2, <3>4 DEF Directory, NoConn, Kinds
    <2>3. CASE there
      <3>1. /\ lockFile = 1 /\ inodes = 3 /\ file = [k \in Kinds |-> IF k = "stm" THEN 2 ELSE 3]
            /\ \E s \in Stores : content = [i \in {2, 3} |-> s[IF i = 2 THEN "stm" ELSE "ltm"]]
        BY <2>3 DEF Init
      <3>2. PICK s \in Stores : content = [i \in {2, 3} |-> s[IF i = 2 THEN "stm" ELSE "ltm"]]
        BY <3>1
      <3>3. \A k \in Kinds : s[k] \in Store /\ Honest(s[k])
        BY WorkspaceConstants
      <3>4. /\ DOMAIN content = {2, 3} /\ content \in [DOMAIN content -> Store]
            /\ \A i \in DOMAIN content : Honest(content[i])
        BY <3>2, <3>3 DEF Kinds
      <3>5. file \in [Kinds -> Nat] /\ \A k \in Kinds : Made(file[k])
        BY <3>1, <3>4 DEF Made
      <3>6. Files
        BY <2>1, <2>4, <3>1, <3>4, <3>5, WorkspaceConstants
      <3>7. file["stm"] # file["ltm"]
        BY <3>1 DEF Kinds
      <3> QED BY <2>0, <2>3, <3>4, <3>6, <3>7 DEF Directory
    <2> QED BY <2>2, <2>3, <2>4
  <1>4. Exclusion
    BY <1>1 DEF Exclusion, Free
  <1>5. \A p \in Procs : Clear(p)
    BY <1>1 DEF Clear, Knows, Entering, Reading, Adopting, Opened
  <1> QED BY <1>2, <1>3, <1>4, <1>5 DEF WorkspaceInv, Identities

LEMMA StepWorkspace ==
    ASSUME WorkspaceInv, NEW p \in Procs, Steps(p)
    PROVE  WorkspaceInv'
  <1>1. Processes' /\ Files' /\ Exclusion'
    BY ProcessesKept, FilesKept, ExclusionKept DEF WorkspaceInv, Steps
  <1>2. CASE crossed'
    BY <1>1, <1>2 DEF WorkspaceInv
  <1>3. CASE ~crossed'
    <2>1. Typed /\ Directory /\ Identities
      BY <1>3, CrossedStays DEF WorkspaceInv, Typed
    <2> QED BY <1>1, <1>3, <2>1, DirectoryKept, IdentitiesKept DEF WorkspaceInv
  <1> QED BY <1>2, <1>3

LEMMA IdleWorkspace ==
    ASSUME WorkspaceInv, UNCHANGED vars
    PROVE  WorkspaceInv'
  <1>1. Processes'
    BY DEF WorkspaceInv, Processes, vars
  <1>2. Files'
    BY DEF WorkspaceInv, Files, Made, vars, disk
  <1>3. Exclusion'
    BY DEF WorkspaceInv, Exclusion, vars
  <1>4. Directory => Directory'
    BY DEF Directory, Orderly, Copying, Removing, Holds, Kind, vars, disk
  <1>5. Identities => Identities'
    BY DEF Identities, Clear, Seen, Here, Ino, Kind, Me, vars, disk
  <1>6. crossed' = crossed
    BY DEF vars
  <1> QED BY <1>1, <1>2, <1>3, <1>4, <1>5, <1>6, Zenon DEF WorkspaceInv

\* The invariant the three theorems below rest on: what every process of a directory holds,
\* has open and knows of its stores, between any two steps (WorkspaceManager, Database::open).
THEOREM WorkspaceInvariant == Spec => []WorkspaceInv
  <1>1. Init => WorkspaceInv
    BY InitWorkspace
  <1>2. WorkspaceInv /\ [Next]_vars => WorkspaceInv'
    <2> SUFFICES ASSUME WorkspaceInv, [Next]_vars PROVE WorkspaceInv'
      OBVIOUS
    <2>1. CASE Next
      BY <2>1, StepWorkspace DEF Next, Steps
    <2>2. CASE UNCHANGED vars
      BY <2>2, IdleWorkspace
    <2> QED BY <2>1, <2>2
  <1> QED BY <1>1, <1>2, PTL DEF Spec

LEMMA Typing == ASSUME Processes, Files PROVE TypeOK
  <1>1. held \in [Procs -> [ino : 0..inodes, mode : {"none", "shared", "exclusive"}]]
    <2>1. \A p \in Procs : held[p] \in [ino : 0..inodes, mode : {"none", "shared", "exclusive"}]
      BY DEF Processes, Placed, Files, Held
    <2> QED BY <2>1 DEF Processes
  <1>2. \A i : Made(i) => i \in 0..inodes
    BY DEF Files, Made
  <1>3. file \in [Kinds -> 0..inodes]
    BY <1>2 DEF Files
  <1>4. conn \in [Procs -> [Kinds -> 0..inodes]]
    <2>1. \A p \in Procs : conn[p] \in [Kinds -> 0..inodes]
      BY <1>2 DEF Processes, Placed, Files
    <2> QED BY <2>1 DEF Processes
  <1>5. ASSUME NEW p \in Procs
        PROVE  /\ pc[p] = "none" <=> job[p] = NoJob
               /\ pc[p] = "none" => held[p] = Free /\ conn[p] = NoConn
    <2>1. NoJob \notin Job
      BY DEF NoJob, Job
    <2> QED BY <2>1 DEF Processes, Placed, Outside, Unlocked
  <1>6. there \in BOOLEAN /\ crossed \in BOOLEAN
    BY Zenon DEF Files
  <1> QED BY <1>1, <1>3, <1>4, <1>5, <1>6 DEF Files, TypeOK

\* What a process serves is its model's.
LEMMA ServedIsMine ==
    ASSUME Typed, Identities, NEW p \in Procs, Serving(p), NEW k \in Kinds
    PROVE  LET c == content[conn[p][k]] IN
           /\ c.model = Me(p) /\ c.dim = Dim[Me(p)] /\ c.table = Dim[Me(p)]
           /\ c.vecs \subseteq {Me(p), Unknown}
  <1>1. Mine(content[conn[p][k]], job[p])
    BY DEF Identities, Clear, Knows, Seen, Serving
  <1>2. Honest(content[conn[p][k]])
    BY OpenIsMade DEF Typed, Identities, Serving, Opened
  <1> QED BY <1>1, <1>2 DEF Mine, Honest, Me

LEMMA OneModel ==
    ASSUME NEW s, Honest(s)
    PROVE  Cardinality(s.vecs \ {Unknown}) <= 1
  <1>1. s.vecs \ {Unknown} = {} \/ s.vecs \ {Unknown} = {s.model}
    BY DEF Honest
  <1>2. Cardinality({}) = 0 /\ Cardinality({s.model}) = 1
    BY FS_EmptySet, FS_Singleton
  <1> QED BY <1>1, <1>2

\* However servers, deletions, re-embeddings, imports and crashes interleave, what
\* a process holds and has open goes with its command; a store it serves was
\* embedded by its own model, in both files; and no index mixes two models
\* (lease_workspace, check_embedding, record_embedding, reembed).
THEOREM StoresSound == Spec => []StoresAreSound
  <1>1. WorkspaceInv => StoresAreSound
    <2> SUFFICES ASSUME WorkspaceInv PROVE StoresAreSound
      OBVIOUS
    <2>1. TypeOK
      BY Typing DEF WorkspaceInv
    <2>2. AgreesWithStore
      BY ServedIsMine DEF WorkspaceInv, Typed, AgreesWithStore
    <2>3. OneVectorSpace
      BY OneModel DEF WorkspaceInv, Identities, OneVectorSpace
    <2> QED BY <2>1, <2>2, <2>3 DEF StoresAreSound
  <1> QED BY <1>1, WorkspaceInvariant, PTL

\* As long as nobody opens a directory that is just then being removed or copied
\* into, a deletion and a rewriting are alone with the stores (P2R-3), and the
\* files a process serves are the ones the directory names (open_store).
THEOREM ServedOnDisk == Spec => []ServedIsOnDisk
  <1>1. WorkspaceInv => ServedIsOnDisk
    <2> SUFFICES ASSUME WorkspaceInv, ~crossed PROVE ServedIsOnDisk
      BY DEF ServedIsOnDisk
    <2>1. Typed /\ Directory
      BY DEF WorkspaceInv, Typed
    <2>2. \A p \in Procs : Serving(p) => Holds(p)
      BY <2>1, HoldersOnly DEF Typed, Serving, Outside
    <2>3. MaintenanceIsAlone
      BY <2>1, <2>2, ExclusiveAlone DEF MaintenanceIsAlone
    <2>4. ASSUME NEW p \in Procs, Serving(p) PROVE there /\ conn[p] = file
      <3>1. there
        BY <2>1, <2>2, <2>4 DEF Directory, Orderly
      <3>2. /\ conn[p] \in [Kinds -> Nat] /\ file \in [Kinds -> Nat]
            /\ conn[p]["stm"] # 0 /\ conn[p]["ltm"] # 0
        BY <2>1, <2>4 DEF Typed, Processes, Placed, Files, Serving, Opened
      <3>3. \A k \in Kinds : conn[p][k] \in {0, file[k]}
        BY <2>1 DEF Directory, Orderly
      <3> QED BY <3>1, <3>2, <3>3 DEF Kinds
    <2> QED BY <2>3, <2>4 DEF ServedIsOnDisk
  <1> QED BY <1>1, WorkspaceInvariant, PTL

\* A store is written to only by who has found it to be its own to write to.
LEMMA OwnIsWritten ==
    ASSUME Typed, Directory, Identities, NEW p \in Procs, Steps(p), NEW k \in Kinds,
           file[k] # 0, Foreign(content[file[k]], k)
    PROVE  content'[file[k]] = content[file[k]] \/ ~content[file[k]].whole
  <1> PICK i : i = file[k]
    OBVIOUS
  <1>1. i \in DOMAIN content /\ content[i] \in Store
    BY DEF Typed, Files, Made
  <1>2. ASSUME NEW l \in Kinds, conn[p][l] = i PROVE l = k
    <2>1. file[l] = file[k] /\ file[k] # 0
      BY <1>2 DEF Directory, Orderly
    <2>2. file["stm"] = file["ltm"] => file["stm"] = 0
      BY DEF Directory
    <2> QED BY <2>1, <2>2 DEF Kinds
  <1>3. Knows(pc[p], job[p], Seen(p))
    BY DEF Identities, Clear
  <1>4. ~(Storing(p) /\ i = Ino(p))
    <2> SUFFICES ASSUME Storing(p), i = Ino(p) PROVE FALSE
      OBVIOUS
    <2>1. Kind(p) \in Kinds /\ pc[p] \in {"migrate", "rewrite"} \cup Adopting
      BY StoringWrites, OpenIsMade DEF Typed, Adopting
    <2>2. k = Kind(p)
      BY <1>2, <2>1 DEF Ino
    <2>3. Own(content[i], k)
      BY <1>3, <2>1, <2>2 DEF Knows, Seen, Ino, Kind, Reading, Adopting, Opened
    <2> QED BY <1>1, <2>3, WorkspaceConstants DEF Own, Foreign, Store
  <1>5. ~Given(p, i)
    <2> SUFFICES ASSUME Given(p, i) PROVE FALSE
      OBVIOUS
    <2>1. PICK l \in Kinds : pc[p] = "serving" /\ i = conn[p][l]
      BY DEF Given
    <2>2. Own(content[i], k)
      BY <1>2, <1>3, <2>1 DEF Knows, Seen, Opened
    <2> QED BY <1>1, <2>2, WorkspaceConstants DEF Own, Foreign, Store
  <1>6. ASSUME content'[i] = [content[i] EXCEPT !.whole = TRUE], content[i].whole
        PROVE  content'[i] = content[i]
    <2> PICK s : s = content[i]
      OBVIOUS
    <2>1. s.whole = TRUE /\ s \in Store
      BY <1>1, <1>6 DEF Store
    <2>2. [s EXCEPT !.whole = TRUE] = s
      BY <2>1 DEF Store
    <2> QED BY <1>6, <2>2
  <1> QED BY <1>1, <1>4, <1>5, <1>6, StoresBecome DEF Becomes

LEMMA MigratedWasBackedUp ==
    ASSUME Typed, Directory, Identities, NEW p \in Procs, Steps(p), NEW i \in DOMAIN content,
           content'[i].version # content[i].version, content[i].kind # "none"
    PROVE  <<i, content[i].version>> \in backups
  <1>1. content[i] \in Store
    BY DEF Typed, Files
  <1>2. CASE Storing(p) /\ i = Ino(p) /\ content'[i] = Written(p)
    <2>1. PICK s, m, k : s = Here(p) /\ m = Me(p) /\ k = Kind(p)
      OBVIOUS
    <2>2. s \in Store /\ pc[p] \in {"migrate", "rewrite"} \cup Adopting /\ s = content[i]
      BY <1>1, <1>2, <2>1, StoringWrites DEF Typed, Here
    <2>3. pc[p] = "migrate" /\ s.version # Latest
      <3>1. pc[p] # "migrate" => Written(p).version = s.version
        BY <2>1, <2>2 DEF Written, Rewriting, Store, Adopting
      <3>2. pc[p] = "migrate" => Written(p).version = Latest
        BY <2>1, <2>2 DEF Written, Migration, Store
      <3> QED BY <1>2, <2>2, <3>1, <3>2
    <2>4. Old(Here(p))
      BY <2>1, <2>2, <2>3 DEF Old
    <2> QED BY <1>2, <2>1, <2>2, <2>3, <2>4 DEF Identities, Clear
  <1>3. CASE ~(Storing(p) /\ i = Ino(p) /\ content'[i] = Written(p))
    <2> PICK s : s = content[i]
      OBVIOUS
    <2>0. s \in Store /\ \A v : [s EXCEPT !.vecs = v].version = s.version
      BY <1>1 DEF Store
    <2>1. content'[i].version = content[i].version
      <3>1. CASE Given(p, i)
        BY <2>0, <3>1 DEF Given
      <3>2. CASE content'[i] = [content[i] EXCEPT !.whole = TRUE]
        BY <2>0, <3>2 DEF Store
      <3> QED BY <1>3, <3>1, <3>2, StoresBecome DEF Becomes
    <2> QED BY <2>1
  <1> QED BY <1>2, <1>3

\* A store with tables changes its version only when a snapshot of it at the old
\* one is there, however many processes migrate it at once; and a store of a newer
\* release, or of the other kind, is never written to (migrations::run).
THEOREM UpgradesSafe == Spec => UpgradesAreSafe
  <1>1. ASSUME WorkspaceInv, [Next]_vars
        PROVE  /\ [\A i \in DOMAIN content :
                     content'[i].version # content[i].version /\ content[i].kind # "none"
                         => crossed \/ <<i, content[i].version>> \in backups]_vars
               /\ [\A k \in Kinds : file[k] # 0 /\ Foreign(content[file[k]], k) =>
                     crossed \/ content'[file[k]] = content[file[k]]
                             \/ ~content[file[k]].whole]_vars
    <2>1. CASE crossed
      BY <2>1
    <2>2. CASE UNCHANGED vars
      BY <2>2
    <2>3. CASE Next /\ ~crossed
      <3>1. Typed /\ Directory /\ Identities
        BY <1>1, <2>3, Zenon DEF WorkspaceInv, Typed
      <3>2. PICK p \in Procs : Steps(p)
        BY <2>3 DEF Next, Steps
      <3> QED BY <3>1, <3>2, OwnIsWritten, MigratedWasBackedUp
    <2> QED BY <1>1, <2>1, <2>2, <2>3
  <1> QED BY <1>1, WorkspaceInvariant, PTL DEF Spec, UpgradesAreSafe, MigratedHasBackup, ForeignIsUntouched
=============================================================================
