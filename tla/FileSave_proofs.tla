--------------------------- MODULE FileSave_proofs ---------------------------
(* Proofs about FileSave, for every number of inodes, saves, crashes and     *)
(* changes by others, and for every choice of the save options.              *)
EXTENDS FileSave, FiniteSetTheorems, TLAPS

-----------------------------------------------------------------------------
(* The invariant, part by part.                                              *)

Histories ==
  /\ meddle \in Nat /\ saves \in Nat /\ crashes \in Nat
  /\ chk \in Nat /\ late \in BOOLEAN /\ lost \in SUBSET Nat
  /\ blind \in SUBSET {v \in Nat : v >= First} /\ severed \in SUBSET Inode

Typed == FilesOK /\ EditorOK /\ Histories

(* No stamp is ahead of the clock, and the clock has moved since the buffer  *)
(* learnt what it knows of the file when a save is under way.                *)
Stamps == /\ chk <= tick /\ First <= tick /\ \A i \in Inode : mtime[i] <= tick

Clock == /\ Stamps
         /\ meta.mtime <= tick /\ (pc # "idle" => meta.mtime < tick)
         /\ job.acc.mtime <= tick /\ job.stat <= tick

(* What a process sees is one of the things a power cut may leave. *)
Sure == /\ \A i \in Inode : data[i] \in pdata[i]
        /\ \A n \in Name : name[n] \in pname[n]

(* The save in progress. *)
AtomicLabels == {"opentemp", "writetemp", "synctemp", "recheck", "rename",
                 "syncdir"}

Progress ==
  /\ pc = "idle" => job = NoJob
  /\ pc # "idle" => /\ Whole(job.ver) /\ job.acc.text = meta.text
                    /\ job.strategy = "atomic" => pc \in AtomicLabels
  /\ meta.exists => meta.ino # Nil
  /\ job.acc.exists => job.acc.ino # Nil
  /\ pc = "bakcopy" => job.acc.exists

TempLabels  == {"writetemp", "synctemp", "recheck", "rename"}
NewLabels   == {"fill", "syncnew", "syncnewdir"}
OwnLabels   == {"ipwrite", "iprest", "ipsync", "restore", "restoring", "rotate"}
CopyLabels  == OwnLabels \cup {"baklink", "baksync", "ipopen"}
WriteLabels == TempLabels \cup NewLabels \cup OwnLabels \cup {"syncdir"}

(* The inode of the pending copy. *)
Copy == IF pc = "baklink" THEN job.fd ELSE name[job.pend]

(* The file and its backups are different inodes, whatever a power cut       *)
(* leaves ...                                                                *)
Disjoint ==
  \A n \in Backups : \A i \in pname[n] : i # Nil => i \notin pname["dst"]

(* ... and so is the inode the save writes to: no backup, and, unless it is  *)
(* the file, not the file either.                                            *)
FdApart ==
  /\ pc \in WriteLabels => /\ job.fd # Nil
                           /\ \A n \in Backups : job.fd \notin pname[n]
  /\ pc \in TempLabels => job.fd \notin pname["dst"]
  /\ pc \in OwnLabels => job.fd = Dst \/ job.fd \notin pname["dst"]

(* Nobody writes to the pending copy, which is whole on the disk. *)
CopyApart ==
  /\ pc \in CopyLabels =>
       /\ Copy # Nil /\ Copy \notin pname["dst"] /\ pdata[Copy] = {data[Copy]}
       /\ pc \notin {"baklink", "baksync"} => pname[job.pend] = {Copy}
  /\ pc \in {"baksync", "ipopen"} => job.fd = name[job.pend]

Apart == Disjoint /\ FdApart /\ CopyApart

(* The accepted inode is still the file, or is older than the clock. *)
Held == pc \notin NewLabels \cup {"idle", "syncdir"} /\ job.acc.exists =>
          job.acc.ino = Dst \/ job.acc.mtime < tick

(* As long as the accepted inode keeps its mtime, the copy has its bytes.    *)
Same(m, c) == mtime[m.ino] = m.mtime => data[m.ino] = c

Copying ==
  /\ pc = "bakcopy" => Same(job.acc, job.copy)
  /\ pc \in {"baklink", "baksync", "ipopen"} /\ job.acc.exists =>
       Same(job.acc, data[Copy])

(* From the last identity check on, the copy is the text that it accepted. *)
Copied == pc \in OwnLabels => data[Copy] = job.old

(* A backup that no power cut can take away or tear. *)
Sound(n) == \A j \in pname[n] : j # Nil /\ Torn \notin pdata[j]

(* Such a backup, other than the one the save in progress may yet drop. *)
Elsewhere == \E n \in Pendings :
               Sound(n) /\ (pc \in CopyLabels \ {"baklink"} => n # job.pend)

Overwriting == {"ipwrite", "iprest", "ipsync", "restore", "restoring"}

Sheltered ==
  /\ \A i \in pname["dst"] \ {Nil} : Torn \in pdata[i] =>
       \/ Elsewhere
       \/ pc \in Overwriting /\ i = job.fd /\ data[Copy] # Torn
  /\ pc \in Overwriting /\ data[Copy] = Torn => Elsewhere

(* The temporary: its text, then on the disk. *)
Temporary ==
  /\ pc = "synctemp" => data[job.fd] = job.ver
  /\ pc \in {"recheck", "rename"} => pdata[job.fd] = {job.ver}

(* What the final fstat of a save takes for its own is its own text, or one  *)
(* that another program wrote just before it.                                *)
Written ==
  /\ pc \in {"syncnew", "ipsync"} => data[job.fd] \in {job.ver} \cup blind
  /\ pc \in {"recheck", "rename", "syncdir", "syncnewdir", "rotate"} =>
       (mtime[job.fd] = job.stat => data[job.fd] \in {job.ver} \cup blind)
  /\ pc \in {"iprest", "restoring"} => mtime[job.fd] > meta.mtime

(* So an inode with the mtime the buffer recorded has the text it recorded,  *)
(* or one of those.                                                          *)
Known(m, text) ==
  m.exists /\ mtime[m.ino] = m.mtime => data[m.ino] \in {text} \cup blind

CheckLabels == {"opentemp", "writetemp", "synctemp", "recheck", "rename", "bakopen",
                "bakcopy", "baklink", "baksync", "ipopen"}

KnownText ==
  /\ Known(meta, meta.text)
  /\ pc \in CheckLabels /\ job.check # "off" => Known(job.acc, meta.text)

(* Nothing is lost when the save overwrites inode i: the buffer has read its *)
(* text, or it was written after the last identity check.                    *)
Accounted(i) ==
  i # Nil /\ job.check # "off" =>
    \/ data[i] \in {meta.text, job.ver} \cup blind
    \/ ~Whole(data[i]) \/ data[i] > chk

NothingLost ==
  /\ pc # "idle" => Accounted(Dst)
  /\ pc = "ipwrite" => Accounted(job.fd)
  /\ lost = {}

(* What the save has put in place and made durable, unless someone else has  *)
(* acted on the file since the last check.                                   *)
Landed ==
  /\ pc = "syncdir" /\ Dst # Nil => pdata[Dst] = {data[Dst]}
  /\ ~late =>
       /\ pc \in NewLabels \cup {"syncdir", "ipwrite", "iprest", "ipsync", "rotate"} =>
            Dst = job.fd
       /\ pc \in {"syncnew", "ipsync"} => data[job.fd] = job.ver
       /\ pc \in {"syncdir", "syncnewdir", "rotate"} => pdata[job.fd] = {job.ver}

(* About to rename: when the link discounted for the journal is there, one   *)
(* link of the file is the file's own name and no other is the user's.       *)
Linked ==
  /\ pc = "rename" /\ job.strategy # "atomic" /\ ~late /\ Discounted =>
       Dst \notin twins
  /\ severed = {}

SaveInv == /\ Typed /\ Clock /\ Sure /\ Progress /\ Apart
           /\ Held /\ Copying /\ Copied /\ Temporary /\ Written /\ Sheltered
           /\ KnownText /\ NothingLost /\ Landed /\ Linked


-----------------------------------------------------------------------------
(* Facts about the parts of the file system. *)

LEMMA SurvivorsAre ==
  ASSUME NEW v, NEW p, NEW d \in Survivors(v, p),
         \A x \in DOMAIN v : v[x] \in p[x]
  PROVE  d = [x \in DOMAIN v |-> d[x]] /\ \A x \in DOMAIN v : d[x] \in p[x]
BY DEF Survivors

LEMMA FreshIs ==
  ASSUME NEW i \in Fresh
  PROVE  /\ i \in Inode /\ i \notin twins /\ i # job.fd
         /\ \A n \in Name : name[n] # i /\ i \notin pname[n]
BY DEF Fresh, FreeInode

LEMMA NilIsNoInode == Nil \notin Inode
BY BoundsAssumption DEF Nil, Inode

LEMMA MetaParts ==
  ASSUME NEW m \in MetaType
  PROVE  /\ m.exists \in BOOLEAN /\ m.ino \in Inode \cup {Nil} /\ m.mtime \in Nat
         /\ m.text \in Content /\ m.pinned \in BOOLEAN
BY DEF MetaType

LEMMA JobParts ==
  ASSUME NEW j \in JobType
  PROVE  /\ j.ver \in Content /\ j.strategy \in {"auto", "atomic", "inplace"}
         /\ j.check \in {"off", "mtime", "content"} /\ j.keep \in {0, 1}
         /\ j.acc \in MetaType /\ j.fd \in Inode \cup {Nil}
         /\ j.copy \in Content /\ j.pend \in Pendings /\ j.old \in Content
         /\ j.stat \in Nat
BY DEF JobType

LEMMA NoMetaType == NoMeta \in MetaType
BY DEF NoMeta, MetaType, Content, Nil, Torn

LEMMA NoJobType == NoJob \in JobType
BY NoMetaType DEF NoJob, JobType, Content, Nil, Torn, Pendings

LEMMA DstIs ==
  ASSUME FilesOK
  PROVE  /\ Dst \in Inode \cup {Nil}
         /\ Dst # Nil => Dst \in Inode /\ mtime[Dst] \in Nat /\ data[Dst] \in Nat
<1>1. "dst" \in Name
  BY DEF Name
<1> QED  BY <1>1 DEF FilesOK, Dst, Content

LEMMA AcceptType ==
  ASSUME FilesOK, NEW m \in MetaType
  PROVE  Accept(m) \in MetaType
<1>1. CASE Dst = Nil
  BY <1>1 DEF Accept, MetaType
<1>2. CASE Dst # Nil
  <2>1. Dst \in Inode /\ mtime[Dst] \in Nat
    BY <1>2, DstIs
  <2> QED  BY <1>2, <2>1 DEF Accept, MetaType
<1> QED  BY <1>1, <1>2

LEMMA LoadedType ==
  ASSUME FilesOK PROVE Loaded \in MetaType /\ Recovered \in MetaType
<1>1. Loaded \in MetaType
  <2>1. CASE Dst = Nil
    BY <2>1, NoMetaType DEF Loaded
  <2>2. CASE Dst # Nil
    <3>1. Dst \in Inode /\ mtime[Dst] \in Nat /\ data[Dst] \in Nat
      BY <2>2, DstIs
    <3> QED  BY <2>2, <3>1 DEF Loaded, MetaType, Content
  <2> QED  BY <2>1, <2>2
<1>2. (Dst # Nil /\ name["jbase"] = Dst) \in BOOLEAN
  OBVIOUS
<1> QED  BY <1>1, <1>2 DEF Recovered, MetaType

LEMMA SavedType ==
  ASSUME EditorOK, job.fd \in Inode
  PROVE  SavedMeta(job.fd) \in MetaType
<1>1. job.stat \in Nat /\ job.ver \in Content /\ meta.pinned \in BOOLEAN
  BY JobParts, MetaParts DEF EditorOK
<1>2. (meta.pinned /\ meta.ino = job.fd) \in BOOLEAN
  BY <1>1
<1> QED  BY <1>1, <1>2 DEF SavedMeta, MetaType

-----------------------------------------------------------------------------
(* Types.  First the ways a call of the save ends ... *)

LEMMA GotoOK ==
  ASSUME EditorOK, NEW label \in Labels, Goto(label) PROVE EditorOK'
BY DEF EditorOK, Goto

LEMMA FailOK ==
  ASSUME EditorOK, NEW res \in {"IO", "CHANGED"}, Fail(res) PROVE EditorOK'
BY NoJobType DEF EditorOK, Fail, Return, Labels

LEMMA CommitOK ==
  ASSUME EditorOK, job.fd \in Inode, NEW res \in {"OK", "BACKUP_FAILED"},
         Commit(res, job.fd)
  PROVE  EditorOK'
BY NoJobType, SavedType DEF EditorOK, Commit, Return, Labels

LEMMA SealedOK ==
  ASSUME FilesOK, EditorOK, job.fd \in Inode, NEW label \in Labels, Sealed(label)
  PROVE  EditorOK'
<1>1. mtime[job.fd] \in Nat
  BY DEF FilesOK
<1> QED  BY <1>1 DEF EditorOK, Sealed, JobType

(* ... then the ways it changes the file system. *)

LEMMA SameFilesOK ==
  ASSUME FilesOK, UNCHANGED fs, tick' \in Nat PROVE FilesOK'
BY DEF FilesOK, fs

LEMMA UnlinkOK ==
  ASSUME FilesOK, NEW ns, UnlinkSync(ns),
         UNCHANGED <<data, pdata, mtime, twins, tick>>
  PROVE  FilesOK'
BY DEF FilesOK, UnlinkSync

LEMMA BindOK ==
  ASSUME FilesOK, NEW n \in Name, NEW i \in Inode, Bind(n, i)
  PROVE  /\ name' \in [Name -> Inode \cup {Nil}]
         /\ pname' \in [Name -> SUBSET (Inode \cup {Nil})]
BY DEF FilesOK, Bind

(* A write to one inode: its bytes, what a power cut leaves, its mtime. *)
LEMMA PutOK ==
  ASSUME FilesOK, NEW i \in Inode, NEW c \in Content, NEW s \in SUBSET Content,
         NEW t \in Nat, data' = [data EXCEPT ![i] = c],
         pdata' = [pdata EXCEPT ![i] = s], mtime' = [mtime EXCEPT ![i] = t]
  PROVE  /\ data' \in [Inode -> Content] /\ pdata' \in [Inode -> SUBSET Content]
         /\ mtime' \in [Inode -> Nat]
BY DEF FilesOK

LEMMA NameIs ==
  /\ "dst" \in Name /\ "tmp" \in Name /\ "jbase" \in Name /\ "base" \in Name
  /\ Pendings \subseteq Backups /\ Backups \subseteq Name
  /\ Pendings \subseteq Name /\ "base" \in Backups
  /\ "base" \notin Pendings /\ "dst" \notin Backups /\ "tmp" \notin Backups
  /\ "jbase" \notin Backups
BY DEF Name, Backups, Pendings

LEMMA FdIs ==
  ASSUME EditorOK, Apart, pc \in WriteLabels \cup {"baklink"}
  PROVE  job.fd \in Inode
<1>1. job.fd \in Inode \cup {Nil}
  BY JobParts DEF EditorOK
<1>2. job.fd # Nil
  BY DEF Apart, FdApart, CopyApart, WriteLabels, CopyLabels, OwnLabels, Copy
<1> QED  BY <1>1, <1>2

LEMMA CopyIs ==
  ASSUME FilesOK, EditorOK, Apart, pc \in CopyLabels
  PROVE  Copy \in Inode /\ data[Copy] \in Content
<1>1. job.pend \in Name /\ job.fd \in Inode \cup {Nil}
  BY JobParts, NameIs DEF EditorOK
<1>2. Copy \in Inode \cup {Nil}
  BY <1>1 DEF Copy, FilesOK
<1> QED  BY <1>2 DEF Apart, CopyApart, FilesOK

LEMMA MatchIs ==
  ASSUME EditorOK, Progress, MetaMatches(job.acc)
  PROVE  Dst # Nil /\ Dst = job.acc.ino /\ mtime[Dst] = job.acc.mtime
BY DEF Progress, MetaMatches

LEMMA HistoriesKept ==
  ASSUME Histories, UNCHANGED <<counts, checks, blind, severed>>,
         lost' \in SUBSET Nat
  PROVE  Histories'
BY DEF Histories, counts, checks

LEMMA OverwriteOK ==
  ASSUME FilesOK, Histories, NEW i \in Inode \cup {Nil}, Overwrite(i)
  PROVE  lost' \in SUBSET Nat
<1>1. i # Nil => data[i] \in Nat
  BY DEF FilesOK, Content
<1> QED  BY <1>1 DEF Overwrite, Histories

(* What the lemma of every step may use of the state before it. *)
Before == FilesOK /\ EditorOK /\ Histories /\ Clock /\ Progress /\ Apart

(* ... then the steps of a save with a temporary, *)
LEMMA SomeSaveTyped ==
  ASSUME Before, SomeSave PROVE FilesOK' /\ EditorOK' /\ Histories'
<1> USE DEF Before
<1>1. PICK s \in Strategies, c \in Checks, f \in Forces, k \in Keeps,
           w \in BOOLEAN : FileSave(s, c, f, k, w)
  BY DEF SomeSave
<1> DEFINE how == IF f THEN "off" ELSE c
           exp == IF f THEN Accept(meta) ELSE meta
           old == IF Dst = Nil THEN Torn ELSE data[Dst]
<1>2. /\ how \in {"off", "mtime", "content"} /\ s \in {"auto", "atomic", "inplace"}
      /\ k \in {0, 1}
  BY OptionsAssumption
<1>3. exp \in MetaType /\ Accept(exp) \in MetaType
  BY AcceptType DEF EditorOK
<1>4. old \in Content
  BY DstIs DEF Content, Torn
<1>5. tick \in Nat /\ tick' = tick + 1 /\ UNCHANGED <<fs, meta>>
  BY <1>1 DEF FileSave, FilesOK
<1>6. FilesOK'
  BY <1>5, SameFilesOK
<1>7. EditorOK'
  <2>1. CASE pc' = "idle" /\ job' = NoJob /\ out' \in {"CHANGED", "IO"}
    BY <2>1, <1>5, NoJobType DEF EditorOK, Labels
  <2>2. CASE \E label \in {"overwrite", "bakopen", "create", "opentemp"} :
               /\ label # "overwrite"
               /\ Enter(label, Accept(exp), tick + 1, s, how, k) /\ UNCHANGED out
    <3>1. PICK label \in {"bakopen", "create", "opentemp"} :
               Enter(label, Accept(exp), tick + 1, s, how, k)
      BY <2>2
    <3>2. job' = [NoJob EXCEPT !.ver = tick + 1, !.strategy = s, !.check = how,
                               !.keep = k, !.acc = Accept(exp), !.old = old]
      BY <3>1 DEF Enter
    <3> HIDE DEF how, exp, old
    <3>3. tick + 1 \in Content
      BY <1>5 DEF Content
    <3>4. [NoJob EXCEPT !.ver = tick + 1, !.strategy = s, !.check = how,
                        !.keep = k, !.acc = Accept(exp), !.old = old] \in JobType
      BY <1>2, <1>3, <1>4, <3>3, NoJobType DEF JobType
    <3>5. job' \in JobType
      BY <3>2, <3>4
    <3> QED  BY <3>1, <3>5, <2>2, <1>5 DEF EditorOK, Enter, Labels
  <2> QED  BY <1>1, <2>1, <2>2 DEF FileSave, Inplace
<1>8. Histories'
  <2>1. /\ saves' = saves + 1 /\ late' = FALSE /\ chk' = tick
        /\ UNCHANGED <<meddle, crashes, lost, blind, severed>>
    BY <1>1 DEF FileSave
  <2>2. Histories /\ tick \in Nat
    BY <1>5
  <2> HIDE DEF how, exp, old, Before
  <2>3. chk' \in Nat
    BY <2>1, <2>2
  <2>4. saves' \in Nat
    BY <2>1, <2>2 DEF Histories
  <2>5. late' \in BOOLEAN
    BY <2>1
  <2>6. meddle' \in Nat /\ crashes' \in Nat /\ lost' \in SUBSET Nat
    BY <2>1, <2>2 DEF Histories
  <2>7. blind' \in SUBSET {v \in Nat : v >= First} /\ severed' \in SUBSET Inode
    BY <2>1, <2>2 DEF Histories
  <2> QED  BY <2>3, <2>4, <2>5, <2>6, <2>7 DEF Histories
<1> QED  BY <1>6, <1>7, <1>8

LEMMA OpenTempTyped ==
  ASSUME Before, OpenTemp PROVE FilesOK' /\ EditorOK' /\ Histories'
<1> USE DEF Before
<1>1. CASE Fail("IO") /\ UNCHANGED fs
  BY <1>1, FailOK, SameFilesOK, HistoriesKept DEF OpenTemp, FilesOK, losses, Histories
<1>2. CASE ~(Fail("IO") /\ UNCHANGED fs)
  <2>1. PICK i \in Fresh : /\ Bind("tmp", i) /\ data' = [data EXCEPT ![i] = Stub]
                           /\ pdata' = [pdata EXCEPT ![i] = {Stub}]
                           /\ mtime' = [mtime EXCEPT ![i] = tick]
                           /\ job' = [job EXCEPT !.fd = i] /\ pc' = "writetemp"
                           /\ UNCHANGED <<twins, out, meta>>
    BY <1>2 DEF OpenTemp
  <2>2. i \in Inode /\ Stub \in Content /\ {Stub} \in SUBSET Content /\ tick \in Nat
    BY FreshIs DEF Stub, Content, FilesOK
  <2>3. FilesOK'
    BY <2>1, <2>2, BindOK, PutOK, NameIs DEF OpenTemp, FilesOK
  <2>4. EditorOK'
    BY <2>1, <2>2 DEF EditorOK, JobType, Labels
  <2> QED  BY <2>3, <2>4, HistoriesKept DEF OpenTemp, losses, Histories
<1> QED  BY <1>1, <1>2

LEMMA WriteTempTyped ==
  ASSUME Before, WriteTemp PROVE FilesOK' /\ EditorOK' /\ Histories'
<1> USE DEF Before
<1>1. CASE Fail("IO") /\ DropTemp
  BY <1>1, FailOK, UnlinkOK, HistoriesKept
  DEF WriteTemp, DropTemp, losses, Histories
<1>2. CASE ~(Fail("IO") /\ DropTemp)
  <2>1. job.fd \in Inode /\ job.ver \in Content /\ tick \in Nat
    BY FdIs, JobParts DEF WriteTemp, EditorOK, FilesOK, WriteLabels, TempLabels
  <2>2. pdata[job.fd] \cup {job.ver} \in SUBSET Content
    BY <2>1 DEF FilesOK
  <2>3. FilesOK'
    BY <1>2, <2>1, <2>2, PutOK DEF WriteTemp, FilesOK
  <2>4. EditorOK'
    BY <1>2, GotoOK DEF WriteTemp, Labels
  <2> QED  BY <2>3, <2>4, HistoriesKept DEF WriteTemp, losses, Histories
<1> QED  BY <1>1, <1>2

LEMMA SyncOK ==
  ASSUME FilesOK, NEW i \in Inode, Fsync(i),
         UNCHANGED <<data, name, pname, mtime, twins, tick>>
  PROVE  FilesOK'
BY DEF FilesOK, Fsync

LEMMA SyncTempTyped ==
  ASSUME Before, SyncTemp PROVE FilesOK' /\ EditorOK' /\ Histories'
<1> USE DEF Before
<1>1. Histories'
  BY HistoriesKept DEF SyncTemp, losses, Histories
<1>2. CASE Fail("IO") /\ DropTemp
  BY <1>1, <1>2, FailOK, UnlinkOK DEF SyncTemp, DropTemp
<1>3. CASE DropTemp /\ Goto(Inplace(job.acc))
  <2>1. Inplace(job.acc) \in Labels
    BY DEF Inplace, Labels
  <2> QED  BY <1>1, <1>3, <2>1, GotoOK, UnlinkOK DEF SyncTemp, DropTemp
<1>4. CASE Fsync(job.fd) /\ Sealed("recheck")
           /\ UNCHANGED <<data, name, pname, mtime, twins>>
  <2>1. job.fd \in Inode
    BY FdIs DEF SyncTemp, WriteLabels, TempLabels
  <2> QED  BY <1>1, <1>4, <2>1, SealedOK, SyncOK DEF SyncTemp, Labels
<1> QED  BY <1>2, <1>3, <1>4 DEF SyncTemp

LEMMA RecheckTyped ==
  ASSUME Before, Recheck PROVE FilesOK' /\ EditorOK' /\ Histories'
<1> USE DEF Before
<1>1. Histories'
  BY DEF Recheck, losses, counts, Histories, FilesOK
<1>2. CASE (Fail("IO") \/ Fail("CHANGED")) /\ DropTemp
  BY <1>1, <1>2, FailOK, UnlinkOK DEF Recheck, DropTemp
<1>3. CASE ~((Fail("IO") \/ Fail("CHANGED")) /\ DropTemp)
  <2>1. job' = [job EXCEPT !.acc = Accept(@)] /\ UNCHANGED <<out, meta, tick>>
    BY <1>3 DEF Recheck
  <2>2. job' \in JobType
    BY <2>1, AcceptType, JobParts DEF EditorOK, JobType
  <2>3. pc' \in Labels
    BY <1>3 DEF Recheck, Inplace, Labels
  <2>4. FilesOK'
    BY <1>3, UnlinkOK, SameFilesOK DEF Recheck, DropTemp, FilesOK
  <2> QED  BY <1>1, <2>1, <2>2, <2>3, <2>4 DEF EditorOK
<1> QED  BY <1>2, <1>3

LEMMA RenameTyped ==
  ASSUME Before, Rename PROVE FilesOK' /\ EditorOK' /\ Histories'
<1> USE DEF Before
<1>1. /\ job.fd \in Inode /\ Dst \in Inode \cup {Nil}
      /\ "dst" \in Name /\ "tmp" \in Name /\ Nil \in Inode \cup {Nil}
  BY FdIs, DstIs, NameIs DEF Rename, WriteLabels, TempLabels
<1>2. Histories'
  <2>1. lost' \in SUBSET Nat
    BY <1>1, OverwriteOK DEF Rename, Histories
  <2>2. severed' \in SUBSET Inode
    BY DEF Rename, Histories, FilesOK
  <2> QED  BY <2>1, <2>2 DEF Rename, Histories, counts, checks
<1>3. CASE Fail("IO") /\ DropTemp
  BY <1>2, <1>3, FailOK, UnlinkOK DEF Rename, DropTemp
<1>4. CASE DropTemp /\ Goto(Inplace(job.acc))
  <2>1. Inplace(job.acc) \in Labels
    BY DEF Inplace, Labels
  <2> QED  BY <1>2, <1>4, <2>1, GotoOK, UnlinkOK DEF Rename, DropTemp
<1>5. CASE /\ name' = [name EXCEPT !["dst"] = job.fd, !["tmp"] = Nil]
           /\ pname' = [pname EXCEPT !["dst"] = @ \cup {job.fd},
                                     !["tmp"] = @ \cup {Nil}]
           /\ Goto("syncdir") /\ UNCHANGED <<data, pdata, mtime, twins>>
  <2>1. FilesOK'
    BY <1>1, <1>5 DEF Rename, FilesOK
  <2> QED  BY <1>2, <1>5, <2>1, GotoOK DEF Labels
<1> QED  BY <1>3, <1>4, <1>5 DEF Rename

LEMMA SyncDirOK ==
  ASSUME FilesOK, NEW ns, FsyncDir(ns),
         UNCHANGED <<data, pdata, name, mtime, twins, tick>>
  PROVE  FilesOK'
BY DEF FilesOK, FsyncDir

LEMMA SyncDirTyped ==
  ASSUME Before, SyncDir PROVE FilesOK' /\ EditorOK' /\ Histories'
<1> USE DEF Before
<1>1. Histories' /\ job.fd \in Inode /\ tick \in Nat /\ UNCHANGED tick
  BY HistoriesKept, FdIs DEF SyncDir, losses, Histories, WriteLabels, FilesOK
<1>2. CASE Fail("IO") /\ UNCHANGED fs
  BY <1>1, <1>2, FailOK, SameFilesOK
<1>3. CASE Commit("OK", job.fd) /\ FsyncDir(DstDir)
           /\ UNCHANGED <<data, pdata, name, mtime, twins>>
  BY <1>1, <1>3, CommitOK, SyncDirOK
<1> QED  BY <1>2, <1>3 DEF SyncDir

(* ... the steps of a save that creates the file, *)
LEMMA NewFileOK ==
  ASSUME Before, NEW n \in Name, NEW i \in Fresh, NEW label \in Labels,
         Bind(n, i), data' = [data EXCEPT ![i] = Stub],
         pdata' = [pdata EXCEPT ![i] = {Stub}],
         mtime' = [mtime EXCEPT ![i] = tick],
         job' = [job EXCEPT !.fd = i], pc' = label,
         UNCHANGED <<twins, out, meta, tick>>
  PROVE  FilesOK' /\ EditorOK'
<1> USE DEF Before
<1>1. i \in Inode /\ Stub \in Content /\ {Stub} \in SUBSET Content /\ tick \in Nat
  BY FreshIs DEF Stub, Content, FilesOK
<1>2. FilesOK'
  BY <1>1, BindOK, PutOK DEF FilesOK
<1>3. EditorOK'
  BY <1>1 DEF EditorOK, JobType
<1> QED  BY <1>2, <1>3

LEMMA CreateTyped ==
  ASSUME Before, Create PROVE FilesOK' /\ EditorOK' /\ Histories'
<1>1. FilesOK /\ EditorOK /\ Histories
  BY DEF Before
<1>2. Histories' /\ tick \in Nat /\ UNCHANGED tick
  BY <1>1, HistoriesKept DEF Create, losses, Histories, FilesOK
<1>3. CASE Fail("IO") /\ UNCHANGED fs
  BY <1>1, <1>2, <1>3, FailOK, SameFilesOK
<1>4. CASE ~(Fail("IO") /\ UNCHANGED fs)
  <2>1. PICK i \in Fresh : /\ Bind("dst", i) /\ data' = [data EXCEPT ![i] = Stub]
                           /\ pdata' = [pdata EXCEPT ![i] = {Stub}]
                           /\ mtime' = [mtime EXCEPT ![i] = tick]
                           /\ job' = [job EXCEPT !.fd = i] /\ pc' = "fill"
    BY <1>4 DEF Create
  <2>2. UNCHANGED <<twins, out, meta, tick>>
    BY <1>4 DEF Create
  <2>3. "dst" \in Name /\ "fill" \in Labels
    BY NameIs DEF Labels
  <2> QED  BY <1>2, <2>1, <2>2, <2>3, NewFileOK
<1> QED  BY <1>3, <1>4

LEMMA UncreateTyped ==
  ASSUME Before, Uncreate, UNCHANGED <<tick, counts, checks, blind, severed>>
  PROVE  FilesOK' /\ EditorOK' /\ Histories'
<1>1. FilesOK /\ EditorOK /\ Histories
  BY DEF Before
<1>2. lost' \in SUBSET Nat
  BY <1>1, OverwriteOK, DstIs DEF Uncreate
<1> QED  BY <1>1, <1>2, HistoriesKept, FailOK, UnlinkOK DEF Uncreate

LEMMA FillTyped ==
  ASSUME Before, Fill PROVE FilesOK' /\ EditorOK' /\ Histories'
<1>1. FilesOK /\ EditorOK /\ Histories /\ Apart
  BY DEF Before
<1>2. CASE Uncreate
  BY <1>2, UncreateTyped DEF Fill
<1>3. CASE ~Uncreate
  <2>1. job.fd \in Inode /\ job.ver \in Content /\ tick \in Nat
    BY <1>1, FdIs, JobParts DEF Fill, EditorOK, FilesOK, WriteLabels, NewLabels
  <2>2. pdata[job.fd] \cup {job.ver} \in SUBSET Content
    BY <1>1, <2>1 DEF FilesOK
  <2>3. FilesOK'
    BY <1>1, <1>3, <2>1, <2>2, PutOK DEF Fill, FilesOK
  <2>4. EditorOK'
    BY <1>1, <1>3, GotoOK DEF Fill, Labels
  <2>5. lost' = lost /\ UNCHANGED <<counts, checks, blind, severed>>
    BY <1>3 DEF Fill
  <2> QED  BY <1>1, <2>3, <2>4, <2>5, HistoriesKept DEF Histories
<1> QED  BY <1>2, <1>3

LEMMA SyncNewTyped ==
  ASSUME Before, SyncNew PROVE FilesOK' /\ EditorOK' /\ Histories'
<1>1. FilesOK /\ EditorOK /\ Histories /\ Apart
  BY DEF Before
<1>2. CASE Uncreate
  BY <1>2, UncreateTyped DEF SyncNew
<1>3. CASE ~Uncreate
  <2>1. job.fd \in Inode
    BY <1>1, FdIs DEF SyncNew, WriteLabels, NewLabels
  <2>2. FilesOK' /\ EditorOK'
    BY <1>1, <1>3, <2>1, SealedOK, SyncOK DEF SyncNew, Labels
  <2>3. lost' = lost /\ UNCHANGED <<counts, checks, blind, severed>>
    BY <1>3 DEF SyncNew
  <2> QED  BY <1>1, <2>2, <2>3, HistoriesKept DEF Histories
<1> QED  BY <1>2, <1>3

LEMMA SyncNewDirTyped ==
  ASSUME Before, SyncNewDir PROVE FilesOK' /\ EditorOK' /\ Histories'
<1>1. FilesOK /\ EditorOK /\ Histories /\ Apart
  BY DEF Before
<1>2. CASE Uncreate
  BY <1>2, UncreateTyped DEF SyncNewDir
<1>3. CASE ~Uncreate
  <2>1. job.fd \in Inode
    BY <1>1, FdIs DEF SyncNewDir, WriteLabels, NewLabels
  <2>2. FilesOK' /\ EditorOK'
    BY <1>1, <1>3, <2>1, CommitOK, SyncDirOK DEF SyncNewDir
  <2>3. lost' = lost /\ UNCHANGED <<counts, checks, blind, severed>>
    BY <1>3 DEF SyncNewDir
  <2> QED  BY <1>1, <2>2, <2>3, HistoriesKept DEF Histories
<1> QED  BY <1>2, <1>3

(* ... the steps of a save in place, *)
LEMMA BakOpenTyped ==
  ASSUME Before, BakOpen PROVE FilesOK' /\ EditorOK' /\ Histories'
<1>1. FilesOK /\ EditorOK /\ Histories /\ Progress /\ tick \in Nat
  BY DEF Before, FilesOK
<1>2. FilesOK'
  BY <1>1, SameFilesOK DEF BakOpen
<1>3. Histories'
  BY <1>1 DEF BakOpen, Histories, losses, counts
<1>4. EditorOK'
  <2>1. CASE Fail("IO") \/ Fail("CHANGED")
    BY <1>1, <2>1, FailOK
  <2>2. CASE /\ MetaMatches(job.acc) /\ pc' = "bakcopy"
             /\ job' = [job EXCEPT !.copy = data[Dst]] /\ UNCHANGED <<out, meta>>
    <3>1. data[Dst] \in Content
      BY <1>1, <2>2, MatchIs, DstIs DEF Content
    <3> QED  BY <1>1, <2>2, <3>1 DEF EditorOK, JobType, Labels
  <2> QED  BY <2>1, <2>2 DEF BakOpen
<1> QED  BY <1>2, <1>3, <1>4

LEMMA BakCopyTyped ==
  ASSUME Before, BakCopy PROVE FilesOK' /\ EditorOK' /\ Histories'
<1>1. FilesOK /\ EditorOK /\ Histories /\ Progress /\ tick \in Nat
  BY DEF Before, FilesOK
<1>2. Histories' /\ UNCHANGED tick
  BY <1>1, HistoriesKept DEF BakCopy, losses, Histories
<1>3. CASE Fail("IO") /\ UNCHANGED fs
  BY <1>1, <1>2, <1>3, FailOK, SameFilesOK
<1>4. CASE ~(Fail("IO") /\ UNCHANGED fs)
  <2>1. PICK i \in Fresh, c \in Copies(job.copy, data[job.acc.ino]) :
          /\ data' = [data EXCEPT ![i] = c] /\ pdata' = [pdata EXCEPT ![i] = {c}]
          /\ mtime' = [mtime EXCEPT ![i] = tick]
          /\ job' = [job EXCEPT !.fd = i] /\ pc' = "baklink"
          /\ UNCHANGED <<name, pname, twins, out, meta>>
    BY <1>4 DEF BakCopy
  <2>2. job.acc.ino \in Inode
    BY <1>1, JobParts, MetaParts DEF EditorOK, Progress, BakCopy
  <2>3. i \in Inode /\ c \in Content
    BY <1>1, <2>2, FreshIs, JobParts
    DEF Copies, FilesOK, EditorOK, Content, Torn
  <2>4. FilesOK'
    BY <1>1, <1>2, <2>1, <2>3, PutOK DEF FilesOK
  <2>5. EditorOK'
    BY <1>1, <2>1, <2>3 DEF EditorOK, JobType, Labels
  <2> QED  BY <1>2, <2>4, <2>5
<1> QED  BY <1>3, <1>4

LEMMA BakLinkTyped ==
  ASSUME Before, BakLink PROVE FilesOK' /\ EditorOK' /\ Histories'
<1>1. FilesOK /\ EditorOK /\ Histories /\ Apart /\ tick \in Nat
  BY DEF Before, FilesOK
<1>2. Histories' /\ UNCHANGED tick
  BY <1>1, HistoriesKept DEF BakLink, losses, Histories
<1>3. CASE Fail("IO") /\ UNCHANGED fs
  BY <1>1, <1>2, <1>3, FailOK, SameFilesOK
<1>4. CASE /\ Bind(job.pend, job.fd) /\ Goto("baksync")
           /\ UNCHANGED <<data, pdata, mtime, twins>>
  <2>1. job.fd \in Inode /\ job.pend \in Name
    BY <1>1, FdIs, JobParts, NameIs DEF BakLink, EditorOK
  <2> QED  BY <1>1, <1>2, <1>4, <2>1, BindOK, GotoOK DEF FilesOK, Labels
<1>5. CASE /\ job' = [job EXCEPT !.pend = "pend1", !.fd = Nil]
           /\ pc' = "bakopen" /\ UNCHANGED <<fs, out, meta>>
  <2>1. EditorOK'
    BY <1>1, <1>5 DEF EditorOK, JobType, Pendings, Labels
  <2> QED  BY <1>1, <1>2, <1>5, <2>1, SameFilesOK
<1> QED  BY <1>3, <1>4, <1>5 DEF BakLink

LEMMA BakSyncTyped ==
  ASSUME Before, BakSync PROVE FilesOK' /\ EditorOK' /\ Histories'
<1>1. FilesOK /\ EditorOK /\ Histories /\ tick \in Nat
  BY DEF Before, FilesOK
<1>2. Histories' /\ UNCHANGED tick
  BY <1>1, HistoriesKept DEF BakSync, losses, Histories
<1>3. CASE Fail("IO") /\ UNCHANGED fs
  BY <1>1, <1>2, <1>3, FailOK, SameFilesOK
<1>4. CASE /\ FsyncDir(Backups) /\ Goto("ipopen")
           /\ UNCHANGED <<data, pdata, name, mtime, twins>>
  BY <1>1, <1>2, <1>4, SyncDirOK, GotoOK DEF Labels
<1> QED  BY <1>3, <1>4 DEF BakSync

LEMMA IpOpenTyped ==
  ASSUME Before, IpOpen PROVE FilesOK' /\ EditorOK' /\ Histories'
<1>1. FilesOK /\ EditorOK /\ Histories /\ Progress /\ tick \in Nat
  BY DEF Before, FilesOK
<1>2. Histories' /\ UNCHANGED tick
  BY <1>1 DEF IpOpen, Histories, losses, counts
<1>3. CASE (Fail("IO") \/ Fail("CHANGED")) /\ DropPending
  BY <1>1, <1>2, <1>3, FailOK, UnlinkOK DEF DropPending
<1>4. CASE /\ MetaMatches(job.acc) /\ pc' = "ipwrite" /\ UNCHANGED <<fs, out, meta>>
           /\ job' = [job EXCEPT !.fd = Dst, !.old = data[Dst]]
  <2>1. Dst \in Inode /\ data[Dst] \in Content
    BY <1>1, <1>4, MatchIs, DstIs DEF Content
  <2>2. EditorOK'
    BY <1>1, <1>4, <2>1 DEF EditorOK, JobType, Labels
  <2> QED  BY <1>1, <1>2, <1>4, <2>2, SameFilesOK
<1> QED  BY <1>3, <1>4 DEF IpOpen

LEMMA WriteOK ==
  ASSUME FilesOK, NEW i \in Inode, tick' = tick + 1, Write(i, Torn, Torn),
         UNCHANGED <<name, pname, twins>>
  PROVE  FilesOK'
<1>1. Torn \in Content /\ pdata[i] \cup {Torn, Torn} \in SUBSET Content
  BY DEF FilesOK, Content, Torn
<1>2. tick' \in Nat
  BY DEF FilesOK
<1> QED  BY <1>1, <1>2, PutOK DEF FilesOK, Write

LEMMA IpWriteTyped ==
  ASSUME Before, IpWrite PROVE FilesOK' /\ EditorOK' /\ Histories'
<1>1. FilesOK /\ EditorOK /\ Histories /\ Apart /\ tick \in Nat
  BY DEF Before, FilesOK
<1>2. job.fd \in Inode
  BY <1>1, FdIs DEF IpWrite, WriteLabels, OwnLabels
<1>3. CASE Goto("restore") /\ UNCHANGED <<fs, tick, lost>>
  BY <1>1, <1>3, GotoOK, SameFilesOK, HistoriesKept
  DEF IpWrite, Labels, Histories
<1>4. CASE /\ tick' = tick + 1 /\ Write(job.fd, Torn, Torn)
           /\ Overwrite(job.fd) /\ Goto("iprest")
           /\ UNCHANGED <<name, pname, twins>>
  <2>1. lost' \in SUBSET Nat
    BY <1>1, <1>2, <1>4, OverwriteOK
  <2> QED  BY <1>1, <1>2, <1>4, <2>1, WriteOK, GotoOK, HistoriesKept
           DEF IpWrite, Labels
<1> QED  BY <1>3, <1>4 DEF IpWrite

LEMMA IpRestTyped ==
  ASSUME Before, IpRest PROVE FilesOK' /\ EditorOK' /\ Histories'
<1>1. FilesOK /\ EditorOK /\ Histories /\ Apart /\ tick \in Nat
  BY DEF Before, FilesOK
<1>2. Histories' /\ UNCHANGED tick
  BY <1>1, HistoriesKept DEF IpRest, losses, Histories
<1>3. CASE Goto("restore") /\ UNCHANGED fs
  BY <1>1, <1>2, <1>3, GotoOK, SameFilesOK DEF Labels
<1>4. CASE /\ data' = [data EXCEPT ![job.fd] = job.ver]
           /\ pdata' = [pdata EXCEPT ![job.fd] = @ \cup {job.ver}]
           /\ Goto("ipsync") /\ UNCHANGED <<name, pname, mtime, twins>>
  <2>1. job.fd \in Inode /\ job.ver \in Content
    BY <1>1, FdIs, JobParts DEF EditorOK, IpRest, WriteLabels, OwnLabels
  <2>2. FilesOK'
    BY <1>1, <1>2, <1>4, <2>1 DEF FilesOK
  <2> QED  BY <1>1, <1>2, <1>4, <2>2, GotoOK DEF Labels
<1> QED  BY <1>3, <1>4 DEF IpRest

LEMMA IpSyncTyped ==
  ASSUME Before, IpSync PROVE FilesOK' /\ EditorOK' /\ Histories'
<1>1. FilesOK /\ EditorOK /\ Histories /\ Apart /\ tick \in Nat
  BY DEF Before, FilesOK
<1>2. Histories' /\ UNCHANGED tick
  BY <1>1, HistoriesKept DEF IpSync, losses, Histories
<1>3. CASE Goto("restore") /\ UNCHANGED fs
  BY <1>1, <1>2, <1>3, GotoOK, SameFilesOK DEF Labels
<1>4. CASE Fsync(job.fd) /\ Sealed("rotate")
           /\ UNCHANGED <<data, name, pname, mtime, twins>>
  <2>1. job.fd \in Inode
    BY <1>1, FdIs DEF IpSync, WriteLabels, OwnLabels
  <2> QED  BY <1>1, <1>2, <1>4, <2>1, SealedOK, SyncOK DEF Labels
<1> QED  BY <1>3, <1>4 DEF IpSync

LEMMA RestoreTyped ==
  ASSUME Before, Restore PROVE FilesOK' /\ EditorOK' /\ Histories'
<1>1. FilesOK /\ EditorOK /\ Histories /\ tick \in Nat
  BY DEF Before, FilesOK
<1>2. CASE Fail("IO") /\ UNCHANGED <<fs, tick, lost>>
  BY <1>1, <1>2, FailOK, SameFilesOK, HistoriesKept DEF Restore, Histories
<1>3. CASE /\ Dst # Nil /\ tick' = tick + 1 /\ Write(Dst, Torn, Torn)
           /\ Overwrite(Dst) /\ pc' = "restoring" /\ job' = [job EXCEPT !.fd = Dst]
           /\ UNCHANGED <<out, meta, name, pname, twins>>
  <2>1. Dst \in Inode
    BY <1>1, <1>3, DstIs
  <2>2. lost' \in SUBSET Nat
    BY <1>1, <1>3, <2>1, OverwriteOK
  <2>3. EditorOK'
    BY <1>1, <1>3, <2>1 DEF EditorOK, JobType, Labels
  <2> QED  BY <1>1, <1>3, <2>1, <2>2, <2>3, WriteOK, HistoriesKept DEF Restore
<1> QED  BY <1>2, <1>3 DEF Restore

LEMMA RestoringTyped ==
  ASSUME Before, Restoring PROVE FilesOK' /\ EditorOK' /\ Histories'
<1>1. FilesOK /\ EditorOK /\ Histories /\ Apart /\ tick \in Nat
  BY DEF Before, FilesOK
<1>2. Histories' /\ UNCHANGED tick
  BY <1>1, HistoriesKept DEF Restoring, losses, Histories
<1>3. CASE Fail("IO") /\ UNCHANGED fs
  BY <1>1, <1>2, <1>3, FailOK, SameFilesOK
<1>4. CASE ~(Fail("IO") /\ UNCHANGED fs)
  <2> DEFINE c == data[name[job.pend]]
  <2>1. /\ data' = [data EXCEPT ![job.fd] = c]
        /\ pdata' = [pdata EXCEPT ![job.fd] = {c}]
        /\ UnlinkSync({job.pend}) /\ Fail("IO") /\ UNCHANGED <<mtime, twins>>
    BY <1>4 DEF Restoring
  <2>2. job.fd \in Inode /\ c \in Content
    BY <1>1, FdIs, CopyIs DEF Restoring, WriteLabels, OwnLabels, CopyLabels, Copy
  <2>3. EditorOK'
    BY <1>1, <2>1, FailOK
  <2>4. /\ name' \in [Name -> Inode \cup {Nil}]
        /\ pname' \in [Name -> SUBSET (Inode \cup {Nil})]
    BY <1>1, <2>1 DEF UnlinkSync, FilesOK
  <2> HIDE DEF c
  <2>5. FilesOK'
    BY <1>1, <1>2, <2>1, <2>2, <2>4 DEF FilesOK
  <2> QED  BY <1>2, <2>3, <2>5
<1> QED  BY <1>3, <1>4

LEMMA RotateTyped ==
  ASSUME Before, Rotate PROVE FilesOK' /\ EditorOK' /\ Histories'
<1>1. FilesOK /\ EditorOK /\ Histories /\ Apart /\ tick \in Nat
  BY DEF Before, FilesOK
<1>2. Histories' /\ UNCHANGED tick
  BY <1>1, HistoriesKept DEF Rotate, losses, Histories
<1>3. EditorOK'
  <2>1. job.fd \in Inode
    BY <1>1, FdIs DEF Rotate, WriteLabels, OwnLabels
  <2> QED  BY <1>1, <2>1, CommitOK DEF Rotate
<1>4. FilesOK'
  <2>1. CASE UNCHANGED fs
    BY <1>1, <1>2, <2>1, SameFilesOK
  <2>2. CASE DropPending
    BY <1>1, <1>2, <2>2, UnlinkOK DEF DropPending
  <2>3. CASE /\ name' = [name EXCEPT !["base"] = name[job.pend], ![job.pend] = Nil]
             /\ \/ pname' = [n \in Name |-> IF n \in Backups THEN {name'[n]}
                                                             ELSE pname[n]]
                \/ pname' = [n \in Name |-> pname[n] \cup {name'[n]}]
             /\ UNCHANGED <<data, pdata, mtime, twins>>
    <3>1. job.pend \in Name /\ "base" \in Name /\ name[job.pend] \in Inode \cup {Nil}
      BY <1>1, JobParts, NameIs DEF EditorOK, FilesOK
    <3>2. name' \in [Name -> Inode \cup {Nil}]
      BY <1>1, <2>3, <3>1 DEF FilesOK
    <3>3. pname' \in [Name -> SUBSET (Inode \cup {Nil})]
      BY <1>1, <2>3, <3>2 DEF FilesOK
    <3> QED  BY <1>1, <1>2, <2>3, <3>2, <3>3 DEF FilesOK
  <2> QED  BY <2>1, <2>2, <2>3 DEF Rotate
<1> QED  BY <1>2, <1>3, <1>4

(* ... and everything outside a save. *)
LEMMA SessionTyped ==
  ASSUME Before, Reload \/ Pin \/ Unpin PROVE FilesOK' /\ EditorOK' /\ Histories'
<1>1. FilesOK /\ EditorOK /\ Histories
  BY DEF Before
<1>2. Histories' /\ UNCHANGED <<data, pdata, mtime, twins, tick, pc, job>>
  BY <1>1, HistoriesKept DEF Reload, Pin, Unpin, losses, Histories
<1>3. FilesOK'
  <2>1. "jbase" \in Name /\ Dst \in Inode \cup {Nil}
    BY <1>1, NameIs, DstIs
  <2>2. \E i \in Inode \cup {Nil} : /\ name' = [name EXCEPT !["jbase"] = i]
                                    /\ pname' = [pname EXCEPT !["jbase"] = {i}]
    BY <2>1 DEF Reload, Pin, Unpin
  <2> QED  BY <1>1, <1>2, <2>1, <2>2 DEF FilesOK
<1>4. EditorOK'
  <2>1. meta' \in MetaType
    BY <1>1, LoadedType DEF Reload, Pin, Unpin, EditorOK, MetaType
  <2>2. out' \in {"none", "OK", "IO", "CHANGED", "BACKUP_FAILED"}
    BY <1>1 DEF Reload, Pin, Unpin, EditorOK
  <2> QED  BY <1>1, <1>2, <2>1, <2>2 DEF EditorOK
<1> QED  BY <1>2, <1>3, <1>4

LEMMA MeddleTyped ==
  ASSUME Before, Meddle PROVE FilesOK' /\ EditorOK' /\ Histories'
<1>1. FilesOK /\ EditorOK /\ Histories /\ tick \in Nat /\ tick >= First
  BY DEF Before, FilesOK, Clock, Stamps
<1>2. /\ tick' = tick + 1 /\ UNCHANGED <<editor, saves, crashes, chk, lost, severed>>
      /\ meddle' = meddle + 1 /\ late' = TRUE
      /\ blind' = IF pc \in {"ipwrite", "iprest", "ipsync", "fill", "syncnew"}
                  THEN blind \cup {tick'} ELSE blind
  BY DEF Meddle
<1>3. tick' \in Nat /\ tick' >= First
  BY <1>1, <1>2 DEF First
<1>4. EditorOK'
  BY <1>1, <1>2 DEF EditorOK, editor
<1>5. Histories'
  <2>1. meddle' \in Nat
    BY <1>1, <1>2 DEF Histories
  <2>2. late' \in BOOLEAN
    BY <1>2
  <2>3. blind' \in SUBSET {v \in Nat : v >= First}
    BY <1>1, <1>2, <1>3 DEF Histories
  <2> QED  BY <1>1, <1>2, <2>1, <2>2, <2>3 DEF Histories
<1>6. FilesOK'
  <2>1. Dst \in Inode \cup {Nil} /\ "dst" \in Name
    BY <1>1, DstIs, NameIs
  <2>2. CASE \E i \in Inode :
               /\ data' = [data EXCEPT ![i] = tick']
               /\ pdata' = [pdata EXCEPT ![i] = {tick'}]
               /\ mtime' = [mtime EXCEPT ![i] = tick']
               /\ \/ UNCHANGED <<name, pname, twins>>
                  \/ /\ name' = [name EXCEPT !["dst"] = i]
                     /\ pname' = [pname EXCEPT !["dst"] = {i}]
                     /\ twins' = twins \cup {i} \/ twins' = twins
    BY <1>1, <1>3, <2>1, <2>2 DEF FilesOK, Content
  <2>3. CASE /\ Dst # Nil /\ mtime' = [mtime EXCEPT ![Dst] = tick']
             /\ UNCHANGED <<data, pdata, name, pname, twins>>
    BY <1>1, <1>3, <2>1, <2>3 DEF FilesOK
  <2>4. CASE /\ name' = [name EXCEPT !["dst"] = Nil]
             /\ pname' = [pname EXCEPT !["dst"] = {Nil}]
             /\ UNCHANGED <<data, pdata, mtime, twins>>
    BY <1>1, <1>3, <2>1, <2>4 DEF FilesOK
  <2>5. CASE /\ Dst # Nil /\ twins' = twins \cup {Dst}
             /\ UNCHANGED <<data, pdata, name, pname, mtime>>
    BY <1>1, <1>3, <2>1, <2>5 DEF FilesOK
  <2>6. CASE \E i \in Fresh, linked \in BOOLEAN :
               /\ data' = [data EXCEPT ![i] = tick']
               /\ pdata' = [pdata EXCEPT ![i] = {tick'}]
               /\ mtime' = [mtime EXCEPT ![i] = tick']
               /\ name' = [name EXCEPT !["dst"] = i]
               /\ pname' = [pname EXCEPT !["dst"] = {i}]
               /\ twins' = IF linked THEN twins \cup {i} ELSE twins
    BY <2>2, <2>6, FreshIs
  <2>7. CASE /\ Dst # Nil
             /\ data' = [data EXCEPT ![Dst] = tick']
             /\ pdata' = [pdata EXCEPT ![Dst] = {tick'}]
             /\ mtime' = [mtime EXCEPT ![Dst] = tick']
             /\ UNCHANGED <<name, pname, twins>>
    BY <2>1, <2>2, <2>7
  <2> QED  BY <2>3, <2>4, <2>5, <2>6, <2>7 DEF Meddle
<1> QED  BY <1>4, <1>5, <1>6

(* What a crash leaves is one of the possible values, everywhere. *)
LEMMA CrashLeaves ==
  ASSUME FilesOK, Sure, Crash
  PROVE  \/ UNCHANGED <<data, pdata, name, pname>>
         \/ /\ data' \in [Inode -> Content] /\ name' \in [Name -> Inode \cup {Nil}]
            /\ \A i \in Inode : data'[i] \in pdata[i]
            /\ \A n \in Name : name'[n] \in pname[n]
            /\ pdata' = [i \in Inode |-> {data'[i]}]
            /\ pname' = [n \in Name |-> {name'[n]}]
<1>1. SUFFICES ASSUME NEW d \in Survivors(data, pdata),
                      NEW n \in Survivors(name, pname),
                      data' = d, pdata' = [i \in Inode |-> {d[i]}],
                      name' = n, pname' = [x \in Name |-> {n[x]}]
               PROVE  /\ d \in [Inode -> Content] /\ n \in [Name -> Inode \cup {Nil}]
                      /\ \A i \in Inode : d[i] \in pdata[i]
                      /\ \A x \in Name : n[x] \in pname[x]
  BY DEF Crash
<1>2. DOMAIN data = Inode /\ DOMAIN name = Name
  BY DEF FilesOK
<1>3. d = [i \in Inode |-> d[i]] /\ \A i \in Inode : d[i] \in pdata[i]
  BY <1>2, SurvivorsAre DEF Sure
<1>4. n = [x \in Name |-> n[x]] /\ \A x \in Name : n[x] \in pname[x]
  BY <1>2, SurvivorsAre DEF Sure
<1> QED  BY <1>3, <1>4 DEF FilesOK

LEMMA LoadedIs == FilesOK => Recovered \in MetaType
BY LoadedType

LEMMA CrashTyped ==
  ASSUME Before, Sure, Crash PROVE FilesOK' /\ EditorOK' /\ Histories'
<1>1. FilesOK /\ EditorOK /\ Histories
  BY DEF Before
<1>2. UNCHANGED <<mtime, twins, tick>>
  BY DEF Crash
<1>3. FilesOK'
  <2>1. CASE UNCHANGED <<data, pdata, name, pname>>
    BY <1>1, <1>2, <2>1 DEF FilesOK
  <2>2. CASE ~UNCHANGED <<data, pdata, name, pname>>
    <3>1. /\ data' \in [Inode -> Content] /\ name' \in [Name -> Inode \cup {Nil}]
          /\ pdata' = [i \in Inode |-> {data'[i]}]
          /\ pname' = [n \in Name |-> {name'[n]}]
      BY <1>1, <2>2, CrashLeaves
    <3> QED  BY <1>1, <1>2, <3>1 DEF FilesOK
  <2> QED  BY <2>1, <2>2
<1>4. Recovered' \in MetaType
  <2>1. (FilesOK => Recovered \in MetaType)'
    BY LoadedIs, PTL
  <2> QED  BY <1>3, <2>1
<1>5. EditorOK'
  BY <1>4, NoJobType DEF Crash, EditorOK, Labels
<1>6. Histories'
  BY <1>1 DEF Crash, Histories
<1> QED  BY <1>3, <1>5, <1>6

LEMMA TypedStep ==
  ASSUME Before, Sure, Next PROVE Typed'
BY SomeSaveTyped, OpenTempTyped, WriteTempTyped, SyncTempTyped, RecheckTyped,
   RenameTyped, SyncDirTyped, CreateTyped, FillTyped, SyncNewTyped,
   SyncNewDirTyped, BakOpenTyped, BakCopyTyped, BakLinkTyped, BakSyncTyped,
   IpOpenTyped, IpWriteTyped, IpRestTyped, IpSyncTyped, RestoreTyped,
   RestoringTyped, RotateTyped, SessionTyped, MeddleTyped, CrashTyped
DEF Next, Save, Typed

-----------------------------------------------------------------------------
(* Time, and the save in progress. *)

LEMMA AcceptIs ==
  ASSUME FilesOK, NEW m \in MetaType
  PROVE  /\ Accept(m).text = m.text /\ Accept(m).pinned = m.pinned
         /\ Dst = Nil => /\ ~Accept(m).exists /\ Accept(m).ino = m.ino
                         /\ Accept(m).mtime = m.mtime
         /\ Dst # Nil => /\ Accept(m).exists /\ Accept(m).ino = Dst
                         /\ Accept(m).mtime = mtime[Dst]
BY DEF Accept, MetaType

LEMMA LoadedHas ==
  /\ Dst = Nil => /\ ~Loaded.exists /\ Loaded.ino = Nil /\ Loaded.mtime = 0
                  /\ Loaded.text = Torn /\ ~Loaded.pinned
  /\ Dst # Nil => /\ Loaded.exists /\ Loaded.ino = Dst /\ Loaded.text = data[Dst]
                  /\ Loaded.mtime = mtime[Dst] /\ ~Loaded.pinned
BY DEF Loaded, NoMeta

LEMMA RecoveredHas ==
  /\ Recovered.exists = Loaded.exists /\ Recovered.ino = Loaded.ino
  /\ Recovered.text = Loaded.text /\ Recovered.mtime = Loaded.mtime
  /\ Recovered.pinned = (Dst # Nil /\ name["jbase"] = Dst)
<1>1. Loaded = [exists |-> Loaded.exists, ino |-> Loaded.ino, mtime |-> Loaded.mtime,
                text |-> Loaded.text, pinned |-> Loaded.pinned]
  BY DEF Loaded, NoMeta
<1> QED  BY <1>1 DEF Recovered

LEMMA NoJobHas ==
  /\ NoJob.ver = Torn /\ NoJob.strategy = "auto" /\ NoJob.check = "mtime"
  /\ NoJob.fd = Nil /\ NoJob.stat = 0 /\ NoJob.pend = "pend0"
  /\ NoJob.acc.exists = FALSE /\ NoJob.acc.ino = Nil /\ NoJob.acc.mtime = 0
  /\ NoJob.acc.pinned = FALSE
BY DEF NoJob, NoMeta

LEMMA StampsStep ==
  ASSUME Before, Next
  PROVE  Stamps' /\ tick <= tick'
<1>1. FilesOK /\ Histories /\ Stamps
  BY DEF Before, Clock
<1>2. tick \in Nat /\ chk \in Nat /\ mtime \in [Inode -> Nat]
  BY <1>1 DEF FilesOK, Histories
<1>3. Dst # Nil => Dst \in Inode
  BY <1>1, DstIs
<1>4. CASE SomeSave
  <2>1. tick' = tick + 1 /\ chk' = tick /\ UNCHANGED fs
    BY <1>4 DEF SomeSave, FileSave
  <2> QED  BY <1>1, <1>2, <2>1 DEF Stamps, fs, First
<1>5. CASE OpenTemp \/ WriteTemp \/ Create \/ Fill \/ BakCopy
  BY <1>1, <1>2, <1>5
  DEF Stamps, OpenTemp, WriteTemp, Create, Fill, BakCopy, fs, checks, DropTemp,
      Uncreate
<1>6. CASE SyncTemp \/ Recheck \/ Rename \/ SyncDir \/ SyncNew \/ SyncNewDir
  BY <1>1, <1>2, <1>6
  DEF Stamps, SyncTemp, Recheck, Rename, SyncDir, SyncNew, SyncNewDir, fs, checks,
      DropTemp, Uncreate
<1>7. CASE BakOpen \/ BakLink \/ BakSync \/ IpOpen \/ IpRest \/ IpSync \/ Restoring
  BY <1>1, <1>2, <1>7
  DEF Stamps, BakOpen, BakLink, BakSync, IpOpen, IpRest, IpSync, Restoring, fs,
      checks, DropPending
<1>8. CASE IpWrite \/ Restore
  BY <1>1, <1>2, <1>3, <1>8 DEF Stamps, First, IpWrite, Restore, Write, fs, checks
<1>9. CASE Rotate \/ Reload \/ Pin \/ Unpin
  BY <1>1, <1>2, <1>9 DEF Stamps, Rotate, Reload, Pin, Unpin, fs, checks, DropPending
<1>10. CASE Meddle
  BY <1>1, <1>2, <1>3, <1>10 DEF Stamps, First, Meddle
<1>11. CASE Crash
  BY <1>1, <1>2, <1>11 DEF Stamps, Crash
<1> QED  BY <1>4, <1>5, <1>6, <1>7, <1>8, <1>9, <1>10, <1>11 DEF Next, Save

(* What a session finds that starts after a crash. *)
LEMMA RecoveredFrom ==
  /\ Recovered.exists => /\ Dst # Nil /\ Recovered.ino = Dst
                         /\ Recovered.mtime = mtime[Dst] /\ Recovered.text = data[Dst]
  /\ ~Recovered.exists => Recovered.mtime = 0
  /\ Recovered.pinned => name["jbase"] = Dst /\ Dst # Nil
BY LoadedHas, RecoveredHas

LEMMA DstIsInode == FilesOK /\ Dst # Nil => Dst \in Inode
BY DstIs

(* A save that ends. *)
LEMMA SaveEnds ==
  ASSUME Before, Stamps', tick <= tick', tick' \in Nat, pc' = "idle", job' = NoJob,
         \/ UNCHANGED meta
         \/ meta'.mtime <= tick' /\ (meta'.exists => meta'.ino # Nil)
  PROVE  Clock' /\ Progress'
<1>1. tick \in Nat /\ tick' \in Nat /\ meta.mtime \in Nat /\ meta.mtime <= tick
  BY MetaParts DEF Before, FilesOK, EditorOK, Clock, Stamps, First
<1>2. meta.exists => meta.ino # Nil
  BY DEF Before, Progress
<1> QED  BY <1>1, <1>2, NoJobHas DEF Clock, Progress, Stamps

(* A save that goes on. *)
LEMMA SaveGoesOn ==
  ASSUME Before, Stamps', tick <= tick', pc # "idle", pc' # "idle",
         UNCHANGED meta, job'.ver = job.ver, job'.strategy = job.strategy,
         \/ job'.acc = job.acc
         \/ /\ job'.acc.text = job.acc.text /\ job'.acc.mtime <= tick'
            /\ job'.acc.exists => job'.acc.ino # Nil,
         job'.stat = job.stat \/ job'.stat <= tick',
         job.strategy = "atomic" => pc' \in AtomicLabels,
         pc' = "bakcopy" => job'.acc.exists,
         tick' \in Nat
  PROVE  Clock' /\ Progress'
<1>1. /\ tick \in Nat /\ meta.mtime \in Nat /\ job.acc.mtime \in Nat
      /\ job.stat \in Nat
  BY MetaParts, JobParts DEF Before, FilesOK, EditorOK
<1>2. Clock /\ Progress
  BY DEF Before
<1>3. Clock'
  BY <1>1, <1>2 DEF Clock
<1> QED  BY <1>2, <1>3 DEF Progress

LEMMA ProgressStep ==
  ASSUME Before, Next, FilesOK', EditorOK' PROVE Clock' /\ Progress'
<1>1. FilesOK /\ EditorOK /\ Progress /\ Clock /\ Apart
  BY DEF Before
<1>2. Stamps' /\ tick <= tick' /\ tick \in Nat /\ tick' \in Nat
  BY <1>1, StampsStep DEF FilesOK
<1>3. job.strategy = "atomic" /\ pc # "idle" => pc \in AtomicLabels
  BY <1>1 DEF Progress
<1>4. job.fd \in Inode => mtime[job.fd] <= tick
  BY <1>1 DEF Clock, Stamps
<1>5. job.stat <= tick /\ job.stat \in Nat /\ job \in JobType
  BY <1>1, JobParts DEF Clock, EditorOK
<1>6. ASSUME Fail("IO") \/ Fail("CHANGED") PROVE Clock' /\ Progress'
  BY <1>2, <1>6, SaveEnds DEF Fail, Return
<1>7. ASSUME NEW label \in {"recheck", "syncnewdir", "rotate"}, Sealed(label),
              pc \in {"synctemp", "syncnew", "ipsync"}, UNCHANGED tick,
              pc = "synctemp" => label = "recheck"
       PROVE  Clock' /\ Progress'
  <2>1. job.fd \in Inode /\ mtime[job.fd] <= tick
    BY <1>1, <1>4, <1>7, FdIs DEF WriteLabels, TempLabels, NewLabels, OwnLabels
  <2>2. /\ job'.ver = job.ver /\ job'.strategy = job.strategy
        /\ job'.acc = job.acc /\ job'.stat = mtime[job.fd]
    BY <1>5, <1>7 DEF Sealed, JobType
  <2>3. job.strategy = "atomic" => label = "recheck"
    BY <1>3, <1>7 DEF AtomicLabels, Sealed
  <2> QED  BY <1>2, <1>7, <2>1, <2>2, <2>3, SaveGoesOn DEF Sealed, AtomicLabels
<1>8. CASE SomeSave
  <2>1. PICK s \in Strategies, c \in Checks, f \in Forces, k \in Keeps,
             w \in BOOLEAN : FileSave(s, c, f, k, w)
    BY <1>8 DEF SomeSave
  <2> DEFINE exp == IF f THEN Accept(meta) ELSE meta
             label == IF \/ s = "inplace"
                         \/ s = "auto" /\ (NeedsInplace(exp) \/ ~w)
                      THEN Inplace(Accept(exp)) ELSE "opentemp"
  <2>2. /\ pc = "idle" /\ tick' = tick + 1 /\ meta' = meta
        /\ \/ pc' = "idle" /\ job' = NoJob
           \/ Enter(label, Accept(exp), tick + 1, s, IF f THEN "off" ELSE c, k)
    BY <2>1 DEF FileSave
  <2>3. CASE pc' = "idle" /\ job' = NoJob
    BY <1>1, <1>2, <2>2, <2>3, SaveEnds
  <2>4. CASE Enter(label, Accept(exp), tick + 1, s, IF f THEN "off" ELSE c, k)
    <3>1. /\ pc' = label /\ job'.ver = tick + 1 /\ job'.strategy = s
          /\ job'.acc = Accept(exp) /\ job'.stat = NoJob.stat
      BY <2>4 DEF Enter, NoJob
    <3>2. /\ label \in {"bakopen", "create", "opentemp"}
          /\ s = "atomic" => label = "opentemp"
      BY DEF Inplace
    <3>3. meta \in MetaType /\ exp \in MetaType
      BY <1>1, AcceptType DEF EditorOK
    <3>4. /\ exp.text = meta.text /\ exp.mtime <= tick
          /\ exp.exists => exp.ino # Nil
      BY <1>1, <3>3, DstIs, AcceptIs DEF Clock, Stamps, Progress
    <3>5. /\ Accept(exp).text = meta.text /\ Accept(exp).mtime <= tick
          /\ Accept(exp).exists => Accept(exp).ino # Nil
      BY <1>1, <3>3, <3>4, DstIs, AcceptIs DEF Clock, Stamps
    <3>6. Accept(exp).mtime \in Nat /\ meta.mtime \in Nat /\ meta.mtime <= tick
      BY <1>1, <3>3, AcceptType, MetaParts DEF Clock
    <3> HIDE DEF exp, label
    <3>7. Clock'
      BY <1>2, <2>2, <3>1, <3>5, <3>6, NoJobHas DEF Clock
    <3>8. Progress'
      BY <1>1, <1>2, <2>2, <3>1, <3>2, <3>5
      DEF Progress, Clock, Stamps, Whole, First, AtomicLabels
    <3> QED  BY <3>7, <3>8
  <2> QED  BY <2>2, <2>3, <2>4
<1>9. CASE OpenTemp \/ Create \/ BakCopy
  BY <1>2, <1>3, <1>5, <1>6, <1>9, SaveGoesOn
  DEF OpenTemp, Create, BakCopy, AtomicLabels, JobType
<1>10. CASE WriteTemp \/ IpWrite \/ IpRest
  BY <1>2, <1>3, <1>5, <1>6, <1>10, SaveGoesOn
  DEF WriteTemp, IpWrite, IpRest, AtomicLabels, Goto
<1>11. CASE SyncTemp \/ Rename
  BY <1>2, <1>3, <1>5, <1>6, <1>11, <1>7, SaveGoesOn
  DEF SyncTemp, Rename, AtomicLabels, Goto, Inplace
<1>12. CASE Recheck
  <2>1. CASE Fail("IO") \/ Fail("CHANGED")
    BY <1>6, <2>1
  <2>2. CASE ~(Fail("IO") \/ Fail("CHANGED"))
    <3>1. /\ pc = "recheck" /\ job' = [job EXCEPT !.acc = Accept(@)]
          /\ UNCHANGED <<meta, tick>>
          /\ pc' \in {"bakopen", "create", "rename"}
          /\ job.strategy = "atomic" => pc' = "rename"
      BY <1>12, <2>2 DEF Recheck, Inplace
    <3>2. job'.acc = Accept(job.acc) /\ job'.ver = job.ver /\ job'.stat = job.stat
          /\ job'.strategy = job.strategy /\ job.acc \in MetaType
      BY <1>5, <3>1, JobParts DEF JobType
    <3>3. /\ Accept(job.acc).text = job.acc.text /\ Accept(job.acc).mtime <= tick
          /\ Accept(job.acc).exists => Accept(job.acc).ino # Nil
      BY <1>1, <3>2, DstIs, AcceptIs DEF Clock, Stamps, Progress
    <3> QED  BY <1>2, <3>1, <3>2, <3>3, SaveGoesOn DEF AtomicLabels
  <2> QED  BY <2>1, <2>2
<1>13. ASSUME pc \in WriteLabels, UNCHANGED tick,
              \/ Fail("IO") \/ Commit("OK", job.fd) \/ Commit("BACKUP_FAILED", job.fd)
       PROVE  Clock' /\ Progress'
  <2>1. CASE Fail("IO")
    BY <1>6, <2>1
  <2>2. CASE ~Fail("IO")
    <3>1. pc' = "idle" /\ job' = NoJob /\ meta' = SavedMeta(job.fd)
      BY <1>13, <2>2 DEF Commit, Return
    <3>2. SavedMeta(job.fd).mtime = job.stat /\ SavedMeta(job.fd).ino # Nil
      BY <1>1, <1>13, FdIs, NilIsNoInode DEF SavedMeta
    <3> QED  BY <1>2, <1>5, <1>13, <3>1, <3>2, SaveEnds
  <2> QED  BY <2>1, <2>2
<1>14. CASE SyncDir \/ SyncNewDir \/ Rotate
  BY <1>13, <1>14 DEF SyncDir, SyncNewDir, Rotate, Uncreate, WriteLabels, NewLabels,
     OwnLabels
<1>15. CASE Fill \/ SyncNew
  BY <1>2, <1>3, <1>5, <1>6, <1>15, <1>7, SaveGoesOn
  DEF Fill, SyncNew, Uncreate, AtomicLabels, Goto
<1>16. CASE BakOpen \/ BakLink
  BY <1>2, <1>3, <1>5, <1>6, <1>16, SaveGoesOn
  DEF BakOpen, BakLink, AtomicLabels, Goto, JobType, MetaMatches
<1>17. CASE BakSync \/ IpOpen
  BY <1>2, <1>3, <1>5, <1>6, <1>17, SaveGoesOn
  DEF BakSync, IpOpen, AtomicLabels, Goto, JobType
<1>18. CASE IpSync
  BY <1>2, <1>3, <1>5, <1>18, <1>7, SaveGoesOn DEF IpSync, AtomicLabels, Goto
<1>19. CASE Restore \/ Restoring
  BY <1>2, <1>3, <1>5, <1>6, <1>19, SaveGoesOn
  DEF Restore, Restoring, AtomicLabels, JobType
<1>20. CASE Reload \/ Pin \/ Unpin
  <2>1. pc = "idle" /\ pc' = "idle" /\ job' = job /\ tick' = tick
    BY <1>20 DEF Reload, Pin, Unpin
  <2>2. meta'.mtime <= tick /\ (meta'.exists => meta'.ino # Nil)
    <3>1. CASE Reload
      BY <1>1, <3>1, LoadedHas, DstIs, <1>2 DEF Reload, Clock, Stamps, First
    <3>2. CASE Pin \/ Unpin
      BY <1>1, <3>2 DEF Pin, Unpin, Clock, Progress, EditorOK, MetaType
    <3> QED  BY <1>20, <3>1, <3>2
  <2> QED  BY <1>1, <1>2, <2>1, <2>2, SaveEnds DEF Progress
<1>21. CASE Meddle
  BY <1>1, <1>2, <1>5, <1>21, MetaParts, JobParts
  DEF Meddle, editor, Clock, Progress, EditorOK
<1>22. CASE Crash
  <2>1. /\ pc' = "idle" /\ job' = NoJob /\ meta' = Recovered' /\ mtime' = mtime
        /\ tick' = tick
    BY <1>22 DEF Crash
  <2>2. (/\ Recovered.exists => /\ Dst # Nil /\ Recovered.ino = Dst
                                /\ Recovered.mtime = mtime[Dst]
                                /\ Recovered.text = data[Dst]
         /\ ~Recovered.exists => Recovered.mtime = 0
         /\ Recovered.pinned => name["jbase"] = Dst /\ Dst # Nil)'
    BY RecoveredFrom, PTL
  <2>3. (FilesOK /\ Dst # Nil => Dst \in Inode)'
    BY DstIsInode, PTL
  <2>4. meta'.mtime <= tick' /\ (meta'.exists => meta'.ino # Nil)
    BY <1>1, <1>2, <2>1, <2>2, <2>3 DEF Clock, Stamps
  <2> QED  BY <1>2, <2>1, <2>4, SaveEnds
<1> QED  BY <1>8, <1>9, <1>10, <1>11, <1>12, <1>14, <1>15, <1>16, <1>17, <1>18,
            <1>19, <1>20, <1>21, <1>22 DEF Next, Save

-----------------------------------------------------------------------------
(* What a process sees is one of the things a power cut may leave. *)

LEMMA UnlinkSure ==
  ASSUME FilesOK, Sure, NEW ns, UnlinkSync(ns), UNCHANGED <<data, pdata>>
  PROVE  Sure'
BY DEF Sure, UnlinkSync, FilesOK

LEMMA SureStep ==
  ASSUME Before, Sure, Next PROVE Sure'
<1>1. FilesOK /\ EditorOK /\ Progress /\ Apart
  BY DEF Before
<1>2. Dst # Nil => Dst \in Inode
  BY <1>1, DstIs
<1>3. pc \in WriteLabels \cup {"baklink"} => job.fd \in Inode
  BY <1>1, FdIs
<1>4. job.pend \in Name /\ "dst" \in Name /\ "tmp" \in Name /\ "jbase" \in Name
      /\ "base" \in Name
  BY <1>1, JobParts, NameIs DEF EditorOK
<1>5. ASSUME UNCHANGED <<data, pdata, name, pname>> PROVE Sure'
  BY <1>5 DEF Sure
<1>6. ASSUME DropTemp \/ DropPending PROVE Sure'
  BY <1>1, <1>6, UnlinkSure DEF DropTemp, DropPending
<1>7. ASSUME Uncreate PROVE Sure'
  BY <1>1, <1>7, UnlinkSure DEF Uncreate
<1>8. CASE SomeSave \/ BakOpen
  BY <1>5, <1>8 DEF SomeSave, FileSave, BakOpen, fs
<1>9. CASE OpenTemp \/ Create
  BY <1>1, <1>4, <1>5, <1>9, FreshIs DEF OpenTemp, Create, fs, Bind, Sure, FilesOK
<1>10. CASE WriteTemp \/ Fill \/ IpRest
  BY <1>1, <1>3, <1>5, <1>6, <1>7, <1>10
  DEF WriteTemp, Fill, IpRest, fs, Sure, FilesOK, WriteLabels, TempLabels, NewLabels,
      OwnLabels
<1>11. CASE SyncTemp \/ SyncNew \/ IpSync
  BY <1>1, <1>3, <1>5, <1>6, <1>7, <1>11
  DEF SyncTemp, SyncNew, IpSync, fs, Fsync, Sure, FilesOK, WriteLabels, TempLabels,
      NewLabels, OwnLabels
<1>12. CASE Recheck
  BY <1>5, <1>6, <1>12 DEF Recheck, fs
<1>13. CASE Rename
  BY <1>1, <1>4, <1>5, <1>6, <1>13 DEF Rename, Sure, FilesOK
<1>14. CASE SyncDir \/ SyncNewDir \/ BakSync
  BY <1>1, <1>5, <1>7, <1>14
  DEF SyncDir, SyncNewDir, BakSync, fs, FsyncDir, Sure, FilesOK
<1>15. CASE BakCopy
  BY <1>1, <1>5, <1>15, FreshIs DEF BakCopy, fs, Sure, FilesOK
<1>16. CASE BakLink
  BY <1>1, <1>4, <1>5, <1>16 DEF BakLink, fs, Bind, Sure, FilesOK
<1>17. CASE IpOpen
  BY <1>5, <1>6, <1>17 DEF IpOpen, fs
<1>18. CASE IpWrite \/ Restore
  BY <1>1, <1>2, <1>3, <1>5, <1>18
  DEF IpWrite, Restore, fs, Write, Sure, FilesOK, WriteLabels, OwnLabels
<1>19. CASE Restoring
  BY <1>1, <1>3, <1>5, <1>19
  DEF Restoring, fs, UnlinkSync, Sure, FilesOK, WriteLabels, OwnLabels
<1>20. CASE Rotate
  <2>1. CASE UNCHANGED fs \/ DropPending
    BY <1>5, <1>6, <2>1 DEF fs
  <2>2. CASE ~(UNCHANGED fs \/ DropPending)
    <3>1. UNCHANGED <<data, pdata>> /\ DOMAIN name' = DOMAIN name
      BY <1>20, <2>2 DEF Rotate
    <3>2. \A n \in Name : name'[n] = name[n] \/ n \in Backups
      BY <1>1, <1>20, <2>2, JobParts, NameIs DEF Rotate, EditorOK, FilesOK
    <3>3. \A n \in Name : name'[n] \in pname'[n]
      BY <1>1, <1>20, <2>2, <3>2 DEF Rotate, Sure
    <3> QED  BY <3>1, <3>3 DEF Sure
  <2> QED  BY <2>1, <2>2
<1>21. CASE Reload \/ Pin \/ Unpin
  BY <1>1, <1>4, <1>21 DEF Reload, Pin, Unpin, Sure, FilesOK
<1>22. CASE Meddle
  BY <1>1, <1>2, <1>4, <1>22, FreshIs DEF Meddle, Sure, FilesOK
<1>23. CASE Crash
  BY <1>1, <1>5, <1>23, CrashLeaves DEF Sure
<1> QED  BY <1>8, <1>9, <1>10, <1>11, <1>12, <1>13, <1>14, <1>15, <1>16, <1>17,
            <1>18, <1>19, <1>20, <1>21, <1>22, <1>23 DEF Next, Save

-----------------------------------------------------------------------------
(* The file, its temporary and its backups stay different inodes. *)

LEMMA UnlinkDisjoint ==
  ASSUME FilesOK, Disjoint, NEW ns, UnlinkSync(ns) PROVE Disjoint'
<1>1. \A n \in Name : pname'[n] \subseteq pname[n] \cup {Nil}
  BY DEF UnlinkSync
<1> QED  BY <1>1, NameIs DEF Disjoint

LEMMA DisjointStep ==
  ASSUME Before, Sure, Next PROVE Disjoint'
<1>1. FilesOK /\ EditorOK /\ Apart /\ Disjoint /\ pname \in [Name -> SUBSET (Inode \cup {Nil})]
  BY DEF Before, Apart, FilesOK
<1>2. /\ job.pend \in Backups /\ "dst" \in Name /\ "tmp" \in Name /\ "jbase" \in Name
      /\ "base" \in Backups /\ Backups \subseteq Name
      /\ "dst" \notin Backups /\ "tmp" \notin Backups /\ "jbase" \notin Backups
  BY <1>1, JobParts, NameIs DEF EditorOK
<1>3. ASSUME UNCHANGED pname PROVE Disjoint'
  BY <1>1, <1>3 DEF Disjoint
<1>4. ASSUME DropTemp \/ DropPending PROVE Disjoint'
  BY <1>1, <1>4, UnlinkDisjoint DEF DropTemp, DropPending
<1>5. ASSUME Uncreate PROVE Disjoint'
  BY <1>1, <1>5, UnlinkDisjoint DEF Uncreate
<1>6. CASE SomeSave \/ BakOpen \/ BakCopy \/ IpWrite \/ IpRest \/ IpSync \/ Restore
  BY <1>3, <1>6
  DEF SomeSave, FileSave, BakOpen, BakCopy, IpWrite, IpRest, IpSync, Restore, fs
<1>7. CASE WriteTemp \/ SyncTemp \/ Recheck \/ Fill \/ SyncNew \/ IpOpen
  BY <1>3, <1>4, <1>5, <1>7
  DEF WriteTemp, SyncTemp, Recheck, Fill, SyncNew, IpOpen, fs
<1>8. CASE OpenTemp
  BY <1>1, <1>2, <1>3, <1>8 DEF OpenTemp, fs, Bind, Disjoint
<1>9. CASE Create
  BY <1>1, <1>2, <1>3, <1>9, FreshIs DEF Create, fs, Bind, Disjoint
<1>10. CASE Rename
  <2>1. \A n \in Backups : job.fd \notin pname[n]
    BY <1>1, <1>10 DEF Rename, Apart, FdApart, WriteLabels, TempLabels
  <2> QED  BY <1>1, <1>2, <1>4, <1>10, <2>1 DEF Rename, Disjoint
<1>11. CASE SyncDir \/ SyncNewDir \/ BakSync
  <2>1. \A n \in Name : name[n] \in pname[n]
    BY DEF Sure
  <2> QED  BY <1>1, <1>2, <1>3, <1>5, <1>11, <2>1
           DEF SyncDir, SyncNewDir, BakSync, fs, FsyncDir, Disjoint
<1>12. CASE BakLink
  <2>1. job.fd \notin pname["dst"]
    BY <1>1, <1>12 DEF BakLink, Apart, CopyApart, Copy, CopyLabels
  <2> QED  BY <1>1, <1>2, <1>3, <1>12, <2>1 DEF BakLink, fs, Bind, Disjoint
<1>13. CASE Restoring
  BY <1>1, <1>3, <1>13, UnlinkDisjoint DEF Restoring, fs
<1>14. CASE Rotate
  <2>1. CASE UNCHANGED fs \/ DropPending
    BY <1>3, <1>4, <2>1 DEF fs
  <2>2. CASE ~(UNCHANGED fs \/ DropPending)
    <3>1. Copy = name[job.pend] /\ Copy \notin pname["dst"]
      BY <1>1, <1>14 DEF Rotate, Apart, CopyApart, Copy, CopyLabels, OwnLabels
    <3>2. /\ name' = [name EXCEPT !["base"] = name[job.pend], ![job.pend] = Nil]
          /\ \/ pname' = [n \in Name |-> IF n \in Backups THEN {name'[n]}
                                                          ELSE pname[n]]
             \/ pname' = [n \in Name |-> pname[n] \cup {name'[n]}]
      BY <1>14, <2>2 DEF Rotate
    <3>3. \A n \in Backups : name'[n] \in {name[n], Copy, Nil}
      BY <1>1, <1>2, <3>1, <3>2 DEF FilesOK
    <3>4. \A n \in Name : name[n] \in pname[n]
      BY DEF Sure
    <3>5. name'["dst"] = name["dst"]
      BY <1>1, <1>2, <3>2 DEF FilesOK
    <3>6. pname'["dst"] = pname["dst"]
      <4>1. pname'["dst"] = pname["dst"] \/ pname'["dst"] = pname["dst"] \cup {name["dst"]}
        BY <1>2, <3>2, <3>5
      <4>2. name["dst"] \in pname["dst"]
        BY <1>2, <3>4
      <4> QED  BY <4>1, <4>2
    <3>7. ASSUME NEW n \in Backups PROVE pname'[n] \subseteq pname[n] \cup {Copy, Nil}
      <4>1. pname'[n] = {name'[n]} \/ pname'[n] = pname[n] \cup {name'[n]}
        BY <1>2, <3>2
      <4>2. name'[n] \in pname[n] \cup {Copy, Nil}
        BY <1>2, <3>3, <3>4
      <4> QED  BY <4>1, <4>2
    <3> QED  BY <1>1, <3>1, <3>6, <3>7 DEF Disjoint
  <2> QED  BY <2>1, <2>2
<1>15. CASE Reload \/ Pin \/ Unpin
  BY <1>1, <1>2, <1>15 DEF Reload, Pin, Unpin, Disjoint
<1>16. CASE Meddle
  BY <1>1, <1>2, <1>3, <1>16, FreshIs DEF Meddle, Disjoint
<1>17. CASE Crash
  <2>1. CASE UNCHANGED pname
    BY <1>3, <2>1
  <2>2. CASE ~UNCHANGED pname
    <3>1. /\ \A n \in Name : name'[n] \in pname[n]
          /\ pname' = [n \in Name |-> {name'[n]}]
      BY <1>1, <1>17, <2>2, CrashLeaves
    <3> QED  BY <1>1, <1>2, <3>1 DEF Disjoint
  <2> QED  BY <2>1, <2>2
<1> QED  BY <1>6, <1>7, <1>8, <1>9, <1>10, <1>11, <1>12, <1>13, <1>14, <1>15, <1>16,
            <1>17 DEF Next, Save

LEMMA FdApartStep ==
  ASSUME Before, Sure, Next PROVE FdApart'
<1>1. /\ FilesOK /\ EditorOK /\ Apart /\ FdApart /\ Progress
      /\ pname \in [Name -> SUBSET (Inode \cup {Nil})] /\ job \in JobType
  BY DEF Before, Apart, FilesOK, EditorOK
<1>2. /\ job.pend \in Backups /\ "dst" \in Name /\ "tmp" \in Name /\ "jbase" \in Name
      /\ "base" \in Backups /\ Backups \subseteq Name
      /\ "dst" \notin Backups /\ "tmp" \notin Backups /\ "jbase" \notin Backups
  BY <1>1, JobParts, NameIs DEF EditorOK
<1>3. ASSUME pc' \notin WriteLabels PROVE FdApart'
  BY <1>3 DEF FdApart, WriteLabels
<1>4. ASSUME UNCHANGED <<name, pname>>, job'.fd = job.fd, pc \in WriteLabels,
             pc' \in TempLabels => pc \in TempLabels,
             pc' \in OwnLabels => pc \in OwnLabels
      PROVE  FdApart'
  BY <1>1, <1>4 DEF FdApart, Dst
<1>5. ASSUME Fail("IO") \/ Fail("CHANGED") PROVE FdApart'
  BY <1>3, <1>5 DEF Fail, Return, WriteLabels, TempLabels, NewLabels, OwnLabels
<1>6. CASE SomeSave
  <2>1. pc' \in {"idle", "bakopen", "create", "opentemp"}
    BY <1>6 DEF SomeSave, FileSave, Enter, Inplace
  <2> QED  BY <1>3, <2>1 DEF WriteLabels, TempLabels, NewLabels, OwnLabels
<1>7. CASE OpenTemp
  <2>1. CASE ~Fail("IO")
    <3>1. PICK i \in Fresh : Bind("tmp", i) /\ job' = [job EXCEPT !.fd = i]
                             /\ pc' = "writetemp"
      BY <1>7, <2>1 DEF OpenTemp
    <3>2. job'.fd = i /\ i # Nil /\ i \in Inode
      BY <1>1, <3>1, FreshIs, NilIsNoInode DEF JobType
    <3>3. \A n \in Name \ {"tmp"} : pname'[n] = pname[n]
      BY <1>1, <3>1 DEF Bind
    <3>4. \A n \in Name \ {"tmp"} : i \notin pname'[n]
      BY <3>1, <3>3, FreshIs
    <3> QED  BY <1>2, <3>1, <3>2, <3>4 DEF FdApart, TempLabels, OwnLabels
  <2> QED  BY <1>5, <2>1
<1>8. CASE Create
  <2>1. CASE ~Fail("IO")
    <3>1. PICK i \in Fresh : Bind("dst", i) /\ job' = [job EXCEPT !.fd = i]
                             /\ pc' = "fill"
      BY <1>8, <2>1 DEF Create
    <3>2. job'.fd = i /\ i # Nil /\ i \in Inode
      BY <1>1, <3>1, FreshIs, NilIsNoInode DEF JobType
    <3>3. \A n \in Name \ {"dst"} : pname'[n] = pname[n]
      BY <1>1, <3>1 DEF Bind
    <3>4. \A n \in Name \ {"dst"} : i \notin pname'[n]
      BY <3>1, <3>3, FreshIs
    <3> QED  BY <1>2, <3>1, <3>2, <3>4 DEF FdApart, TempLabels, OwnLabels
  <2> QED  BY <1>5, <2>1
<1>9. CASE WriteTemp \/ IpWrite \/ IpRest
  BY <1>4, <1>5, <1>9
  DEF WriteTemp, IpWrite, IpRest, fs, Goto, WriteLabels, TempLabels, OwnLabels
<1>10. ASSUME NEW label, Sealed(label), UNCHANGED <<name, pname>>, pc \in WriteLabels,
              label \in TempLabels => pc \in TempLabels,
              label \in OwnLabels => pc \in OwnLabels
       PROVE  FdApart'
  BY <1>1, <1>4, <1>10 DEF Sealed, JobType
<1>11. CASE SyncTemp \/ SyncNew \/ IpSync
  BY <1>3, <1>4, <1>5, <1>10, <1>11
  DEF SyncTemp, SyncNew, IpSync, Uncreate, fs, Goto, Inplace, WriteLabels, TempLabels,
      NewLabels, OwnLabels
<1>12. CASE Recheck
  <2>1. CASE pc' = "rename"
    <3>1. /\ pc = "recheck" /\ UNCHANGED <<name, pname>>
          /\ job' = [job EXCEPT !.acc = Accept(@)]
      BY <1>12, <2>1 DEF Recheck, Fail, Return, Inplace, fs
    <3>2. job'.fd = job.fd
      BY <1>1, <3>1 DEF JobType
    <3> QED  BY <1>4, <2>1, <3>1, <3>2 DEF WriteLabels, TempLabels, OwnLabels
  <2>2. CASE pc' # "rename"
    BY <1>3, <1>12, <2>2
    DEF Recheck, Inplace, Fail, Return, WriteLabels, TempLabels, NewLabels, OwnLabels
  <2> QED  BY <2>1, <2>2
<1>13. CASE Rename
  <2>1. CASE pc' = "syncdir"
    <3>1. /\ pc = "rename" /\ job' = job
          /\ \A n \in Name \ DstDir : pname'[n] = pname[n]
      BY <1>1, <1>13, <2>1 DEF Rename, Fail, Return, Inplace, Goto, DstDir
    <3> QED  BY <1>1, <1>2, <2>1, <3>1
             DEF FdApart, WriteLabels, TempLabels, OwnLabels, DstDir
  <2>2. CASE pc' # "syncdir"
    BY <1>3, <1>5, <1>13, <2>2
    DEF Rename, Goto, Inplace, WriteLabels, TempLabels, NewLabels, OwnLabels
  <2> QED  BY <2>1, <2>2
<1>14. CASE SyncDir \/ SyncNewDir \/ Rotate \/ Restoring \/ Crash
  BY <1>3, <1>5, <1>14
  DEF SyncDir, SyncNewDir, Rotate, Restoring, Crash, Commit, Return, Uncreate,
      WriteLabels, TempLabels, NewLabels, OwnLabels
<1>15. CASE Fill
  BY <1>4, <1>5, <1>15
  DEF Fill, Uncreate, Goto, WriteLabels, TempLabels, NewLabels, OwnLabels
<1>16. CASE BakOpen \/ BakCopy \/ BakLink \/ BakSync
  BY <1>3, <1>5, <1>16
  DEF BakOpen, BakCopy, BakLink, BakSync, Goto, WriteLabels, TempLabels, NewLabels,
      OwnLabels
<1>17. ASSUME UNCHANGED <<name, pname>>, job'.fd = Dst, Dst # Nil, pc' \in OwnLabels
       PROVE  FdApart'
  <2>1. Dst \in pname["dst"] /\ Dst' = Dst
    BY <1>2, <1>17 DEF Sure, Dst
  <2>2. \A n \in Backups : Dst \notin pname[n]
    BY <1>1, <1>17, <2>1 DEF Apart, Disjoint
  <2> QED  BY <1>17, <2>1, <2>2
           DEF FdApart, OwnLabels, TempLabels
<1>18. CASE IpOpen
  <2>1. CASE MetaMatches(job.acc) /\ UNCHANGED fs /\ pc' = "ipwrite"
             /\ job' = [job EXCEPT !.fd = Dst, !.old = data[Dst]]
    BY <1>1, <1>17, <2>1, MatchIs DEF JobType, OwnLabels, fs
  <2> QED  BY <1>5, <1>18, <2>1 DEF IpOpen
<1>19. CASE Restore
  <2>1. CASE Dst # Nil /\ UNCHANGED <<name, pname>> /\ pc' = "restoring"
             /\ job' = [job EXCEPT !.fd = Dst]
    BY <1>1, <1>17, <2>1 DEF JobType, OwnLabels
  <2> QED  BY <1>5, <1>19, <2>1 DEF Restore
<1>20. CASE Reload \/ Pin \/ Unpin
  BY <1>3, <1>20
  DEF Reload, Pin, Unpin, WriteLabels, TempLabels, NewLabels, OwnLabels
<1>21. CASE Meddle
  <2>1. UNCHANGED <<pc, job>>
    BY <1>21 DEF Meddle, editor
  <2>2. CASE UNCHANGED <<name, pname>>
    BY <1>1, <2>1, <2>2 DEF FdApart, Dst
  <2>3. CASE \E i \in Fresh : pname' = [pname EXCEPT !["dst"] = {i}]
    BY <1>1, <1>2, <2>1, <2>3, FreshIs
    DEF FdApart, WriteLabels, TempLabels, OwnLabels
  <2>4. CASE pname' = [pname EXCEPT !["dst"] = {Nil}]
    BY <1>1, <1>2, <2>1, <2>4 DEF FdApart, WriteLabels, TempLabels, OwnLabels
  <2> QED  BY <1>21, <2>2, <2>3, <2>4 DEF Meddle
<1> QED  BY <1>6, <1>7, <1>8, <1>9, <1>11, <1>12, <1>13, <1>14, <1>15, <1>16, <1>18,
            <1>19, <1>20, <1>21 DEF Next, Save

(* The inode written to is not the copy. *)
LEMMA CopyNotFd ==
  ASSUME EditorOK, FdApart, Sure, pc \in OwnLabels
  PROVE  Copy = name[job.pend] /\ job.fd # Copy /\ job.pend \in Name
<1>1. job.pend \in Backups /\ job.pend \in Name
  BY JobParts, NameIs DEF EditorOK
<1>2. Copy = name[job.pend]
  BY DEF Copy, OwnLabels
<1>3. name[job.pend] \in pname[job.pend] /\ job.fd \notin pname[job.pend]
  BY <1>1 DEF Sure, FdApart, WriteLabels
<1> QED  BY <1>1, <1>2, <1>3

LEMMA CopyNotDst ==
  ASSUME CopyApart, Sure, pc \in CopyLabels PROVE Copy # Dst
BY NameIs DEF CopyApart, Sure, Dst

LEMMA CopyApartStep ==
  ASSUME Before, Sure, Next PROVE CopyApart'
<1>1. /\ FilesOK /\ EditorOK /\ Apart /\ FdApart /\ CopyApart /\ Progress
      /\ job \in JobType
  BY DEF Before, Apart, EditorOK
<1>2. /\ job.pend \in Backups /\ job.pend \in Name /\ "dst" \in Name
      /\ job.pend # "dst" /\ "jbase" \in Name
  BY <1>1, JobParts, NameIs DEF EditorOK
<1>3. ASSUME pc' \notin CopyLabels PROVE CopyApart'
  BY <1>3 DEF CopyApart, CopyLabels
<1>4. ASSUME Fail("IO") \/ Fail("CHANGED") PROVE CopyApart'
  BY <1>3, <1>4 DEF Fail, Return, CopyLabels, OwnLabels
<1>5. ASSUME pc \in OwnLabels \cup {"ipopen"}, pc' \in OwnLabels,
             UNCHANGED <<name, pname>>, job'.pend = job.pend,
             data'[Copy] = data[Copy], pdata'[Copy] = pdata[Copy]
      PROVE  CopyApart'
  <2>1. Copy' = Copy /\ Copy = name[job.pend]
    BY <1>5 DEF Copy, OwnLabels
  <2> QED  BY <1>1, <1>5, <2>1 DEF CopyApart, CopyLabels, OwnLabels
<1>6. CASE SomeSave
  <2>1. pc' \in {"idle", "bakopen", "create", "opentemp"}
    BY <1>6 DEF SomeSave, FileSave, Enter, Inplace
  <2> QED  BY <1>3, <2>1 DEF CopyLabels, OwnLabels
<1>7. CASE OpenTemp \/ WriteTemp \/ SyncTemp \/ Recheck \/ Rename \/ SyncDir
  BY <1>3, <1>4, <1>7
  DEF OpenTemp, WriteTemp, SyncTemp, Recheck, Rename, SyncDir, Goto, Sealed, Inplace,
      Commit, Return, CopyLabels, OwnLabels
<1>8. CASE Create \/ Fill \/ SyncNew \/ SyncNewDir \/ BakOpen
  BY <1>3, <1>4, <1>8
  DEF Create, Fill, SyncNew, SyncNewDir, BakOpen, Uncreate, Goto, Sealed, Commit,
      Return, CopyLabels, OwnLabels
<1>9. CASE BakCopy
  <2>1. CASE ~Fail("IO")
    <3>1. PICK i \in Fresh, c \in Copies(job.copy, data[job.acc.ino]) :
            /\ data' = [data EXCEPT ![i] = c] /\ pdata' = [pdata EXCEPT ![i] = {c}]
            /\ job' = [job EXCEPT !.fd = i] /\ pc' = "baklink"
            /\ UNCHANGED <<name, pname>>
      BY <1>9, <2>1 DEF BakCopy
    <3>2. job'.fd = i /\ i \in Inode /\ i # Nil
      BY <1>1, <3>1, FreshIs, NilIsNoInode DEF JobType
    <3>3. Copy' = i /\ pdata'[i] = {data'[i]} /\ i \notin pname'["dst"]
      BY <1>1, <1>2, <3>1, <3>2, FreshIs DEF Copy, FilesOK
    <3> QED  BY <3>1, <3>2, <3>3 DEF CopyApart
  <2> QED  BY <1>4, <2>1
<1>10. CASE BakLink
  <2>1. CASE Bind(job.pend, job.fd) /\ Goto("baksync")
             /\ UNCHANGED <<data, pdata, mtime, twins>>
    <3>1. Copy = job.fd /\ pc \in CopyLabels
      BY <1>10 DEF BakLink, Copy, CopyLabels
    <3>2. name'[job.pend] = job.fd /\ job' = job /\ pc' = "baksync"
      BY <1>1, <1>2, <2>1 DEF Bind, Goto, FilesOK
    <3>3. Copy' = job.fd /\ pname'["dst"] = pname["dst"]
      BY <1>1, <1>2, <2>1, <3>2 DEF Copy, Bind, FilesOK
    <3> QED  BY <1>1, <2>1, <3>1, <3>2, <3>3 DEF CopyApart
  <2>2. CASE pc' = "bakopen"
    BY <1>3, <2>2 DEF CopyLabels, OwnLabels
  <2> QED  BY <1>4, <1>10, <2>1, <2>2 DEF BakLink
<1>11. CASE BakSync
  <2>1. CASE FsyncDir(Backups) /\ Goto("ipopen")
             /\ UNCHANGED <<data, pdata, name, mtime, twins>>
    <3>1. pc = "baksync" /\ pc \in CopyLabels /\ Copy = name[job.pend]
      BY <1>11 DEF BakSync, CopyLabels, Copy
    <3>2. job' = job /\ pc' = "ipopen" /\ Copy' = Copy
      BY <2>1, <3>1 DEF Goto, Copy
    <3>3. pname'[job.pend] = {name[job.pend]} /\ pname'["dst"] = pname["dst"]
      BY <1>2, <2>1, NameIs DEF FsyncDir
    <3> QED  BY <1>1, <2>1, <3>1, <3>2, <3>3 DEF CopyApart
  <2> QED  BY <1>4, <1>11, <2>1 DEF BakSync
<1>12. CASE IpOpen
  <2>1. CASE UNCHANGED fs /\ pc' = "ipwrite"
             /\ job' = [job EXCEPT !.fd = Dst, !.old = data[Dst]]
    BY <1>1, <1>5, <1>12, <2>1 DEF IpOpen, OwnLabels, JobType, fs
  <2> QED  BY <1>4, <1>12, <2>1 DEF IpOpen
<1>13. CASE IpWrite \/ IpRest
  <2>1. pc \in OwnLabels /\ pc' \in OwnLabels /\ job' = job /\ UNCHANGED <<name, pname>>
    BY <1>13 DEF IpWrite, IpRest, OwnLabels, Goto, fs
  <2>2. \A i \in Inode \ {job.fd} : data'[i] = data[i] /\ pdata'[i] = pdata[i]
    BY <1>1, <1>13 DEF IpWrite, IpRest, Write, FilesOK, fs
  <2>3. Copy \in Inode \ {job.fd}
    BY <1>1, <2>1, CopyNotFd, CopyIs DEF CopyLabels
  <2> QED  BY <1>5, <2>1, <2>2, <2>3
<1>14. CASE IpSync
  <2>1. /\ pc \in OwnLabels /\ pc' \in OwnLabels /\ job'.pend = job.pend
        /\ UNCHANGED <<name, pname>>
    BY <1>1, <1>14 DEF IpSync, OwnLabels, Goto, Sealed, JobType, fs
  <2>2. \A i \in Inode \ {job.fd} : data'[i] = data[i] /\ pdata'[i] = pdata[i]
    BY <1>1, <1>14 DEF IpSync, Fsync, FilesOK, fs
  <2>3. Copy \in Inode \ {job.fd}
    BY <1>1, <2>1, CopyNotFd, CopyIs DEF CopyLabels
  <2> QED  BY <1>5, <2>1, <2>2, <2>3
<1>15. CASE Restore
  <2>1. CASE ~Fail("IO")
    <3>1. /\ pc \in OwnLabels /\ pc' \in OwnLabels
          /\ Write(Dst, Torn, Torn) /\ job' = [job EXCEPT !.fd = Dst]
          /\ UNCHANGED <<name, pname>>
      BY <1>15, <2>1 DEF Restore, OwnLabels
    <3>2. \A i \in Inode \ {Dst} : data'[i] = data[i] /\ pdata'[i] = pdata[i]
      BY <1>1, <3>1 DEF Write, FilesOK
    <3>3. Copy \in Inode \ {Dst}
      BY <1>1, <3>1, CopyNotDst, CopyIs DEF CopyLabels
    <3> QED  BY <1>1, <1>5, <3>1, <3>2, <3>3 DEF JobType
  <2> QED  BY <1>4, <2>1
<1>16. CASE Restoring \/ Rotate \/ Crash \/ Reload \/ Pin \/ Unpin
  BY <1>3, <1>4, <1>16
  DEF Restoring, Rotate, Crash, Reload, Pin, Unpin, Commit, Return, CopyLabels,
      OwnLabels
<1>17. CASE Meddle
  <2>1. CASE pc \in CopyLabels
    <3>1. UNCHANGED <<pc, job>>
      BY <1>17 DEF Meddle, editor
    <3>2. Copy \in Inode /\ Copy # Dst
      BY <1>1, <2>1, CopyIs, CopyNotDst
    <3>3. Copy = job.fd \/ Copy = name[job.pend]
      BY DEF Copy
    <3>4. Copy \notin Fresh
      BY <1>2, <3>3, FreshIs
    <3>5. name'[job.pend] = name[job.pend] /\ pname'[job.pend] = pname[job.pend]
      BY <1>1, <1>2, <1>17 DEF Meddle, FilesOK
    <3>6. Copy' = Copy
      BY <3>1, <3>5 DEF Copy
    <3>7. data'[Copy] = data[Copy] /\ pdata'[Copy] = pdata[Copy]
      BY <1>1, <1>17, <3>2, <3>4, FreshIs DEF Meddle, FilesOK
    <3>8. Copy \notin pname["dst"] /\ Copy # Nil
      BY <1>1, <2>1 DEF CopyApart
    <3>9. \/ pname'["dst"] = pname["dst"] \/ pname'["dst"] = {Nil}
          \/ \E i \in Fresh : pname'["dst"] = {i}
      BY <1>1, <1>2, <1>17 DEF Meddle, FilesOK
    <3>10. Copy \notin pname'["dst"]
      BY <3>4, <3>8, <3>9
    <3> QED  BY <1>1, <2>1, <3>1, <3>5, <3>6, <3>7, <3>8, <3>10 DEF CopyApart
  <2>2. CASE pc \notin CopyLabels
    BY <1>3, <1>17, <2>2 DEF Meddle, editor
  <2> QED  BY <2>1, <2>2
<1> QED  BY <1>6, <1>7, <1>8, <1>9, <1>10, <1>11, <1>12, <1>13, <1>14, <1>15, <1>16,
            <1>17 DEF Next, Save

LEMMA ApartStep ==
  ASSUME Before, Sure, Next PROVE Apart'
BY DisjointStep, FdApartStep, CopyApartStep DEF Apart

-----------------------------------------------------------------------------
(* The pending copy is exactly what the last identity check accepted. *)

LEMMA HeldStep ==
  ASSUME Before, Held, Next PROVE Held'
<1>1. FilesOK /\ EditorOK /\ Clock /\ Progress /\ job \in JobType /\ tick \in Nat
  BY DEF Before, EditorOK, FilesOK
<1>2. /\ job.acc \in MetaType /\ job.acc.mtime \in Nat /\ job.acc.mtime <= tick
      /\ job.pend \in Backups /\ job.pend # "dst" /\ "dst" \in Name /\ "tmp" # "dst"
      /\ "jbase" # "dst" /\ "base" # "dst"
  BY <1>1, JobParts, MetaParts, NameIs DEF Clock
<1>3. ASSUME pc' \in NewLabels \cup {"idle", "syncdir"} PROVE Held'
  BY <1>3 DEF Held
<1>4. ASSUME Fail("IO") \/ Fail("CHANGED") PROVE Held'
  BY <1>3, <1>4 DEF Fail, Return
<1>5. ASSUME job'.acc = job.acc, UNCHANGED tick, name'["dst"] = name["dst"],
             pc \notin NewLabels \cup {"idle", "syncdir"}
      PROVE  Held'
  BY <1>5 DEF Held, Dst
<1>6. ASSUME job'.acc = job.acc, tick' = tick + 1 PROVE Held'
  BY <1>1, <1>2, <1>6 DEF Held
<1>7. ASSUME DropTemp \/ DropPending PROVE name'["dst"] = name["dst"]
  BY <1>2, <1>7 DEF DropTemp, DropPending, UnlinkSync
<1>8. CASE SomeSave
  <2>1. PICK s \in Strategies, c \in Checks, f \in Forces, k \in Keeps,
             w \in BOOLEAN : FileSave(s, c, f, k, w)
    BY <1>8 DEF SomeSave
  <2> DEFINE exp == IF f THEN Accept(meta) ELSE meta
  <2>2. tick' = tick + 1 /\ (pc' = "idle" \/ job'.acc = Accept(exp))
    BY <2>1 DEF FileSave, Enter, NoJob
  <2>3. meta \in MetaType /\ exp \in MetaType /\ exp.mtime <= tick
    BY <1>1, AcceptType, AcceptIs, DstIs DEF EditorOK, Clock, Stamps
  <2>4. Accept(exp).mtime <= tick /\ Accept(exp).mtime \in Nat
    BY <1>1, <2>3, AcceptType, AcceptIs, DstIs, MetaParts DEF Clock, Stamps
  <2> HIDE DEF exp
  <2> QED  BY <1>1, <1>3, <2>2, <2>4 DEF Held
<1>9. CASE OpenTemp \/ BakCopy
  BY <1>1, <1>2, <1>4, <1>5, <1>9
  DEF OpenTemp, BakCopy, fs, Bind, JobType, NewLabels, FilesOK
<1>10. CASE Create \/ SyncDir \/ Fill \/ SyncNew \/ SyncNewDir
  BY <1>3, <1>4, <1>10
  DEF Create, SyncDir, Fill, SyncNew, SyncNewDir, Uncreate, Commit, Return, Goto,
      Sealed, NewLabels
<1>11. CASE WriteTemp \/ SyncTemp
  BY <1>1, <1>4, <1>5, <1>7, <1>11
  DEF WriteTemp, SyncTemp, Goto, Sealed, JobType, NewLabels
<1>12. CASE Recheck
  <2>1. CASE ~(Fail("IO") \/ Fail("CHANGED"))
    <3>1. job' = [job EXCEPT !.acc = Accept(@)] /\ (DropTemp \/ UNCHANGED fs)
      BY <1>12, <2>1 DEF Recheck
    <3>2. job'.acc = Accept(job.acc) /\ name'["dst"] = name["dst"]
      BY <1>1, <1>7, <3>1 DEF JobType, fs
    <3>3. job'.acc.exists => job'.acc.ino = Dst'
      BY <1>1, <1>2, <3>2, AcceptIs DEF Dst
    <3> QED  BY <3>3 DEF Held
  <2> QED  BY <1>4, <2>1
<1>13. CASE Rename
  BY <1>3, <1>4, <1>5, <1>7, <1>13 DEF Rename, Goto, NewLabels
<1>14. CASE BakOpen \/ BakLink
  BY <1>1, <1>2, <1>4, <1>5, <1>14
  DEF BakOpen, BakLink, Bind, Goto, fs, JobType, NewLabels, FilesOK
<1>15. CASE BakSync \/ IpOpen \/ IpSync
  BY <1>1, <1>4, <1>5, <1>7, <1>15
  DEF BakSync, IpOpen, IpSync, Goto, Sealed, fs, JobType, NewLabels
<1>16. CASE IpWrite \/ IpRest
  BY <1>5, <1>6, <1>16 DEF IpWrite, IpRest, Goto, fs, NewLabels
<1>17. CASE Restore
  BY <1>1, <1>4, <1>6, <1>17 DEF Restore, JobType
<1>18. CASE Restoring \/ Rotate \/ Crash \/ Reload \/ Pin \/ Unpin
  BY <1>3, <1>4, <1>18 DEF Restoring, Rotate, Crash, Reload, Pin, Unpin, Commit, Return
<1>19. CASE Meddle
  BY <1>6, <1>19 DEF Meddle, editor
<1> QED  BY <1>8, <1>9, <1>10, <1>11, <1>12, <1>13, <1>14, <1>15, <1>16, <1>17, <1>18,
            <1>19 DEF Next, Save

(* What another program does to an inode shows in its mtime; it does nothing *)
(* to the copy.                                                              *)
LEMMA MeddleShows ==
  ASSUME Before, Sure, Meddle, NEW i \in Inode
  PROVE  \/ mtime'[i] = tick + 1
         \/ mtime'[i] = mtime[i] /\ data'[i] = data[i] /\ pdata'[i] = pdata[i]
<1>1. FilesOK /\ (Dst # Nil => Dst \in Inode)
  BY DstIs DEF Before
<1> QED  BY <1>1, FreshIs DEF Meddle, FilesOK

LEMMA MeddleSpares ==
  ASSUME Before, Sure, Meddle, pc \in CopyLabels
  PROVE  UNCHANGED <<pc, job>> /\ Copy' = Copy /\ data'[Copy] = data[Copy]
<1>1. FilesOK /\ EditorOK /\ Apart /\ CopyApart
  BY DEF Before, Apart
<1>2. UNCHANGED <<pc, job>>
  BY DEF Meddle, editor
<1>3. Copy \in Inode /\ Copy # Dst /\ job.pend \in Name /\ job.pend # "dst"
  BY <1>1, CopyIs, CopyNotDst, JobParts, NameIs DEF EditorOK
<1>4. Copy \notin Fresh
  BY <1>3, FreshIs DEF Copy
<1>5. name'[job.pend] = name[job.pend]
  BY <1>1, <1>3 DEF Meddle, FilesOK
<1>6. data'[Copy] = data[Copy]
  BY <1>1, <1>3, <1>4, FreshIs DEF Meddle, FilesOK
<1> QED  BY <1>2, <1>5, <1>6 DEF Copy

LEMMA CopyingStep ==
  ASSUME Before, Sure, Held, Copying, Next PROVE Copying'
<1>1. FilesOK /\ EditorOK /\ Clock /\ Progress /\ Apart /\ CopyApart /\ job \in JobType
      /\ tick \in Nat /\ mtime \in [Inode -> Nat]
  BY DEF Before, EditorOK, FilesOK, Apart
<1>2. /\ job.acc \in MetaType /\ job.acc.mtime \in Nat /\ job.acc.mtime <= tick
      /\ job.acc.exists => job.acc.ino \in Inode
      /\ job.pend \in Name
  BY <1>1, JobParts, MetaParts, NameIs DEF Clock, Progress, EditorOK
<1>3. ASSUME pc' \notin {"bakcopy", "baklink", "baksync", "ipopen"} PROVE Copying'
  BY <1>3 DEF Copying
<1>4. ASSUME Fail("IO") \/ Fail("CHANGED") PROVE Copying'
  BY <1>3, <1>4 DEF Fail, Return
<1>5. CASE SomeSave
  <2>1. pc' \in {"idle", "bakopen", "create", "opentemp"}
    BY <1>5 DEF SomeSave, FileSave, Enter, Inplace
  <2> QED  BY <1>3, <2>1
<1>6. CASE OpenTemp \/ WriteTemp \/ SyncTemp \/ Recheck \/ Rename \/ SyncDir
  BY <1>3, <1>4, <1>6
  DEF OpenTemp, WriteTemp, SyncTemp, Recheck, Rename, SyncDir, Goto, Sealed, Inplace,
      Commit, Return
<1>7. CASE Create \/ Fill \/ SyncNew \/ SyncNewDir
  BY <1>3, <1>4, <1>7
  DEF Create, Fill, SyncNew, SyncNewDir, Uncreate, Goto, Sealed, Commit, Return
<1>8. CASE BakOpen
  <2>1. CASE ~(Fail("IO") \/ Fail("CHANGED"))
    <3>1. /\ MetaMatches(job.acc) /\ UNCHANGED fs
          /\ pc' = "bakcopy" /\ job' = [job EXCEPT !.copy = data[Dst]]
      BY <1>8, <2>1 DEF BakOpen
    <3>2. Dst = job.acc.ino
      BY <1>1, <3>1, MatchIs
    <3>3. job'.acc = job.acc /\ job'.copy = data[job.acc.ino] /\ UNCHANGED data
      BY <1>1, <3>1, <3>2 DEF JobType, fs
    <3> QED  BY <3>1, <3>3 DEF Copying, Same
  <2> QED  BY <1>4, <2>1
<1>9. CASE BakCopy
  <2>1. CASE ~Fail("IO")
    <3>1. PICK i \in Fresh, c \in Copies(job.copy, data[job.acc.ino]) :
            /\ data' = [data EXCEPT ![i] = c] /\ mtime' = [mtime EXCEPT ![i] = tick]
            /\ job' = [job EXCEPT !.fd = i] /\ pc' = "baklink"
            /\ UNCHANGED <<name, tick>>
      BY <1>9, <2>1 DEF BakCopy
    <3>2. i \in Inode /\ job'.fd = i /\ job'.acc = job.acc /\ Copy' = i /\ data'[i] = c
      BY <1>1, <3>1, FreshIs DEF JobType, Copy, FilesOK
    <3>3. pc = "bakcopy" /\ job.acc.exists /\ job.acc.ino \in Inode
      BY <1>1, <1>2, <1>9 DEF BakCopy, Progress
    <3>4. CASE i = job.acc.ino
      BY <3>1, <3>2, <3>4 DEF Copying, Same
    <3>5. CASE i # job.acc.ino
      <4>1. mtime'[job.acc.ino] = mtime[job.acc.ino]
            /\ data'[job.acc.ino] = data[job.acc.ino]
        BY <1>1, <3>1, <3>3, <3>5 DEF FilesOK
      <4>2. mtime[job.acc.ino] = job.acc.mtime => data[job.acc.ino] = job.copy
        BY <3>3 DEF Copying, Same
      <4>3. data[job.acc.ino] = job.copy => c = job.copy
        BY <3>1 DEF Copies
      <4> QED  BY <3>1, <3>2, <4>1, <4>2, <4>3 DEF Copying, Same
    <3> QED  BY <3>4, <3>5
  <2> QED  BY <1>4, <2>1
<1>10. CASE BakLink
  <2>1. CASE Bind(job.pend, job.fd) /\ Goto("baksync")
             /\ UNCHANGED <<data, pdata, mtime, twins>>
    <3>1. pc = "baklink" /\ pc' = "baksync" /\ job' = job /\ name'[job.pend] = job.fd
      BY <1>1, <1>2, <1>10, <2>1 DEF BakLink, Bind, Goto, FilesOK
    <3> QED  BY <2>1, <3>1 DEF Copying, Same, Copy
  <2>2. CASE pc' = "bakopen"
    BY <1>3, <2>2
  <2> QED  BY <1>4, <1>10, <2>1, <2>2 DEF BakLink
<1>11. CASE BakSync
  <2>1. CASE FsyncDir(Backups) /\ Goto("ipopen")
             /\ UNCHANGED <<data, pdata, name, mtime, twins>>
    BY <1>11, <2>1 DEF BakSync, Goto, Copying, Same, Copy
  <2> QED  BY <1>4, <1>11, <2>1 DEF BakSync
<1>12. CASE IpOpen \/ IpWrite \/ IpRest \/ IpSync \/ Restore \/ Restoring \/ Rotate
  BY <1>3, <1>4, <1>12
  DEF IpOpen, IpWrite, IpRest, IpSync, Restore, Restoring, Rotate, Goto, Sealed, Commit,
      Return
<1>13. CASE Reload \/ Pin \/ Unpin \/ Crash
  BY <1>3, <1>13 DEF Reload, Pin, Unpin, Crash
<1>14. CASE Meddle
  <2>1. UNCHANGED <<pc, job>>
    BY <1>14 DEF Meddle, editor
  <2>2. ASSUME NEW c, job.acc.exists, Same(job.acc, c)
        PROVE  mtime'[job.acc.ino] = job.acc.mtime => data'[job.acc.ino] = c
    BY <1>1, <1>2, <1>14, <2>2, MeddleShows DEF Same
  <2>3. CASE pc = "bakcopy"
    BY <1>1, <2>1, <2>2, <2>3 DEF Copying, Same, Progress
  <2>4. CASE pc \in {"baklink", "baksync", "ipopen"}
    <3>1. data'[Copy] = data[Copy] /\ Copy' = Copy
      BY <1>14, <2>4, MeddleSpares DEF CopyLabels
    <3> QED  BY <2>1, <2>2, <2>4, <3>1 DEF Copying, Same
  <2> QED  BY <1>3, <2>1, <2>3, <2>4
<1> QED  BY <1>5, <1>6, <1>7, <1>8, <1>9, <1>10, <1>11, <1>12, <1>13, <1>14
         DEF Next, Save

LEMMA CopiedStep ==
  ASSUME Before, Sure, Copying, Copied, Next PROVE Copied'
<1>1. FilesOK /\ EditorOK /\ Apart /\ CopyApart /\ FdApart /\ Progress /\ job \in JobType
  BY DEF Before, EditorOK, Apart
<1>2. ASSUME pc' \notin OwnLabels PROVE Copied'
  BY <1>2 DEF Copied
<1>3. ASSUME Fail("IO") \/ Fail("CHANGED") PROVE Copied'
  BY <1>2, <1>3 DEF Fail, Return, OwnLabels
<1>4. CASE SomeSave
  <2>1. pc' \in {"idle", "bakopen", "create", "opentemp"}
    BY <1>4 DEF SomeSave, FileSave, Enter, Inplace
  <2> QED  BY <1>2, <2>1 DEF OwnLabels
<1>5. CASE OpenTemp \/ WriteTemp \/ SyncTemp \/ Recheck \/ Rename \/ SyncDir
  BY <1>2, <1>3, <1>5
  DEF OpenTemp, WriteTemp, SyncTemp, Recheck, Rename, SyncDir, Goto, Sealed, Inplace,
      Commit, Return, OwnLabels
<1>6. CASE Create \/ Fill \/ SyncNew \/ SyncNewDir
  BY <1>2, <1>3, <1>6
  DEF Create, Fill, SyncNew, SyncNewDir, Uncreate, Goto, Sealed, Commit, Return,
      OwnLabels
<1>7. CASE BakOpen \/ BakCopy \/ BakLink \/ BakSync
  BY <1>2, <1>3, <1>7 DEF BakOpen, BakCopy, BakLink, BakSync, Goto, OwnLabels
<1>8. CASE IpOpen
  <2>1. CASE /\ MetaMatches(job.acc) /\ UNCHANGED fs /\ pc' = "ipwrite"
             /\ job' = [job EXCEPT !.fd = Dst, !.old = data[Dst]]
    <3>1. Dst = job.acc.ino /\ mtime[Dst] = job.acc.mtime /\ job.acc.exists
      BY <1>1, <2>1, MatchIs DEF MetaMatches
    <3>2. data[Dst] = data[Copy] /\ Copy = name[job.pend]
      BY <1>8, <3>1 DEF IpOpen, Copying, Same, Copy
    <3>3. job'.old = data[Dst] /\ job'.pend = job.pend
      BY <1>1, <2>1 DEF JobType
    <3> QED  BY <2>1, <3>2, <3>3 DEF Copied, Copy, fs
  <2> QED  BY <1>3, <1>8, <2>1 DEF IpOpen
<1>9. CASE IpWrite \/ IpRest \/ IpSync
  <2>1. pc \in OwnLabels /\ UNCHANGED name /\ job'.old = job.old
        /\ job'.pend = job.pend /\ pc' \in OwnLabels
    BY <1>1, <1>9 DEF IpWrite, IpRest, IpSync, OwnLabels, Goto, Sealed, fs, JobType
  <2>2. \A i \in Inode \ {job.fd} : data'[i] = data[i]
    BY <1>1, <1>9 DEF IpWrite, IpRest, IpSync, Write, FilesOK, fs
  <2>3. Copy \in Inode \ {job.fd} /\ Copy = name[job.pend]
    BY <1>1, <2>1, CopyNotFd, CopyIs DEF CopyLabels
  <2>4. Copy' = Copy
    BY <2>1, <2>3 DEF Copy, OwnLabels
  <2> QED  BY <2>1, <2>2, <2>3, <2>4 DEF Copied
<1>10. CASE Restoring \/ Rotate
  BY <1>2, <1>3, <1>10 DEF Restoring, Rotate, Commit, Return, OwnLabels
<1>11. CASE Restore
  <2>1. CASE ~Fail("IO")
    <3>1. /\ pc \in OwnLabels /\ pc' = "restoring" /\ UNCHANGED name
          /\ Write(Dst, Torn, Torn) /\ job' = [job EXCEPT !.fd = Dst]
      BY <1>11, <2>1 DEF Restore, OwnLabels
    <3>2. \A i \in Inode \ {Dst} : data'[i] = data[i]
      BY <1>1, <3>1 DEF Write, FilesOK
    <3>3. Copy \in Inode \ {Dst} /\ Copy = name[job.pend]
      BY <1>1, <3>1, CopyNotDst, CopyIs, CopyNotFd DEF CopyLabels
    <3>4. job'.old = job.old /\ Copy' = Copy
      BY <1>1, <3>1, <3>3 DEF JobType, Copy
    <3> QED  BY <3>1, <3>2, <3>3, <3>4 DEF Copied
  <2> QED  BY <1>3, <2>1
<1>12. CASE Reload \/ Pin \/ Unpin \/ Crash
  BY <1>2, <1>12 DEF Reload, Pin, Unpin, Crash, OwnLabels
<1>13. CASE Meddle
  <2>1. CASE pc \in OwnLabels
    BY <1>13, <2>1, MeddleSpares DEF Copied, CopyLabels
  <2>2. CASE pc \notin OwnLabels
    BY <1>2, <1>13, <2>2 DEF Meddle, editor
  <2> QED  BY <2>1, <2>2
<1> QED  BY <1>4, <1>5, <1>6, <1>7, <1>8, <1>9, <1>10, <1>12, <1>13, <1>11
         DEF Next, Save

-----------------------------------------------------------------------------
(* What the save has written. *)

LEMMA DstNotFd ==
  ASSUME FdApart, Sure, pc \in TempLabels PROVE job.fd # Dst
BY NameIs DEF FdApart, Sure, Dst

LEMMA MeddleSparesTemp ==
  ASSUME Before, Sure, Meddle, pc \in TempLabels
  PROVE  /\ UNCHANGED <<pc, job>> /\ data'[job.fd] = data[job.fd]
         /\ pdata'[job.fd] = pdata[job.fd] /\ mtime'[job.fd] = mtime[job.fd]
<1>1. FilesOK /\ EditorOK /\ Apart /\ FdApart
  BY DEF Before, Apart
<1>2. job.fd \in Inode /\ job.fd # Dst
  BY <1>1, FdIs, DstNotFd DEF WriteLabels
<1>3. \A i \in Fresh : i # job.fd
  BY FreshIs
<1> QED  BY <1>1, <1>2, <1>3 DEF Meddle, editor, FilesOK

LEMMA TemporaryStep ==
  ASSUME Before, Sure, Temporary, Next PROVE Temporary'
<1>1. FilesOK /\ EditorOK /\ Apart /\ job \in JobType
  BY DEF Before, EditorOK
<1>2. ASSUME pc' \notin {"synctemp", "recheck", "rename"} PROVE Temporary'
  BY <1>2 DEF Temporary
<1>3. ASSUME Fail("IO") \/ Fail("CHANGED") PROVE Temporary'
  BY <1>2, <1>3 DEF Fail, Return
<1>4. pc \in WriteLabels => job.fd \in Inode
  BY <1>1, FdIs
<1>5. CASE SomeSave
  <2>1. pc' \in {"idle", "bakopen", "create", "opentemp"}
    BY <1>5 DEF SomeSave, FileSave, Enter, Inplace
  <2> QED  BY <1>2, <2>1
<1>6. CASE WriteTemp
  BY <1>1, <1>3, <1>4, <1>6
  DEF WriteTemp, Goto, Temporary, WriteLabels, TempLabels, FilesOK
<1>7. CASE SyncTemp
  <2>1. CASE Fsync(job.fd) /\ Sealed("recheck")
             /\ UNCHANGED <<data, name, pname, mtime, twins>>
    BY <1>1, <1>4, <1>7, <2>1
    DEF SyncTemp, Sealed, Fsync, Temporary, WriteLabels, TempLabels, FilesOK, JobType
  <2>2. CASE Goto(Inplace(job.acc))
    BY <1>2, <2>2 DEF Goto, Inplace
  <2> QED  BY <1>3, <1>7, <2>1, <2>2 DEF SyncTemp
<1>8. CASE Recheck
  <2>1. CASE pc' = "rename"
    <3>1. pc = "recheck" /\ UNCHANGED pdata /\ job' = [job EXCEPT !.acc = Accept(@)]
      BY <1>8, <2>1 DEF Recheck, Fail, Return, fs, DropTemp
    <3> QED  BY <1>1, <2>1, <3>1 DEF Temporary, JobType
  <2>2. CASE pc' # "rename"
    BY <1>2, <1>8, <2>2 DEF Recheck, Inplace, Fail, Return
  <2> QED  BY <2>1, <2>2
<1>9. CASE OpenTemp \/ Rename \/ SyncDir \/ Create \/ Fill \/ SyncNew \/ SyncNewDir
  BY <1>2, <1>3, <1>9
  DEF OpenTemp, Rename, SyncDir, Create, Fill, SyncNew, SyncNewDir, Uncreate, Goto,
      Sealed, Inplace, Commit, Return
<1>10. CASE BakOpen \/ BakCopy \/ BakLink \/ BakSync \/ IpOpen \/ IpWrite \/ IpRest
  BY <1>2, <1>3, <1>10
  DEF BakOpen, BakCopy, BakLink, BakSync, IpOpen, IpWrite, IpRest, Goto
<1>11. CASE IpSync \/ Restore \/ Restoring \/ Rotate \/ Reload \/ Pin \/ Unpin \/ Crash
  BY <1>2, <1>3, <1>11
  DEF IpSync, Restore, Restoring, Rotate, Reload, Pin, Unpin, Crash, Goto, Sealed,
      Commit, Return
<1>12. CASE Meddle
  <2>1. CASE pc \in TempLabels
    BY <1>12, <2>1, MeddleSparesTemp DEF Temporary, TempLabels
  <2>2. CASE pc \notin TempLabels
    BY <1>2, <1>12, <2>2 DEF Meddle, editor, TempLabels
  <2> QED  BY <2>1, <2>2
<1> QED  BY <1>5, <1>6, <1>7, <1>8, <1>9, <1>10, <1>11, <1>12 DEF Next, Save

(* What a step changes in an inode shows in its mtime, but for an in-place   *)
(* save that goes on writing and for a kill.                                 *)
LEMMA DataShows ==
  ASSUME Before, Sure, Next, ~Crash, NEW i \in Inode, NEW t \in Nat, mtime'[i] = t,
         \/ t < tick
         \/ t <= tick /\ (pc = "idle" \/ (i = Dst /\ pc # "fill")),
         pc \in {"iprest", "restoring"} => i # job.fd \/ mtime[i] > t
  PROVE  mtime[i] = t /\ data'[i] = data[i]
<1>1. FilesOK /\ EditorOK /\ Apart /\ FdApart /\ tick \in Nat
  BY DEF Before, Apart, FilesOK
<1>2. pc \in WriteLabels => job.fd \in Inode
  BY <1>1, FdIs
<1>3. \A j \in Fresh : j \in Inode /\ j # Dst
  BY FreshIs, NameIs DEF Dst
<1>4. ASSUME UNCHANGED <<data, mtime>> PROVE mtime[i] = t /\ data'[i] = data[i]
  BY <1>4
<1>5. CASE SomeSave \/ SyncTemp \/ Recheck \/ Rename \/ SyncDir
  BY <1>4, <1>5
  DEF SomeSave, FileSave, SyncTemp, Recheck, Rename, SyncDir, DropTemp, fs
<1>6. CASE SyncNew \/ SyncNewDir \/ BakOpen \/ BakLink \/ BakSync \/ IpOpen
  BY <1>4, <1>6
  DEF SyncNew, SyncNewDir, BakOpen, BakLink, BakSync, IpOpen, Uncreate, DropPending, fs
<1>7. CASE IpSync \/ Rotate \/ Reload \/ Pin \/ Unpin
  BY <1>4, <1>7 DEF IpSync, Rotate, Reload, Pin, Unpin, DropPending, fs
<1>8. CASE OpenTemp \/ Create \/ BakCopy
  BY <1>1, <1>3, <1>4, <1>8 DEF OpenTemp, Create, BakCopy, FilesOK, fs
<1>9. CASE WriteTemp
  BY <1>1, <1>2, <1>4, <1>9, DstNotFd
  DEF WriteTemp, DropTemp, FilesOK, WriteLabels, TempLabels
<1>10. CASE Fill
  BY <1>1, <1>2, <1>4, <1>10 DEF Fill, Uncreate, FilesOK, WriteLabels, NewLabels
<1>11. CASE IpWrite
  BY <1>1, <1>2, <1>4, <1>11 DEF IpWrite, Write, FilesOK, WriteLabels, OwnLabels, fs
<1>12. CASE IpRest \/ Restoring
  BY <1>1, <1>4, <1>12 DEF IpRest, Restoring, FilesOK, fs
<1>13. CASE Restore
  BY <1>1, <1>4, <1>13, DstIs DEF Restore, Write, FilesOK, fs
<1>14. CASE Meddle
  BY <1>1, <1>14, MeddleShows
<1> QED  BY <1>5, <1>6, <1>7, <1>8, <1>9, <1>10, <1>11, <1>12, <1>13, <1>14
         DEF Next, Save

LEMMA WrittenStep ==
  ASSUME Before, Sure, Temporary, Written, Next PROVE Written'
<1>1. /\ FilesOK /\ EditorOK /\ Apart /\ Clock /\ Stamps /\ job \in JobType
      /\ tick \in Nat /\ blind \subseteq blind'
      /\ meta \in MetaType
  <2>1. blind \subseteq blind'
    BY DEF Next, Save, SomeSave, FileSave, OpenTemp, WriteTemp, SyncTemp, Recheck,
       Rename, SyncDir, Create, Fill, SyncNew, SyncNewDir, BakOpen, BakCopy, BakLink,
       BakSync, IpOpen, IpWrite, IpRest, IpSync, Restore, Restoring, Rotate, Reload,
       Pin, Unpin, Meddle, Crash, losses
  <2> QED  BY <2>1 DEF Before, EditorOK, FilesOK, Clock
<1>2. /\ pc \in WriteLabels => job.fd \in Inode /\ mtime[job.fd] \in Nat
      /\ job.stat \in Nat /\ job.stat <= tick
      /\ meta.mtime \in Nat /\ (pc # "idle" => meta.mtime < tick)
  BY <1>1, FdIs, JobParts, MetaParts DEF FilesOK, Clock
<1>3. ASSUME pc' \in {"idle", "opentemp", "writetemp", "synctemp", "create", "fill",
                      "bakopen", "bakcopy", "baklink", "baksync", "ipopen", "ipwrite",
                      "restore"}
      PROVE  Written'
  BY <1>3 DEF Written
<1>4. ASSUME Fail("IO") \/ Fail("CHANGED") PROVE Written'
  BY <1>3, <1>4 DEF Fail, Return
<1>5. ASSUME NEW label, Sealed(label), label \in {"recheck", "syncnewdir", "rotate"},
             data[job.fd] \in {job.ver} \cup blind, UNCHANGED data
      PROVE  Written'
  BY <1>1, <1>5 DEF Sealed, Written, JobType
<1>6. CASE SomeSave
  <2>1. pc' \in {"idle", "bakopen", "create", "opentemp"}
    BY <1>6 DEF SomeSave, FileSave, Enter, Inplace
  <2> QED  BY <1>3, <2>1
<1>7. CASE OpenTemp \/ WriteTemp \/ SyncDir \/ Create \/ SyncNewDir
  BY <1>3, <1>4, <1>7
  DEF OpenTemp, WriteTemp, SyncDir, Create, SyncNewDir, Uncreate, Goto, Commit, Return
<1>8. CASE SyncTemp
  BY <1>3, <1>4, <1>5, <1>8 DEF SyncTemp, Temporary, Goto, Inplace
<1>9. CASE Recheck
  <2>1. CASE pc' = "rename"
    <3>1. /\ pc = "recheck" /\ UNCHANGED <<data, mtime>>
          /\ job' = [job EXCEPT !.acc = Accept(@)]
      BY <1>9, <2>1 DEF Recheck, Fail, Return, fs, DropTemp
    <3> QED  BY <1>1, <2>1, <3>1 DEF Written, JobType
  <2>2. CASE pc' # "rename"
    BY <1>3, <1>9, <2>2 DEF Recheck, Inplace, Fail, Return
  <2> QED  BY <2>1, <2>2
<1>10. CASE Rename
  BY <1>1, <1>3, <1>4, <1>10 DEF Rename, Goto, Inplace, Written
<1>11. CASE Fill
  BY <1>1, <1>2, <1>4, <1>11
  DEF Fill, Uncreate, Goto, Written, WriteLabels, NewLabels, FilesOK
<1>12. CASE SyncNew \/ IpSync
  BY <1>3, <1>4, <1>5, <1>12 DEF SyncNew, IpSync, Uncreate, Goto, Written
<1>13. CASE BakOpen \/ BakCopy \/ BakLink \/ BakSync \/ IpOpen
  BY <1>3, <1>4, <1>13 DEF BakOpen, BakCopy, BakLink, BakSync, IpOpen, Goto
<1>14. CASE IpWrite
  BY <1>1, <1>2, <1>3, <1>14
  DEF IpWrite, Write, Goto, Written, WriteLabels, OwnLabels, FilesOK
<1>15. CASE IpRest
  BY <1>1, <1>2, <1>3, <1>15
  DEF IpRest, Goto, Written, WriteLabels, OwnLabels, FilesOK
<1>16. CASE Restore
  <2>1. CASE ~Fail("IO")
    <3>1. /\ pc = "restore" /\ pc' = "restoring" /\ Dst # Nil /\ tick' = tick + 1
          /\ job' = [job EXCEPT !.fd = Dst] /\ meta' = meta
          /\ mtime' = [mtime EXCEPT ![Dst] = tick']
      BY <1>16, <2>1 DEF Restore, Write
    <3>2. Dst \in Inode
      BY <1>1, <3>1, DstIs
    <3>3. mtime'[job'.fd] = tick + 1 /\ meta'.mtime < tick
      BY <1>1, <1>2, <3>1, <3>2 DEF JobType, FilesOK
    <3> QED  BY <1>1, <1>2, <3>1, <3>3 DEF Written
  <2> QED  BY <1>4, <2>1
<1>17. CASE Restoring \/ Rotate \/ Reload \/ Pin \/ Unpin \/ Crash
  BY <1>3, <1>4, <1>17
  DEF Restoring, Rotate, Reload, Pin, Unpin, Crash, Commit, Return, Written
<1>18. CASE Meddle
  <2>1. UNCHANGED <<pc, job, meta>> /\ tick' = tick + 1
    BY <1>18 DEF Meddle, editor
  <2>2. CASE pc \in WriteLabels
    <3>1. \/ mtime'[job.fd] = tick + 1
          \/ mtime'[job.fd] = mtime[job.fd] /\ data'[job.fd] = data[job.fd]
      BY <1>2, <1>18, <2>2, MeddleShows
    <3>2. pc \in {"syncnew", "ipsync"} => data'[job.fd] \in {job.ver} \cup blind'
      <4>1. data'[job.fd] = data[job.fd] \/ data'[job.fd] = tick'
        BY <1>1, <1>2, <1>18, <2>2, FreshIs, DstIs DEF Meddle, FilesOK
      <4> QED  BY <1>1, <1>18, <4>1 DEF Meddle, Written
    <3> QED  BY <1>1, <1>2, <2>1, <2>2, <3>1, <3>2 DEF Written
  <2>3. CASE pc \notin WriteLabels
    BY <2>1, <2>3 DEF Written, WriteLabels, TempLabels, NewLabels, OwnLabels
  <2> QED  BY <2>2, <2>3
<1> QED  BY <1>6, <1>7, <1>8, <1>9, <1>10, <1>11, <1>12, <1>13, <1>14, <1>15, <1>16,
            <1>17, <1>18 DEF Next, Save

-----------------------------------------------------------------------------
(* Nothing an identity check could see is lost. *)

(* An identity check that passes finds the text the buffer knows of. *)
LEMMA MatchKnows ==
  ASSUME NEW m \in MetaType, NEW text, Known(m, text), m.text = text,
         NEW check \in {"mtime", "content"}, DestinationMatches(m, check), Dst # Nil
  PROVE  data[Dst] \in {text} \cup blind
BY DEF DestinationMatches, MetaMatches, Known

LEMMA BlindGrows ==
  ASSUME Next PROVE blind \subseteq blind'
BY DEF Next, Save, SomeSave, FileSave, OpenTemp, WriteTemp, SyncTemp, Recheck, Rename,
   SyncDir, Create, Fill, SyncNew, SyncNewDir, BakOpen, BakCopy, BakLink, BakSync,
   IpOpen, IpWrite, IpRest, IpSync, Restore, Restoring, Rotate, Reload, Pin, Unpin,
   Meddle, Crash, losses

(* The meta data the buffer keeps of the file goes on telling its text. *)
LEMMA KnownKept ==
  ASSUME Before, Sure, Next, ~Crash, NEW m \in MetaType, NEW text,
         m.exists => m.ino \in Inode, Known(m, text),
         \/ m.mtime < tick
         \/ m.mtime <= tick /\ (pc = "idle" \/ (m.ino = Dst /\ pc # "fill")),
         pc \in {"iprest", "restoring"} => m.ino # job.fd \/ mtime[m.ino] > m.mtime
  PROVE  m.exists /\ mtime'[m.ino] = m.mtime =>
           data'[m.ino] \in {text} \cup blind'
<1>1. m.mtime \in Nat
  BY MetaParts
<1>2. SUFFICES ASSUME m.exists, mtime'[m.ino] = m.mtime
               PROVE  data'[m.ino] \in {text} \cup blind'
  OBVIOUS
<1>3. mtime[m.ino] = m.mtime /\ data'[m.ino] = data[m.ino]
  BY <1>1, <1>2, DataShows
<1>4. data[m.ino] \in {text} \cup blind
  BY <1>2, <1>3 DEF Known
<1> QED  BY <1>3, <1>4, BlindGrows

LEMMA MetaStays ==
  ASSUME Next
  PROVE  \/ UNCHANGED meta
         \/ Reload \/ Crash
         \/ Pin \/ Unpin
         \/ /\ SyncDir \/ SyncNewDir \/ Rotate
            /\ meta' = SavedMeta(job.fd)
BY DEF Next, Save, SomeSave, FileSave, OpenTemp, WriteTemp, SyncTemp, Recheck, Rename,
   SyncDir, Create, Fill, SyncNew, SyncNewDir, BakOpen, BakCopy, BakLink, BakSync,
   IpOpen, IpWrite, IpRest, IpSync, Restore, Restoring, Rotate, Meddle, Fail, Commit,
   Goto, Sealed, Uncreate, editor

LEMMA KnownMetaStep ==
  ASSUME Before, Sure, Written, KnownText, Next
  PROVE  Known(meta, meta.text)'
<1>1. /\ FilesOK /\ EditorOK /\ Apart /\ Clock /\ Progress /\ meta \in MetaType
      /\ Known(meta, meta.text) /\ meta.mtime <= tick /\ meta.mtime \in Nat
      /\ pc # "idle" => meta.mtime < tick
  BY MetaParts DEF Before, EditorOK, Clock, KnownText
<1>2. meta.exists => meta.ino \in Inode
  BY <1>1, MetaParts DEF Progress
<1>3. pc \in {"iprest", "restoring"} => meta.ino # job.fd \/ mtime[meta.ino] > meta.mtime
  BY DEF Written
<1>4. CASE ~Crash /\ UNCHANGED <<meta.exists, meta.ino, meta.mtime, meta.text>>
  <2>1. meta.exists /\ mtime'[meta.ino] = meta.mtime =>
           data'[meta.ino] \in {meta.text} \cup blind'
    BY <1>1, <1>2, <1>3, <1>4, KnownKept
  <2> QED  BY <1>4, <2>1 DEF Known
<1>5. CASE /\ SyncDir \/ SyncNewDir \/ Rotate
           /\ meta' = SavedMeta(job.fd)
  <2>1. UNCHANGED <<data, mtime, blind>>
    BY <1>5
    DEF SyncDir, SyncNewDir, Rotate, DropPending, Uncreate, fs, losses
  <2>2. mtime[job.fd] = job.stat => data[job.fd] \in {job.ver} \cup blind
    BY <1>5 DEF SyncDir, SyncNewDir, Rotate, Written
  <2> QED  BY <1>5, <2>1, <2>2 DEF Known, SavedMeta
<1>6. CASE Pin \/ Unpin
  <2>1. UNCHANGED <<data, mtime, blind>>
    BY <1>6 DEF Pin, Unpin, losses
  <2>2. /\ meta'.exists = meta.exists /\ meta'.ino = meta.ino
        /\ meta'.mtime = meta.mtime /\ meta'.text = meta.text
    BY <1>1, <1>6 DEF Pin, Unpin, MetaType
  <2> QED  BY <1>1, <2>1, <2>2 DEF Known
<1>7. CASE Reload
  BY <1>7, LoadedHas DEF Reload, Known
<1>8. CASE Crash
  <2>1. (/\ Recovered.exists => /\ Dst # Nil /\ Recovered.ino = Dst
                                /\ Recovered.mtime = mtime[Dst]
                                /\ Recovered.text = data[Dst]
         /\ ~Recovered.exists => Recovered.mtime = 0
         /\ Recovered.pinned => name["jbase"] = Dst /\ Dst # Nil)'
    BY RecoveredFrom, PTL
  <2>2. meta' = Recovered'
    BY <1>8 DEF Crash
  <2> QED  BY <2>1, <2>2 DEF Known
<1> QED  BY <1>4, <1>5, <1>6, <1>7, <1>8, MetaStays

LEMMA KnownAccStep ==
  ASSUME Before, Sure, Held, KnownText, Next
  PROVE  (pc \in CheckLabels /\ job.check # "off" => Known(job.acc, meta.text))'
<1>1. /\ FilesOK /\ EditorOK /\ Apart /\ Clock /\ Progress /\ meta \in MetaType
      /\ job \in JobType /\ job.acc \in MetaType /\ job.acc.mtime \in Nat
      /\ job.acc.mtime <= tick /\ tick \in Nat
  BY MetaParts, JobParts DEF Before, EditorOK, FilesOK, Clock
<1>2. job.acc.exists => job.acc.ino \in Inode
  BY <1>1, MetaParts DEF Progress
<1> DEFINE Goal == (pc \in CheckLabels /\ job.check # "off" => Known(job.acc, meta.text))'
<1>3. ASSUME pc \in CheckLabels, UNCHANGED meta, ~Crash,
             job'.acc = job.acc, job'.check = job.check
      PROVE  Goal
  <2>1. SUFFICES ASSUME job.check # "off", job.acc.exists
                 PROVE  mtime'[job.acc.ino] = job.acc.mtime =>
                          data'[job.acc.ino] \in {meta.text} \cup blind'
    BY <1>3 DEF Known
  <2>2. Known(job.acc, meta.text)
    BY <1>3, <2>1 DEF KnownText
  <2>3. job.acc.ino = Dst \/ job.acc.mtime < tick
    BY <1>3, <2>1 DEF Held, CheckLabels, NewLabels
  <2>4. pc # "fill" /\ pc \notin {"iprest", "restoring"}
    BY <1>3 DEF CheckLabels
  <2> QED  BY <1>1, <1>2, <1>3, <2>1, <2>2, <2>3, <2>4, KnownKept
<1>4. ASSUME pc' \notin CheckLabels PROVE Goal
  BY <1>4
<1>5. ASSUME Fail("IO") \/ Fail("CHANGED") PROVE Goal
  BY <1>4, <1>5 DEF Fail, Return, CheckLabels
<1>6. CASE SomeSave
  <2>1. PICK s \in Strategies, c \in Checks, f \in Forces, k \in Keeps,
             w \in BOOLEAN : FileSave(s, c, f, k, w)
    BY <1>6 DEF SomeSave
  <2>2. CASE pc' = "idle"
    BY <1>4, <2>2 DEF CheckLabels
  <2>3. CASE pc' # "idle"
    <3> DEFINE how == IF f THEN "off" ELSE c
               exp == IF f THEN Accept(meta) ELSE meta
    <3>1. /\ DestinationMatches(exp, how) /\ job'.acc = Accept(exp)
          /\ job'.check = how /\ UNCHANGED <<meta, data, mtime, blind>>
      BY <2>1, <2>3 DEF FileSave, Enter, NoJob, fs
    <3>2. CASE how = "off"
      BY <3>1, <3>2
    <3>3. CASE how # "off"
      <4>1. exp = meta /\ how \in {"mtime", "content"}
        BY <3>3, OptionsAssumption
      <4>2. job'.acc = Accept(meta)
        BY <3>1, <4>1
      <4>3. CASE Dst = Nil
        BY <1>1, <4>2, <4>3, AcceptIs DEF Known
      <4>4. CASE Dst # Nil
        <5>1. data[Dst] \in {meta.text} \cup blind
          BY <1>1, <3>1, <4>1, <4>4, MatchKnows DEF KnownText
        <5> QED  BY <1>1, <3>1, <4>2, <4>4, <5>1, AcceptIs DEF Known
      <4> QED  BY <4>3, <4>4
    <3> QED  BY <3>2, <3>3
  <2> QED  BY <2>2, <2>3
<1>7. CASE Recheck
  <2>1. CASE ~(Fail("IO") \/ Fail("CHANGED"))
    <3>1. /\ pc = "recheck" /\ DestinationMatches(job.acc, job.check)
          /\ job' = [job EXCEPT !.acc = Accept(@)]
          /\ UNCHANGED <<meta, data, mtime, blind>>
      BY <1>7, <2>1 DEF Recheck, DropTemp, fs, losses
    <3>2. job'.acc = Accept(job.acc) /\ job'.check = job.check
      BY <1>1, <3>1 DEF JobType
    <3>3. CASE job.check = "off"
      BY <3>2, <3>3
    <3>4. CASE job.check # "off"
      <4>1. /\ Known(job.acc, meta.text) /\ job.acc.text = meta.text
            /\ job.check \in {"mtime", "content"}
        BY <1>1, <3>1, <3>4, JobParts DEF KnownText, CheckLabels, Progress
      <4>2. Dst # Nil => data[Dst] \in {meta.text} \cup blind
        BY <1>1, <3>1, <4>1, MatchKnows
      <4>3. Known(Accept(job.acc), meta.text)
        BY <1>1, <4>2, AcceptIs DEF Known
      <4> QED  BY <3>1, <3>2, <4>3 DEF Known
    <3> QED  BY <3>3, <3>4
  <2> QED  BY <1>5, <2>1
<1>8. CASE OpenTemp \/ WriteTemp \/ SyncTemp
  BY <1>1, <1>3, <1>5, <1>8, JobParts
  DEF OpenTemp, WriteTemp, SyncTemp, Goto, Sealed, JobType, CheckLabels, Crash
<1>9. CASE Rename
  BY <1>3, <1>4, <1>5, <1>9 DEF Rename, Goto, CheckLabels, Crash
<1>10. CASE BakOpen \/ BakCopy \/ BakLink \/ BakSync
  BY <1>1, <1>3, <1>5, <1>10
  DEF BakOpen, BakCopy, BakLink, BakSync, Goto, JobType, CheckLabels, Crash
<1>11. CASE SyncDir \/ Create \/ Fill \/ SyncNew \/ SyncNewDir \/ Reload \/ Pin \/ Unpin
  BY <1>4, <1>5, <1>11
  DEF SyncDir, Create, Fill, SyncNew, SyncNewDir, Reload, Pin, Unpin, Uncreate, Goto,
      Sealed, Commit, Return, CheckLabels
<1>12. CASE IpOpen \/ IpWrite \/ IpRest \/ IpSync \/ Restore \/ Restoring \/ Rotate
  BY <1>4, <1>5, <1>12
  DEF IpOpen, IpWrite, IpRest, IpSync, Restore, Restoring, Rotate, Goto, Sealed, Commit,
      Return, CheckLabels
<1>13. CASE Meddle
  BY <1>3, <1>4, <1>13 DEF Meddle, editor, Crash
<1>14. CASE Crash
  BY <1>4, <1>14 DEF Crash, CheckLabels
<1> QED  BY <1>6, <1>7, <1>8, <1>9, <1>10, <1>11, <1>12, <1>13, <1>14 DEF Next, Save

LEMMA KnownTextStep ==
  ASSUME Before, Sure, Held, Written, KnownText, Next PROVE KnownText'
BY KnownMetaStep, KnownAccStep DEF KnownText

LEMMA LostStays ==
  ASSUME Typed, Apart, NothingLost, Next PROVE lost' = {}
<1>1. FilesOK /\ EditorOK /\ chk \in Nat /\ lost = {}
  BY DEF Typed, Histories, NothingLost
<1>2. ASSUME NEW i \in Inode \cup {Nil}, Accounted(i), Overwrite(i) PROVE lost' = {}
  <2>1. i # Nil => data[i] \in Nat
    BY <1>1, <1>2 DEF FilesOK, Content
  <2> QED  BY <1>1, <1>2, <2>1 DEF Accounted, Overwrite
<1>3. pc # "idle" => Accounted(Dst)
  BY DEF NothingLost
<1>4. Dst \in Inode \cup {Nil}
  BY <1>1, DstIs
<1>5. CASE Rename \/ Fill \/ SyncNew \/ SyncNewDir \/ Restore
  BY <1>1, <1>2, <1>3, <1>4, <1>5 DEF Rename, Fill, SyncNew, SyncNewDir, Restore, Uncreate
<1>6. CASE IpWrite
  <2>1. Accounted(job.fd) /\ job.fd \in Inode
    BY <1>1, <1>6, FdIs DEF IpWrite, NothingLost, WriteLabels, OwnLabels
  <2> QED  BY <1>1, <1>2, <1>6, <2>1 DEF IpWrite
<1>7. CASE ~(Rename \/ Fill \/ SyncNew \/ SyncNewDir \/ Restore \/ IpWrite)
  BY <1>1, <1>7
  DEF Next, Save, SomeSave, FileSave, OpenTemp, WriteTemp, SyncTemp, Recheck, SyncDir,
      Create, BakOpen, BakCopy, BakLink, BakSync, IpOpen, IpRest, IpSync, Restoring,
      Rotate, Reload, Pin, Unpin, Meddle, Crash, losses
<1> QED  BY <1>5, <1>6, <1>7

(* A successful identity check on the accepted file. *)
LEMMA MatchAccounts ==
  ASSUME EditorOK, Progress, KnownText, pc \in CheckLabels, job.check # "off",
         MetaMatches(job.acc)
  PROVE  data[Dst] \in {meta.text} \cup blind
BY MatchIs DEF KnownText, Known, MetaMatches

LEMMA NothingLostStep ==
  ASSUME Typed, Before, Sure, Temporary, KnownText, NothingLost, Next
  PROVE  NothingLost'
<1>1. /\ FilesOK /\ EditorOK /\ Apart /\ FdApart /\ Clock /\ Progress /\ job \in JobType
      /\ chk \in Nat /\ tick \in Nat /\ chk <= tick
      /\ blind \subseteq blind'
  BY BlindGrows DEF Typed, Before, EditorOK, FilesOK, Histories, Clock, Stamps, Apart
<1>2. /\ pc \in WriteLabels => job.fd \in Inode
      /\ Dst \in Inode \cup {Nil}
      /\ job.pend \in Backups /\ job.pend # "dst" /\ "dst" \in Name /\ "tmp" # "dst"
      /\ pc # "idle" => Accounted(Dst)
      /\ "tmp" \in Name /\ job.pend \in Name
  BY <1>1, FdIs, DstIs, JobParts, NameIs DEF NothingLost
<1>3. SUFFICES (pc # "idle" => Accounted(Dst))' /\ (pc = "ipwrite" => Accounted(job.fd))'
  BY <1>1, LostStays DEF NothingLost
<1> DEFINE Goal == (pc # "idle" => Accounted(Dst))' /\ (pc = "ipwrite" => Accounted(job.fd))'
<1>4. ASSUME pc' = "idle" PROVE Goal
  BY <1>4
<1>5. ASSUME Fail("IO") \/ Fail("CHANGED") PROVE Goal
  BY <1>5 DEF Fail, Return
<1>6. ASSUME pc # "idle", pc' # "ipwrite", job'.ver = job.ver, job'.check = job.check,
             meta' = meta, chk' = chk, Dst' = Dst,
             Dst # Nil => \/ data'[Dst] = data[Dst] \/ data'[Dst] = job.ver
                          \/ ~Whole(data'[Dst])
      PROVE  Goal
  BY <1>1, <1>2, <1>6 DEF Accounted
<1>7. ASSUME DropTemp \/ DropPending PROVE Dst' = Dst /\ UNCHANGED data
  BY <1>2, <1>7 DEF DropTemp, DropPending, UnlinkSync, Dst
<1>8. \A i \in Fresh : i \in Inode /\ i # Dst
  BY FreshIs, NameIs DEF Dst
<1>9. CASE SomeSave
  <2>1. PICK s \in Strategies, c \in Checks, f \in Forces, k \in Keeps,
             w \in BOOLEAN : FileSave(s, c, f, k, w)
    BY <1>9 DEF SomeSave
  <2>2. CASE pc' # "idle"
    <3> DEFINE how == IF f THEN "off" ELSE c
               exp == IF f THEN Accept(meta) ELSE meta
    <3>1. /\ DestinationMatches(exp, how) /\ pc' \in {"bakopen", "create", "opentemp"}
          /\ job'.check = how /\ UNCHANGED <<meta, data, name, blind>>
      BY <2>1, <2>2 DEF FileSave, Enter, NoJob, Inplace, fs
    <3>2. CASE how = "off"
      BY <3>1, <3>2 DEF Accounted
    <3>3. CASE how # "off"
      <4>1. exp = meta /\ how \in {"mtime", "content"}
        BY <3>3, OptionsAssumption
      <4>2. Dst # Nil => data[Dst] \in {meta.text} \cup blind
        BY <1>1, <3>1, <4>1, MatchKnows DEF KnownText, EditorOK
      <4> QED  BY <3>1, <4>2 DEF Accounted, Dst
    <3> QED  BY <3>2, <3>3
  <2> QED  BY <1>4, <2>2
<1>10. CASE OpenTemp
  BY <1>1, <1>2, <1>5, <1>6, <1>8, <1>10 DEF OpenTemp, Bind, Dst, FilesOK, JobType, checks
<1>11. CASE WriteTemp
  BY <1>1, <1>2, <1>5, <1>6, <1>11 
  DEF WriteTemp, Goto, FilesOK, Dst, WriteLabels, TempLabels, checks
<1>12. CASE SyncTemp
  BY <1>1, <1>2, <1>5, <1>6, <1>7, <1>12
  DEF SyncTemp, Goto, Sealed, Inplace, JobType, Dst, checks
<1>13. CASE Recheck
  <2>1. CASE ~(Fail("IO") \/ Fail("CHANGED"))
    <3>1. /\ pc = "recheck" /\ DestinationMatches(job.acc, job.check)
          /\ job' = [job EXCEPT !.acc = Accept(@)]
          /\ pc' # "ipwrite"
          /\ UNCHANGED <<meta, data, blind>> /\ (DropTemp \/ UNCHANGED fs)
      BY <1>13, <2>1 DEF Recheck, DropTemp, fs, losses, Inplace
    <3>2. Dst' = Dst /\ job'.check = job.check
      BY <1>1, <1>7, <3>1 DEF Dst, fs, JobType
    <3>3. CASE job.check = "off"
      BY <3>1, <3>2, <3>3 DEF Accounted
    <3>4. CASE job.check # "off"
      <4>1. /\ Known(job.acc, meta.text) /\ job.acc.text = meta.text
            /\ job.check \in {"mtime", "content"} /\ job.acc \in MetaType
        BY <1>1, <3>1, <3>4, JobParts DEF KnownText, CheckLabels, Progress
      <4>2. Dst # Nil => data[Dst] \in {meta.text} \cup blind
        BY <1>1, <3>1, <4>1, MatchKnows
      <4> QED  BY <3>1, <3>2, <4>2 DEF Accounted
    <3> QED  BY <3>3, <3>4
  <2> QED  BY <1>5, <2>1
<1>14. CASE Rename
  <2>1. CASE /\ name' = [name EXCEPT !["dst"] = job.fd, !["tmp"] = Nil]
             /\ Goto("syncdir") /\ UNCHANGED data
    <3>1. Dst' = job.fd /\ pc' = "syncdir" /\ job' = job
      BY <1>1, <1>2, <2>1 DEF Dst, Goto, FilesOK
    <3>2. data[job.fd] = job.ver
      BY <1>2, <1>14 DEF Rename, Temporary, Sure, WriteLabels, TempLabels
    <3> QED  BY <2>1, <3>1, <3>2 DEF Accounted
  <2>2. CASE Goto(Inplace(job.acc)) /\ DropTemp
    BY <1>6, <1>7, <1>14, <2>2 DEF Rename, Goto, Inplace, checks
  <2> QED  BY <1>5, <1>14, <2>1, <2>2 DEF Rename
<1>15. CASE Create
  <2>1. CASE ~Fail("IO")
    <3>1. PICK i \in Fresh : /\ Bind("dst", i) /\ data' = [data EXCEPT ![i] = Stub]
                             /\ pc' = "fill"
      BY <1>15, <2>1 DEF Create
    <3>2. Dst' = i /\ data'[i] = Stub
      BY <1>1, <1>2, <1>8, <3>1 DEF Bind, Dst, FilesOK
    <3> QED  BY <3>1, <3>2 DEF Accounted, Whole, Stub, First
  <2> QED  BY <1>5, <2>1
<1>16. CASE Fill \/ SyncNew
  <2>1. CASE ~Fail("IO")
    <3>1. /\ pc # "idle" /\ pc' # "ipwrite" /\ meta' = meta /\ chk' = chk
          /\ Dst' = Dst /\ job'.ver = job.ver /\ job'.check = job.check
          /\ data' = data \/ data' = [data EXCEPT ![job.fd] = job.ver]
      BY <1>1, <1>16, <2>1
      DEF Fill, SyncNew, Uncreate, Goto, Sealed, Dst, JobType, checks
    <3>2. Dst # Nil => data'[Dst] = data[Dst] \/ data'[Dst] = job.ver
      BY <1>1, <1>2, <1>16, <3>1 DEF Fill, SyncNew, FilesOK, WriteLabels, NewLabels
    <3> QED  BY <1>6, <3>1, <3>2
  <2> QED  BY <1>5, <2>1
<1>17. CASE SyncDir \/ SyncNewDir \/ Restoring \/ Rotate \/ Reload \/ Pin \/ Unpin \/ Crash
  BY <1>4, <1>5, <1>17
  DEF SyncDir, SyncNewDir, Restoring, Rotate, Reload, Pin, Unpin, Crash, Uncreate,
      Commit, Return
<1>18. CASE BakOpen
  <2>1. CASE ~(Fail("IO") \/ Fail("CHANGED"))
    <3>1. /\ pc = "bakopen" /\ MetaMatches(job.acc) /\ pc' = "bakcopy"
          /\ job'.check = job.check /\ UNCHANGED <<meta, fs, blind>>
      BY <1>1, <1>18, <2>1 DEF BakOpen, JobType, losses
    <3>2. job.check # "off" => data[Dst] \in {meta.text} \cup blind
      BY <1>1, <3>1, MatchAccounts DEF CheckLabels
    <3> QED  BY <3>1, <3>2 DEF Accounted, Dst, fs
  <2> QED  BY <1>5, <2>1
<1>19. CASE BakCopy \/ BakLink \/ BakSync
  <2>1. CASE ~Fail("IO")
    <3>1. /\ pc # "idle" /\ pc' # "ipwrite" /\ meta' = meta /\ chk' = chk
          /\ job'.ver = job.ver /\ job'.check = job.check
      BY <1>1, <1>19, <2>1 DEF BakCopy, BakLink, BakSync, Goto, JobType, checks
    <3>2. Dst' = Dst
      BY <1>1, <1>2, <1>19, <2>1 DEF BakCopy, BakLink, BakSync, Bind, FilesOK, Dst, fs
    <3>3. Dst # Nil => data'[Dst] = data[Dst]
      BY <1>1, <1>2, <1>8, <1>19, <2>1 DEF BakCopy, BakLink, BakSync, FilesOK, fs
    <3> QED  BY <1>1, <1>2, <3>1, <3>2, <3>3 DEF Accounted
  <2> QED  BY <1>5, <2>1
<1>20. CASE IpOpen
  <2>1. CASE ~(Fail("IO") \/ Fail("CHANGED"))
    <3>1. /\ pc = "ipopen" /\ MetaMatches(job.acc) /\ pc' = "ipwrite"
          /\ job'.check = job.check /\ job'.fd = Dst /\ UNCHANGED <<meta, fs, blind>>
      BY <1>1, <1>20, <2>1 DEF IpOpen, JobType, losses
    <3>2. job.check # "off" => data[Dst] \in {meta.text} \cup blind
      BY <1>1, <3>1, MatchAccounts DEF CheckLabels
    <3> QED  BY <3>1, <3>2 DEF Accounted, Dst, fs
  <2> QED  BY <1>5, <2>1
<1>21. CASE IpWrite \/ IpRest \/ IpSync
  <2>1. /\ pc # "idle" /\ pc' # "ipwrite" /\ meta' = meta /\ chk' = chk
        /\ Dst' = Dst /\ job'.ver = job.ver /\ job'.check = job.check
        /\ \/ data' = data \/ data' = [data EXCEPT ![job.fd] = job.ver]
           \/ data' = [data EXCEPT ![job.fd] = Torn]
    BY <1>1, <1>21
    DEF IpWrite, IpRest, IpSync, Write, Goto, Sealed, Dst, JobType, checks, fs
  <2>2. job.fd \in Inode
    BY <1>2, <1>21 DEF IpWrite, IpRest, IpSync, WriteLabels, OwnLabels
  <2>3. Dst # Nil =>
          data'[Dst] = data[Dst] \/ data'[Dst] = job.ver \/ data'[Dst] = Torn
    BY <1>1, <1>2, <2>1, <2>2 DEF FilesOK
  <2> QED  BY <1>6, <2>1, <2>3 DEF Whole, Torn, First
<1>22. CASE Restore
  <2>1. CASE ~Fail("IO")
    <3>1. /\ pc = "restore" /\ pc' = "restoring" /\ Dst # Nil /\ data'[Dst] = Torn
          /\ job'.ver = job.ver /\ job'.check = job.check /\ Dst' = Dst
          /\ meta' = meta /\ chk' = chk
      BY <1>1, <1>2, <1>22, <2>1 DEF Restore, Write, FilesOK, Dst, JobType, checks
    <3> QED  BY <1>6, <3>1 DEF Whole, Torn, First
  <2> QED  BY <1>5, <2>1
<1>23. CASE Meddle
  <2>1. UNCHANGED <<pc, job, meta, chk>> /\ tick' = tick + 1
    BY <1>23 DEF Meddle, editor
  <2>2. Dst' # Nil => data'[Dst'] = tick' \/ (Dst' = Dst /\ data'[Dst] = data[Dst])
    BY <1>1, <1>2, <1>8, <1>23 DEF Meddle, FilesOK, Dst
  <2>3. pc = "ipwrite" => data'[job.fd] = tick' \/ data'[job.fd] = data[job.fd]
    BY <1>1, <1>2, <1>23, FreshIs DEF Meddle, FilesOK, WriteLabels, OwnLabels
  <2>4. pc = "ipwrite" => Accounted(job.fd)
    BY DEF NothingLost
  <2> QED  BY <1>1, <1>2, <2>1, <2>2, <2>3, <2>4 DEF Accounted
<1> QED  BY <1>9, <1>10, <1>11, <1>12, <1>13, <1>14, <1>15, <1>16, <1>17, <1>18, <1>19,
            <1>20, <1>21, <1>22, <1>23 DEF Next, Save

-----------------------------------------------------------------------------
(* A save that succeeds has left its text, and nothing else, on the disk. *)

LEMMA LandedStep ==
  ASSUME Before, Sure, Temporary, Landed, Next PROVE Landed'
<1>1. FilesOK /\ EditorOK /\ Apart /\ job \in JobType
  BY DEF Before, EditorOK
<1>2. /\ pc \in WriteLabels => job.fd \in Inode
      /\ Dst \in Inode \cup {Nil} /\ "dst" \in Name /\ "tmp" \in Name /\ "tmp" # "dst"
  BY <1>1, FdIs, DstIs, NameIs
<1> DEFINE Others == {"idle", "opentemp", "writetemp", "synctemp", "recheck", "rename",
                      "create", "bakopen", "bakcopy", "baklink", "baksync", "ipopen",
                      "restore", "restoring"}
<1>3. ASSUME pc' \in Others PROVE Landed'
  BY <1>3 DEF Landed, NewLabels
<1>4. ASSUME Fail("IO") \/ Fail("CHANGED") PROVE Landed'
  BY <1>3, <1>4 DEF Fail, Return
<1>5. CASE SomeSave
  <2>1. pc' \in {"idle", "bakopen", "create", "opentemp"}
    BY <1>5 DEF SomeSave, FileSave, Enter, Inplace
  <2> QED  BY <1>3, <2>1
<1>6. CASE OpenTemp \/ WriteTemp \/ SyncTemp \/ Recheck
  <2>1. pc' \in Others
    BY <1>6 DEF OpenTemp, WriteTemp, SyncTemp, Recheck, Goto, Sealed, Inplace, Fail, Return
  <2> QED  BY <1>3, <2>1
<1>7. CASE SyncDir \/ SyncNewDir \/ BakOpen \/ BakCopy \/ BakLink \/ BakSync
  <2>1. pc' \in Others
    BY <1>7
    DEF SyncDir, SyncNewDir, BakOpen, BakCopy, BakLink, BakSync, Uncreate, Goto, Fail,
        Commit, Return
  <2> QED  BY <1>3, <2>1
<1>8. CASE Restore \/ Restoring \/ Rotate \/ Reload \/ Pin \/ Unpin \/ Crash
  <2>1. pc' \in Others
    BY <1>8
    DEF Restore, Restoring, Rotate, Reload, Pin, Unpin, Crash, Fail, Commit, Return
  <2> QED  BY <1>3, <2>1
<1>9. CASE Rename
  <2>1. CASE /\ name' = [name EXCEPT !["dst"] = job.fd, !["tmp"] = Nil]
             /\ Goto("syncdir") /\ UNCHANGED <<data, pdata>>
    <3>1. Dst' = job.fd /\ pc' = "syncdir" /\ job' = job
      BY <1>1, <1>2, <2>1 DEF Dst, Goto, FilesOK
    <3>2. pdata[job.fd] = {job.ver} /\ data[job.fd] = job.ver
      BY <1>2, <1>9 DEF Rename, Temporary, Sure, WriteLabels, TempLabels
    <3> QED  BY <2>1, <3>1, <3>2 DEF Landed, NewLabels
  <2>2. CASE Goto(Inplace(job.acc)) \/ Fail("IO")
    BY <1>3, <1>4, <2>2 DEF Goto, Inplace
  <2> QED  BY <1>9, <2>1, <2>2 DEF Rename
<1>10. CASE Create
  <2>1. CASE ~Fail("IO")
    <3>1. PICK i \in Fresh : Bind("dst", i) /\ job' = [job EXCEPT !.fd = i] /\ pc' = "fill"
      BY <1>10, <2>1 DEF Create
    <3>2. Dst' = i /\ job'.fd = i
      BY <1>1, <1>2, <3>1 DEF Bind, Dst, FilesOK, JobType
    <3> QED  BY <3>1, <3>2 DEF Landed, NewLabels
  <2> QED  BY <1>4, <2>1
<1>11. CASE Fill
  <2>1. CASE ~Fail("IO")
    <3>1. /\ pc = "fill" /\ pc' = "syncnew" /\ job' = job /\ late' = late /\ Dst' = Dst
          /\ data'[job.fd] = job.ver
      BY <1>1, <1>2, <1>11, <2>1
      DEF Fill, Uncreate, Goto, Dst, FilesOK, checks, WriteLabels, NewLabels
    <3> QED  BY <3>1 DEF Landed, NewLabels
  <2> QED  BY <1>4, <2>1
<1>12. CASE SyncNew \/ IpSync
  <2>1. CASE pc' = "idle" \/ pc' = "restore"
    BY <1>3, <2>1
  <2>2. CASE ~(pc' = "idle" \/ pc' = "restore")
    <3>1. /\ pc \in {"syncnew", "ipsync"} /\ pc' \in {"syncnewdir", "rotate"}
          /\ job'.fd = job.fd /\ job'.ver = job.ver /\ late' = late /\ Dst' = Dst
          /\ Fsync(job.fd)
      BY <1>1, <1>12, <2>2
      DEF SyncNew, IpSync, Uncreate, Fail, Return, Goto, Sealed, Dst, checks, JobType
    <3>2. pdata'[job.fd] = {data[job.fd]}
      BY <1>1, <1>2, <3>1 DEF Fsync, FilesOK, WriteLabels, NewLabels, OwnLabels
    <3> QED  BY <3>1, <3>2 DEF Landed, NewLabels
  <2> QED  BY <2>1, <2>2
<1>13. CASE IpOpen
  <2>1. CASE ~(Fail("IO") \/ Fail("CHANGED"))
    <3>1. pc' = "ipwrite" /\ job'.fd = Dst /\ Dst' = Dst
      BY <1>1, <1>13, <2>1 DEF IpOpen, JobType, Dst, fs
    <3> QED  BY <3>1 DEF Landed, NewLabels
  <2> QED  BY <1>4, <2>1
<1>14. CASE IpWrite \/ IpRest
  <2>1. CASE pc' = "restore"
    BY <1>3, <2>1
  <2>2. CASE pc' # "restore"
    <3>1. /\ pc \in {"ipwrite", "iprest"} /\ job' = job /\ late' = late /\ Dst' = Dst
          /\ \/ pc' = "iprest"
             \/ pc' = "ipsync" /\ data' = [data EXCEPT ![job.fd] = job.ver]
      BY <1>14, <2>2 DEF IpWrite, IpRest, Goto, Dst, checks
    <3>2. pc' = "ipsync" => data'[job.fd] = job.ver
      BY <1>1, <1>2, <3>1 DEF FilesOK, WriteLabels, OwnLabels
    <3> QED  BY <3>1, <3>2 DEF Landed, NewLabels
  <2> QED  BY <2>1, <2>2
<1>15. CASE Meddle
  <2>1. pc' = pc /\ late' = TRUE
    BY <1>15 DEF Meddle, editor
  <2>2. CASE pc = "syncdir"
    <3>1. Dst # Nil => pdata[Dst] = {data[Dst]}
      BY <2>2 DEF Landed
    <3>2. \A i \in Fresh : i \in Inode
      BY FreshIs
    <3>3. Dst' # Nil => pdata'[Dst'] = {data'[Dst']}
      BY <1>1, <1>2, <1>15, <3>1, <3>2 DEF Meddle, FilesOK, Dst
    <3> QED  BY <2>1, <3>3 DEF Landed
  <2>3. CASE pc # "syncdir"
    BY <2>1, <2>3 DEF Landed
  <2> QED  BY <2>2, <2>3
<1> QED  BY <1>5, <1>6, <1>7, <1>8, <1>9, <1>10, <1>11, <1>12, <1>13, <1>14, <1>15
         DEF Next, Save

-----------------------------------------------------------------------------
(* Hard links: the journal's, when there is one, and the user's. *)

LEMMA NoOtherLink ==
  ASSUME FilesOK, ~NeedsInplace(job.acc), Discounted PROVE Dst \notin twins
<1> DEFINE Links == {n \in Name : name[n] = Dst}
           Own   == IF job.acc.pinned THEN {"dst"} \cup {"jbase"} ELSE {} \cup {"dst"}
<1>1. CASE Dst = Nil
  BY <1>1, NilIsNoInode DEF FilesOK
<1>2. CASE Dst # Nil
  <2>1. IsFiniteSet(Name)
    <3>1. IsFiniteSet({}) /\ Name = {"dst", "tmp", "jbase", "pend0", "pend1", "base"}
      BY FS_EmptySet DEF Name, Backups, Pendings
    <3>2. \A S, x : IsFiniteSet(S) => IsFiniteSet(S \cup {x})
      BY FS_AddElement
    <3>3. IsFiniteSet({} \cup {"dst"} \cup {"tmp"} \cup {"jbase"} \cup {"pend0"}
                         \cup {"pend1"} \cup {"base"})
      BY <3>1, <3>2
    <3> QED  BY <3>1, <3>3
  <2>2. IsFiniteSet(Links) /\ Own \subseteq Links
    BY <2>1, FS_Subset, NameIs DEF Dst, Discounted
  <2>3. Cardinality(Links) \in Nat /\ Cardinality(Own) <= Cardinality(Links)
    <3> HIDE DEF Links, Own
    <3> QED  BY <2>2, FS_CardinalityType, FS_Subset
  <2>4. Cardinality(Own) = IF job.acc.pinned THEN 2 ELSE 1
    <3>1. Cardinality({}) = 0 /\ IsFiniteSet({})
      BY FS_EmptySet
    <3>2. \A S, x : IsFiniteSet(S) /\ x \notin S =>
            Cardinality(S \cup {x}) = Cardinality(S) + 1 /\ IsFiniteSet(S \cup {x})
      BY FS_AddElement
    <3>3. Cardinality({} \cup {"dst"}) = 0 + 1 /\ IsFiniteSet({} \cup {"dst"})
      <4>1. "dst" \notin {}
        OBVIOUS
      <4> QED  BY <3>1, <3>2, <4>1
    <3>4. {} \cup {"dst"} = {"dst"} /\ "jbase" \notin {"dst"}
      OBVIOUS
    <3>5. Cardinality({"dst"} \cup {"jbase"}) = 1 + 1
      BY <3>2, <3>3, <3>4
    <3> QED  BY <3>3, <3>4, <3>5
  <2>5. ~(Nlink(Dst) > (IF job.acc.pinned THEN 2 ELSE 1))
    BY <1>2 DEF NeedsInplace
  <2>6. Nlink(Dst) = Cardinality(Links) + (IF Dst \in twins THEN 1 ELSE 0)
    BY DEF Nlink
  <2> HIDE DEF Links, Own
  <2> QED  BY <2>3, <2>4, <2>5, <2>6
<1> QED  BY <1>1, <1>2

LEMMA LinkedStep ==
  ASSUME Before, Linked, Next PROVE Linked'
<1>1. FilesOK /\ EditorOK /\ severed = {}
  BY DEF Before, Linked
<1>3. severed' = {}
  <2>1. CASE Rename
    <3>1. pc = "rename" /\ severed' \in
            {severed, IF job.strategy # "atomic" /\ ~late /\ Discounted
                      THEN severed \cup ({Dst} \cap twins) ELSE severed}
      BY <2>1 DEF Rename
    <3>2. job.strategy # "atomic" /\ ~late /\ Discounted => Dst \notin twins
      BY <3>1 DEF Linked
    <3> QED  BY <1>1, <3>1, <3>2
  <2>2. CASE ~Rename
    BY <1>1, <2>2
    DEF Next, Save, SomeSave, FileSave, OpenTemp, WriteTemp, SyncTemp, Recheck, SyncDir,
        Create, Fill, SyncNew, SyncNewDir, BakOpen, BakCopy, BakLink, BakSync, IpOpen,
        IpWrite, IpRest, IpSync, Restore, Restoring, Rotate, Reload, Pin, Unpin, Meddle,
        Crash, losses
  <2> QED  BY <2>1, <2>2
<1>4. (pc = "rename" /\ job.strategy # "atomic" /\ ~late /\ Discounted =>
         Dst \notin twins)'
  <2>1. CASE Recheck
    <3>1. CASE pc' = "rename"
      <4>1. /\ ~(NeedsInplace(job.acc) /\ job.strategy # "atomic") /\ UNCHANGED fs
            /\ job' = [job EXCEPT !.acc = Accept(@)]
        BY <2>1, <3>1 DEF Recheck, Fail, Return, Inplace
      <4>2. job'.strategy = job.strategy /\ Dst' = Dst /\ twins' = twins
        BY <1>1, <4>1 DEF EditorOK, JobType, Dst, fs
      <4>3. job.acc \in MetaType /\ job'.acc = Accept(job.acc)
        BY <1>1, <4>1, JobParts DEF EditorOK, JobType
      <4>4. job'.acc.pinned = job.acc.pinned
        BY <4>3 DEF Accept, MetaType
      <4>5. Discounted' => Discounted
        BY <4>1, <4>2, <4>4 DEF Discounted, fs
      <4> QED  BY <1>1, <4>1, <4>2, <4>5, NoOtherLink
    <3> QED  BY <3>1
  <2>2. CASE Meddle
    BY <2>2 DEF Meddle
  <2>3. CASE ~(Recheck \/ Meddle)
    <3>1. CASE SomeSave \/ Reload \/ Pin \/ Unpin \/ Crash
      BY <3>1 DEF SomeSave, FileSave, Enter, Inplace, Reload, Pin, Unpin, Crash
    <3>2. CASE OpenTemp \/ WriteTemp \/ SyncTemp \/ Rename \/ SyncDir \/ Create \/ Fill
      BY <3>2
      DEF OpenTemp, WriteTemp, SyncTemp, Rename, SyncDir, Create, Fill, Inplace, Uncreate,
          Goto, Sealed, Fail, Commit, Return
    <3>3. CASE SyncNew \/ SyncNewDir \/ BakOpen \/ BakCopy \/ BakLink \/ BakSync \/ IpOpen
      BY <3>3
      DEF SyncNew, SyncNewDir, BakOpen, BakCopy, BakLink, BakSync, IpOpen, Uncreate, Goto,
          Sealed, Fail, Commit, Return
    <3>4. CASE IpWrite \/ IpRest \/ IpSync \/ Restore \/ Restoring \/ Rotate
      BY <3>4
      DEF IpWrite, IpRest, IpSync, Restore, Restoring, Rotate, Goto, Sealed, Fail, Commit,
          Return
    <3> QED  BY <2>3, <3>1, <3>2, <3>3, <3>4 DEF Next, Save
  <2> QED  BY <2>1, <2>2, <2>3
<1> QED  BY <1>3, <1>4 DEF Linked

-----------------------------------------------------------------------------
(* A torn destination has a whole backup. *)

(* Where torn bytes come from. *)
LEMMA TornComes ==
  ASSUME Before, Sure, Next, NEW i \in Inode, Torn \in pdata'[i], Torn \notin pdata[i]
  PROVE  \/ IpWrite /\ i = job.fd
         \/ Restore /\ i = Dst
         \/ Restoring /\ i = job.fd /\ data[name[job.pend]] = Torn
         \/ BakCopy /\ i \in Fresh
<1>1. /\ FilesOK /\ EditorOK /\ Apart /\ Progress /\ tick \in Nat
      /\ \A j \in Inode : data[j] \in pdata[j]
  BY DEF Before, Sure, FilesOK
<1>2. /\ pc \in WriteLabels => job.fd \in Inode
      /\ pc # "idle" => job.ver # Torn
      /\ Stub # Torn /\ tick + 1 # Torn
      /\ \A j \in Fresh : j \in Inode
      /\ Dst # Nil => Dst \in Inode
  BY <1>1, FdIs, FreshIs, DstIs DEF Progress, Whole, First, Torn, Stub
<1>3. pdata'[i] # pdata[i]
  OBVIOUS
<1>4. ASSUME UNCHANGED pdata PROVE FALSE
  BY <1>3, <1>4
<1>5. ASSUME NEW c, c # Torn,
             \/ pdata' = [pdata EXCEPT ![job.fd] = @ \cup {c}]
             \/ \E j \in Inode : pdata' = [pdata EXCEPT ![j] = {c}]
      PROVE  FALSE
  BY <1>1, <1>5 DEF FilesOK
<1>6. CASE SomeSave \/ Recheck \/ Rename \/ SyncDir \/ SyncNewDir \/ BakOpen \/ BakLink
  BY <1>4, <1>6
  DEF SomeSave, FileSave, Recheck, Rename, SyncDir, SyncNewDir, BakOpen, BakLink,
      DropTemp, Uncreate, fs
<1>7. CASE BakSync \/ IpOpen \/ Rotate \/ Reload \/ Pin \/ Unpin
  BY <1>4, <1>7 DEF BakSync, IpOpen, Rotate, Reload, Pin, Unpin, DropPending, fs
<1>8. CASE OpenTemp \/ Create
  BY <1>2, <1>4, <1>5, <1>8 DEF OpenTemp, Create, fs
<1>9. CASE WriteTemp \/ Fill \/ IpRest
  BY <1>2, <1>4, <1>5, <1>9 DEF WriteTemp, Fill, IpRest, DropTemp, Uncreate, fs
<1>10. CASE SyncTemp \/ SyncNew \/ IpSync
  <2>1. CASE Fsync(job.fd)
    <3>1. job.fd \in Inode
      BY <1>2, <1>10
      DEF SyncTemp, SyncNew, IpSync, WriteLabels, TempLabels, NewLabels, OwnLabels
    <3> QED  BY <1>1, <2>1, <3>1 DEF Fsync, FilesOK
  <2>2. CASE ~Fsync(job.fd)
    BY <1>4, <1>10, <2>2 DEF SyncTemp, SyncNew, IpSync, DropTemp, Uncreate, fs
  <2> QED  BY <2>1, <2>2
<1>11. CASE BakCopy
  BY <1>1, <1>4, <1>11 DEF BakCopy, FilesOK, fs
<1>12. CASE IpWrite
  BY <1>1, <1>4, <1>12 DEF IpWrite, Write, FilesOK, fs
<1>13. CASE Restore
  BY <1>1, <1>4, <1>13 DEF Restore, Write, FilesOK, fs
<1>14. CASE Restoring
  BY <1>1, <1>4, <1>14 DEF Restoring, FilesOK, fs
<1>15. CASE Meddle
  BY <1>1, <1>2, <1>4, <1>5, <1>15 DEF Meddle
<1>16. CASE Crash
  BY <1>1, <1>4, <1>16, CrashLeaves
<1> QED  BY <1>6, <1>7, <1>8, <1>9, <1>10, <1>11, <1>12, <1>13, <1>14, <1>15, <1>16
         DEF Next, Save

(* What the file's name may come to be bound to. *)
LEMMA DstComes ==
  ASSUME Before, Sure, Next, NEW i \in Inode, i \in pname'["dst"], i \notin pname["dst"]
  PROVE  \/ Rename /\ i = job.fd /\ pdata'[i] = pdata[i]
         \/ i \in Fresh /\ Torn \notin pdata'[i]
<1>1. /\ FilesOK /\ EditorOK /\ tick \in Nat /\ i # Nil
      /\ \A n \in Name : name[n] \in pname[n]
  BY NilIsNoInode DEF Before, Sure, FilesOK
<1>2. /\ job.pend \in Name /\ job.pend # "dst" /\ "dst" \in Name /\ "tmp" \in Name
      /\ "jbase" \in Name /\ "dst" \notin Backups /\ "base" # "dst" /\ "tmp" # "dst"
      /\ Stub # Torn /\ tick + 1 # Torn
  BY <1>1, JobParts, NameIs DEF EditorOK, Torn, Stub
<1>3. ASSUME pname'["dst"] = pname["dst"] PROVE FALSE
  BY <1>3
<1>4. ASSUME NEW ns, UnlinkSync(ns) PROVE FALSE
  BY <1>1, <1>2, <1>4 DEF UnlinkSync
<1>5. CASE SomeSave \/ WriteTemp \/ SyncTemp \/ Recheck \/ Fill \/ SyncNew \/ BakOpen
  BY <1>3, <1>4, <1>5
  DEF SomeSave, FileSave, WriteTemp, SyncTemp, Recheck, Fill, SyncNew, BakOpen, DropTemp,
      Uncreate, fs
<1>6. CASE BakCopy \/ IpOpen \/ IpWrite \/ IpRest \/ IpSync \/ Restore \/ Restoring
  BY <1>3, <1>4, <1>6
  DEF BakCopy, IpOpen, IpWrite, IpRest, IpSync, Restore, Restoring, DropPending, fs
<1>7. CASE OpenTemp \/ BakLink
  BY <1>1, <1>2, <1>3, <1>7 DEF OpenTemp, BakLink, Bind, FilesOK, fs
<1>8. CASE Rename
  BY <1>1, <1>2, <1>3, <1>4, <1>8 DEF Rename, DropTemp, FilesOK
<1>9. CASE SyncDir \/ SyncNewDir \/ BakSync
  BY <1>1, <1>2, <1>3, <1>4, <1>9
  DEF SyncDir, SyncNewDir, BakSync, FsyncDir, Uncreate, fs
<1>10. CASE Create
  BY <1>1, <1>2, <1>3, <1>10, FreshIs DEF Create, Bind, FilesOK, fs
<1>11. CASE Rotate
  <2>1. CASE UNCHANGED fs \/ DropPending
    BY <1>3, <1>4, <2>1 DEF DropPending, fs
  <2>2. CASE ~(UNCHANGED fs \/ DropPending)
    <3>1. name'["dst"] = name["dst"]
      BY <1>1, <1>2, <1>11, <2>2 DEF Rotate, FilesOK
    <3>2. pname'["dst"] = pname["dst"] \/ pname'["dst"] = pname["dst"] \cup {name["dst"]}
      BY <1>2, <1>11, <2>2, <3>1 DEF Rotate
    <3> QED  BY <1>1, <1>2, <3>2
  <2> QED  BY <2>1, <2>2
<1>12. CASE Reload \/ Pin \/ Unpin
  BY <1>1, <1>2, <1>3, <1>12 DEF Reload, Pin, Unpin, FilesOK
<1>13. CASE Meddle
  BY <1>1, <1>2, <1>3, <1>13, FreshIs DEF Meddle, FilesOK
<1>14. CASE Crash
  BY <1>1, <1>2, <1>3, <1>14, CrashLeaves
<1> QED  BY <1>5, <1>6, <1>7, <1>8, <1>9, <1>10, <1>11, <1>12, <1>13, <1>14
         DEF Next, Save

(* No step takes away or tears a sound pending backup, but its own save. *)
LEMMA PendingNames ==
  ASSUME Before, Sure, Next, NEW n \in Pendings, Nil \notin pname[n],
         pc \in CopyLabels \ {"baklink"} => n # job.pend
  PROVE  pname'[n] \subseteq pname[n]
<1>1. /\ FilesOK /\ EditorOK /\ \A m \in Name : name[m] \in pname[m]
  BY DEF Before, Sure
<1>2. /\ job.pend \in Name /\ n \in Name /\ "dst" \in Name /\ "tmp" \in Name
      /\ "jbase" \in Name /\ n \in Backups
      /\ n # "dst" /\ n # "tmp" /\ n # "jbase" /\ n # "base" /\ n \notin DstDir
  BY <1>1, JobParts, NameIs DEF EditorOK, DstDir
<1>3. ASSUME UNCHANGED pname PROVE pname'[n] \subseteq pname[n]
  BY <1>3
<1>4. ASSUME NEW ns, n \notin ns, UnlinkSync(ns) PROVE pname'[n] \subseteq pname[n]
  BY <1>2, <1>4 DEF UnlinkSync
<1>5. ASSUME DropTemp \/ Uncreate PROVE pname'[n] \subseteq pname[n]
  BY <1>2, <1>4, <1>5 DEF DropTemp, Uncreate
<1>6. ASSUME DropPending, n # job.pend PROVE pname'[n] \subseteq pname[n]
  BY <1>2, <1>4, <1>6 DEF DropPending
<1>7. CASE SomeSave \/ BakOpen \/ BakCopy \/ IpWrite \/ IpRest \/ IpSync \/ Restore
  BY <1>3, <1>7
  DEF SomeSave, FileSave, BakOpen, BakCopy, IpWrite, IpRest, IpSync, Restore, fs
<1>8. CASE WriteTemp \/ SyncTemp \/ Recheck \/ Fill \/ SyncNew
  BY <1>3, <1>5, <1>8 DEF WriteTemp, SyncTemp, Recheck, Fill, SyncNew, fs
<1>9. CASE OpenTemp \/ Create \/ Rename
  BY <1>1, <1>2, <1>3, <1>5, <1>9 DEF OpenTemp, Create, Rename, Bind, FilesOK, fs
<1>10. CASE SyncDir \/ SyncNewDir \/ BakSync
  BY <1>1, <1>2, <1>3, <1>5, <1>10 DEF SyncDir, SyncNewDir, BakSync, FsyncDir, fs
<1>11. CASE BakLink
  BY <1>1, <1>2, <1>3, <1>11 DEF BakLink, Bind, FilesOK, fs
<1>12. CASE IpOpen \/ Restoring
  <2>1. n # job.pend
    BY <1>12 DEF IpOpen, Restoring, CopyLabels, OwnLabels
  <2> QED  BY <1>3, <1>4, <1>6, <1>12, <2>1 DEF IpOpen, Restoring, fs
<1>13. CASE Rotate
  <2>1. n # job.pend
    BY <1>13 DEF Rotate, CopyLabels, OwnLabels
  <2>2. CASE UNCHANGED fs \/ DropPending
    BY <1>3, <1>6, <2>1, <2>2 DEF fs
  <2>3. CASE ~(UNCHANGED fs \/ DropPending)
    <3>1. name'[n] = name[n]
      BY <1>1, <1>2, <1>13, <2>1, <2>3 DEF Rotate, FilesOK
    <3>2. pname'[n] = {name'[n]} \/ pname'[n] = pname[n] \cup {name'[n]}
      BY <1>2, <1>13, <2>3 DEF Rotate
    <3> QED  BY <1>1, <1>2, <3>1, <3>2
  <2> QED  BY <2>2, <2>3
<1>14. CASE Reload \/ Pin \/ Unpin
  BY <1>1, <1>2, <1>14 DEF Reload, Pin, Unpin, FilesOK
<1>15. CASE Meddle
  BY <1>1, <1>2, <1>3, <1>15 DEF Meddle, FilesOK
<1>16. CASE Crash
  BY <1>1, <1>2, <1>3, <1>16, CrashLeaves
<1> QED  BY <1>7, <1>8, <1>9, <1>10, <1>11, <1>12, <1>13, <1>14, <1>15, <1>16
         DEF Next, Save

LEMMA SoundKept ==
  ASSUME Before, Sure, Next, NEW n \in Pendings, Sound(n),
         pc \in CopyLabels \ {"baklink"} => n # job.pend
  PROVE  Sound(n)'
<1>1. /\ pname'[n] \subseteq pname[n] /\ n \in Backups /\ n \in Name
      /\ pname[n] \subseteq Inode \cup {Nil}
  BY PendingNames, NameIs DEF Sound, Before, FilesOK
<1>2. SUFFICES ASSUME NEW j \in pname'[n], Torn \in pdata'[j] PROVE FALSE
  BY <1>1 DEF Sound
<1>3. j \in pname[n] /\ j \in Inode /\ Torn \notin pdata[j]
  BY <1>1, <1>2 DEF Sound
<1>4. j \notin Fresh /\ j \notin pname["dst"]
  BY <1>1, <1>3, FreshIs, NilIsNoInode DEF Before, Apart, Disjoint
<1>5. j # Dst
  BY <1>4, NameIs DEF Sure, Dst
<1>6. pc \in WriteLabels => j # job.fd
  BY <1>1, <1>3 DEF Before, Apart, FdApart
<1> QED  BY <1>2, <1>3, <1>4, <1>5, <1>6, TornComes
         DEF IpWrite, Restoring, WriteLabels, OwnLabels

(* The name a save links its copy to is a free one. *)
LEMMA PendingTaken ==
  ASSUME Before, Sure, Next, pc' \in CopyLabels \ {"baklink"},
         NEW n \in Pendings, Sound(n), pc \in CopyLabels \ {"baklink"} => n # job.pend
  PROVE  n # job'.pend
<1>1. job \in JobType /\ n \in Name
  BY NameIs DEF Before, EditorOK
<1>2. ASSUME pc' \in {"idle", "opentemp", "writetemp", "synctemp", "recheck", "rename",
                      "syncdir", "create", "fill", "syncnew", "syncnewdir", "bakopen",
                      "bakcopy", "baklink"}
      PROVE  FALSE
  BY <1>2 DEF CopyLabels, OwnLabels
<1>3. CASE SomeSave \/ Reload \/ Pin \/ Unpin \/ Crash
  <2>1. CASE SomeSave
    <3>1. pc' \in {"idle", "bakopen", "create", "opentemp"}
      BY <2>1 DEF SomeSave, FileSave, Enter, Inplace
    <3> QED  BY <1>2, <3>1
  <2>2. CASE Reload \/ Pin \/ Unpin \/ Crash
    BY <1>2, <2>2 DEF Reload, Pin, Unpin, Crash
  <2> QED  BY <1>3, <2>1, <2>2
<1>4. CASE OpenTemp \/ WriteTemp \/ SyncTemp \/ Recheck \/ Rename \/ SyncDir
  BY <1>2, <1>4
  DEF OpenTemp, WriteTemp, SyncTemp, Recheck, Rename, SyncDir, Inplace, Goto, Sealed,
      Fail, Commit, Return
<1>5. CASE Create \/ Fill \/ SyncNew \/ SyncNewDir \/ BakOpen \/ BakCopy \/ Restoring
  BY <1>2, <1>5
  DEF Create, Fill, SyncNew, SyncNewDir, BakOpen, BakCopy, Restoring, Uncreate, Goto,
      Sealed, Fail, Commit, Return
<1>6. CASE BakLink
  <2>1. job' = job /\ name[job.pend] = Nil
    BY <1>2, <1>6 DEF BakLink, Goto, Fail, Return
  <2> QED  BY <1>1, <2>1 DEF Sure, Sound
<1>7. CASE BakSync \/ IpOpen \/ IpWrite \/ IpRest \/ IpSync \/ Restore \/ Rotate
  <2>1. pc \in CopyLabels \ {"baklink"}
    BY <1>7
    DEF BakSync, IpOpen, IpWrite, IpRest, IpSync, Restore, Rotate, CopyLabels, OwnLabels
  <2>2. job'.pend = job.pend
    BY <1>1, <1>2, <1>7
    DEF BakSync, IpOpen, IpWrite, IpRest, IpSync, Restore, Rotate, Goto, Sealed, Fail,
        Commit, Return, JobType
  <2> QED  BY <2>1, <2>2
<1>8. CASE Meddle
  BY <1>8 DEF Meddle, editor
<1> QED  BY <1>3, <1>4, <1>5, <1>6, <1>7, <1>8 DEF Next, Save

LEMMA ElsewhereKept ==
  ASSUME Before, Sure, Next, Elsewhere PROVE Elsewhere'
<1>1. PICK n \in Pendings :
        Sound(n) /\ (pc \in CopyLabels \ {"baklink"} => n # job.pend)
  BY DEF Elsewhere
<1>2. Sound(n)'
  BY <1>1, SoundKept
<1>3. (pc \in CopyLabels \ {"baklink"} => n # job.pend)'
  BY <1>1, PendingTaken
<1> QED  BY <1>2, <1>3 DEF Elsewhere

LEMMA CopySound ==
  ASSUME EditorOK, CopyApart, pc \in OwnLabels, data[Copy] # Torn PROVE Sound(job.pend)
<1>1. pname[job.pend] = {Copy} /\ Copy # Nil /\ pdata[Copy] = {data[Copy]}
  BY DEF CopyApart, CopyLabels, OwnLabels
<1> QED  BY <1>1 DEF Sound

LEMMA ShelteredStep ==
  ASSUME Before, Sure, Temporary, Written, Copied, Copied', Sheltered, blind \subseteq
         {v \in Nat : v >= First}, Next
  PROVE  Sheltered'
<1>1. /\ FilesOK /\ EditorOK /\ Apart /\ FdApart /\ CopyApart /\ Progress
      /\ job \in JobType /\ (Dst # Nil => Dst \in Inode)
      /\ pname["dst"] \subseteq Inode \cup {Nil}
      /\ pname'["dst"] \subseteq Inode \cup {Nil}
  <2>1. FilesOK'
    BY TypedStep DEF Typed
  <2> QED  BY <2>1, DstIs, NameIs DEF Before, Apart, EditorOK, FilesOK
<1>2. pc \in WriteLabels => job.fd \in Inode
  BY <1>1, FdIs
<1>3. CASE Elsewhere
  BY <1>3, ElsewhereKept DEF Sheltered
<1>4. CASE ~Elsewhere
  <2>1. pc \in Overwriting => data[Copy] # Torn /\ Sound(job.pend)
    BY <1>1, <1>4, CopySound DEF Sheltered, Overwriting, OwnLabels
  <2>2. \A i \in pname["dst"] \ {Nil} : Torn \in pdata[i] =>
          pc \in Overwriting /\ i = job.fd
    BY <1>4 DEF Sheltered
  <2>3. \A i \in Fresh : i \in Inode /\ i \notin pname["dst"]
    BY FreshIs, NameIs
  (* What may be torn after the step. *)
  <2>4. ASSUME NEW i \in pname'["dst"] \ {Nil}, Torn \in pdata'[i]
        PROVE  \/ pc \in Overwriting /\ i = job.fd /\ i \in pname["dst"]
               \/ Restore /\ i = Dst
    <3>1. i \in Inode
      BY <1>1, <2>4
    <3>2. CASE i \in pname["dst"]
      <4>1. CASE Torn \in pdata[i]
        BY <2>2, <2>4, <3>2, <4>1
      <4>2. CASE Torn \notin pdata[i]
        <5>1. \/ IpWrite /\ i = job.fd
              \/ Restore /\ i = Dst
              \/ Restoring /\ i = job.fd /\ data[name[job.pend]] = Torn
          BY <2>3, <2>4, <3>1, <3>2, <4>2, TornComes
        <5> QED  BY <3>2, <5>1 DEF IpWrite, Restoring, Overwriting
      <4> QED  BY <4>1, <4>2
    <3>3. CASE i \notin pname["dst"]
      <4>1. Rename /\ i = job.fd /\ pdata'[i] = pdata[i]
        BY <2>4, <3>1, <3>3, DstComes
      <4>2. pdata[i] = {job.ver} /\ job.ver # Torn
        BY <1>1, <4>1 DEF Rename, Temporary, Progress, Whole, Torn, First
      <4> QED  BY <2>4, <4>1, <4>2
    <3> QED  BY <3>2, <3>3
  (* A save that ends leaves the copy. *)
  <2>5. ASSUME pc \in Overwriting, pc' = "idle", Crash \/ UNCHANGED fs
        PROVE  Sheltered'
    <3>1. PICK n \in Pendings : n = job.pend
      BY <1>1, JobParts
    <3>2. n \in Name /\ Sound(n) /\ pname[n] \subseteq Inode \cup {Nil}
      BY <1>1, <2>1, <2>5, <3>1, NameIs DEF FilesOK
    <3>3. /\ pname'[n] \subseteq pname[n]
          /\ \A j \in pname[n] : pdata'[j] \subseteq pdata[j]
      <4>1. CASE UNCHANGED <<pdata, pname>>
        BY <4>1
      <4>2. CASE Crash /\ ~UNCHANGED <<pdata, pname>>
        <5>1. /\ \A i \in Inode : data'[i] \in pdata[i]
              /\ \A m \in Name : name'[m] \in pname[m]
              /\ pdata' = [i \in Inode |-> {data'[i]}]
              /\ pname' = [m \in Name |-> {name'[m]}]
          BY <1>1, <4>2, CrashLeaves
        <5>2. \A j \in pname[n] : j \in Inode
          BY <3>2 DEF Sound
        <5> QED  BY <3>2, <5>1, <5>2
      <4> QED  BY <2>5, <4>1, <4>2 DEF fs
    <3>4. Sound(n)'
      BY <3>2, <3>3 DEF Sound
    <3>5. Elsewhere'
      BY <2>5, <3>1, <3>4 DEF Elsewhere, CopyLabels, OwnLabels
    <3> QED  BY <2>5, <3>5 DEF Sheltered, Overwriting
  <2>6. CASE IpOpen
    <3>1. CASE pc' = "ipwrite"
      <4>1. /\ pc = "ipopen" /\ MetaMatches(job.acc) /\ UNCHANGED fs
            /\ job' = [job EXCEPT !.fd = Dst, !.old = data[Dst]]
        BY <2>6, <3>1 DEF IpOpen, Fail, Return
      <4>2. Dst # Nil /\ job'.old = data[Dst] /\ Copy' = name[job.pend]
        BY <1>1, <3>1, <4>1, MatchIs DEF JobType, Copy, fs
      <4>3. data'[Copy'] = data[Dst]
        BY <3>1, <4>2 DEF Copied, OwnLabels
      <4>4. data[Dst] # Torn
        BY <1>1, <2>2, <4>1, <4>2, NameIs DEF Sure, Dst, Overwriting
      <4>5. \A i \in pname'["dst"] \ {Nil} : Torn \notin pdata'[i]
        BY <2>2, <4>1 DEF fs, Overwriting
      <4> QED  BY <4>3, <4>4, <4>5 DEF Sheltered
    <3>2. CASE pc' # "ipwrite"
      <4>1. pc = "ipopen" /\ pc' = "idle"
        BY <2>6, <3>2 DEF IpOpen, Fail, Return
      <4>2. \A i \in pname'["dst"] \ {Nil} : Torn \notin pdata'[i]
        BY <2>4, <4>1, <2>6 DEF Overwriting, Restore
      <4> QED  BY <4>1, <4>2 DEF Sheltered, Overwriting
    <3> QED  BY <3>1, <3>2
  <2>7. CASE IpWrite \/ IpRest
    <3>1. /\ pc \in Overwriting /\ pc' \in Overwriting /\ job' = job /\ UNCHANGED name
          /\ pc \in OwnLabels
      BY <2>7 DEF IpWrite, IpRest, Goto, Overwriting, OwnLabels, fs
    <3>2. \A i \in Inode \ {job.fd} : data'[i] = data[i]
      BY <1>1, <2>7 DEF IpWrite, IpRest, Write, FilesOK, fs
    <3>3. Copy \in Inode \ {job.fd} /\ Copy = name[job.pend]
      BY <1>1, <3>1, CopyNotFd, CopyIs DEF CopyLabels
    <3>4. Copy' = Copy /\ data'[Copy] # Torn
      BY <2>1, <3>1, <3>2, <3>3 DEF Copy, Overwriting
    <3>5. ~Restore
      BY <2>7 DEF IpWrite, IpRest, Restore
    <3> QED  BY <2>4, <3>1, <3>4, <3>5 DEF Sheltered
  <2>8. CASE IpSync
    <3>1. CASE pc' = "restore"
      <4>1. pc \in Overwriting /\ job' = job /\ UNCHANGED fs /\ Copy' = Copy
        BY <2>8, <3>1 DEF IpSync, Goto, Sealed, Overwriting, fs, Copy
      <4> QED  BY <2>1, <2>2, <3>1, <4>1 DEF Sheltered, Overwriting, fs
    <3>2. CASE pc' # "restore"
      <4>1. pc = "ipsync" /\ pc' = "rotate" /\ Fsync(job.fd)
        BY <2>8, <3>2 DEF IpSync, Goto, Sealed
      <4>2. data[job.fd] # Torn
        BY <1>1, <4>1 DEF Written, Progress, Whole, First, Torn
      <4>3. pdata'[job.fd] = {data[job.fd]}
        BY <1>1, <1>2, <4>1 DEF Fsync, FilesOK, WriteLabels, OwnLabels
      <4>4. \A i \in pname'["dst"] \ {Nil} : Torn \notin pdata'[i]
        BY <2>4, <4>1, <4>2, <4>3 DEF Restore
      <4> QED  BY <4>1, <4>4 DEF Sheltered, Overwriting
    <3> QED  BY <3>1, <3>2
  <2>9. CASE Restore
    <3>1. CASE pc' = "idle"
      BY <2>5, <2>9, <3>1 DEF Restore, Overwriting
    <3>2. CASE pc' # "idle"
      <4>1. /\ pc = "restore" /\ pc' = "restoring" /\ Write(Dst, Torn, Torn) /\ Dst # Nil
            /\ job' = [job EXCEPT !.fd = Dst] /\ UNCHANGED <<name, pname>>
        BY <2>9, <3>2 DEF Restore, Fail, Return
      <4>2. job'.fd = Dst /\ job'.pend = job.pend
        BY <1>1, <4>1 DEF JobType
      <4>3. Copy \in Inode \ {Dst} /\ Copy = name[job.pend]
        BY <1>1, <4>1, CopyNotDst, CopyNotFd, CopyIs DEF CopyLabels, OwnLabels
      <4>4. Copy' = Copy /\ data'[Copy] # Torn
        BY <1>1, <2>1, <4>1, <4>2, <4>3 DEF Copy, Write, FilesOK, Overwriting
      <4>5. \A i \in pname'["dst"] \ {Nil} : Torn \in pdata'[i] => i = Dst
        BY <1>1, <2>4, <4>1 DEF FdApart, OwnLabels
      <4> QED  BY <4>1, <4>2, <4>4, <4>5 DEF Sheltered, Overwriting
    <3> QED  BY <3>1, <3>2
  <2>10. CASE Restoring
    <3>1. pc = "restoring" /\ pc' = "idle"
      BY <2>10 DEF Restoring, Fail, Return
    <3>2. CASE UNCHANGED fs
      BY <2>5, <3>1, <3>2 DEF Overwriting
    <3>3. CASE ~UNCHANGED fs
      <4>1. pdata' = [pdata EXCEPT ![job.fd] = {data[name[job.pend]]}]
        BY <2>10, <3>3 DEF Restoring
      <4>2. pdata'[job.fd] = {data[Copy]} /\ data[Copy] # Torn
        BY <1>1, <1>2, <2>1, <3>1, <4>1 DEF Copy, FilesOK, WriteLabels, OwnLabels, Overwriting
      <4>3. \A i \in pname'["dst"] \ {Nil} : Torn \notin pdata'[i]
        BY <2>4, <3>1, <4>2 DEF Restore
      <4> QED  BY <3>1, <4>3 DEF Sheltered, Overwriting
    <3> QED  BY <3>2, <3>3
  <2>11. CASE Meddle
    <3>1. UNCHANGED <<pc, job>>
      BY <2>11 DEF Meddle, editor
    <3>2. pc \in Overwriting => Copy' = Copy /\ data'[Copy] # Torn
      BY <2>1, <2>11, MeddleSpares DEF Overwriting, CopyLabels, OwnLabels
    <3>3. \A i \in pname'["dst"] \ {Nil} : Torn \in pdata'[i] =>
            pc \in Overwriting /\ i = job.fd
      <4>1. SUFFICES ASSUME Restore PROVE FALSE
        BY <2>4
      <4> QED  BY <2>11, <4>1 DEF Restore, Meddle, editor, Fail, Return
    <3> QED  BY <3>1, <3>2, <3>3 DEF Sheltered
  <2>12. CASE Crash
    <3>1. CASE pc \in Overwriting
      BY <2>5, <2>12, <3>1 DEF Crash
    <3>2. CASE pc \notin Overwriting
      <4>1. \A i \in pname'["dst"] \ {Nil} : Torn \notin pdata'[i]
        BY <2>4, <3>2 DEF Restore, Overwriting
      <4> QED  BY <2>12, <4>1 DEF Sheltered, Overwriting, Crash
    <3> QED  BY <3>1, <3>2
  <2>13. CASE ~(\/ IpOpen \/ IpWrite \/ IpRest \/ IpSync \/ Restore \/ Restoring
                \/ Meddle \/ Crash)
    <3>1. pc \notin Overwriting /\ pc' \notin Overwriting
      <4>1. CASE SomeSave
        <5>1. pc = "idle" /\ pc' \in {"idle", "bakopen", "create", "opentemp"}
          BY <4>1 DEF SomeSave, FileSave, Enter, Inplace
        <5> QED  BY <5>1 DEF Overwriting
      <4>2. CASE Reload \/ Pin \/ Unpin
        BY <4>2 DEF Reload, Pin, Unpin, Overwriting
      <4>3. CASE OpenTemp \/ WriteTemp \/ SyncTemp \/ Recheck \/ Rename \/ SyncDir
        BY <4>3
        DEF OpenTemp, WriteTemp, SyncTemp, Recheck, Rename, SyncDir, Inplace, Goto,
            Sealed, Fail, Commit, Return, Overwriting
      <4>4. CASE Create \/ Fill \/ SyncNew \/ SyncNewDir \/ Rotate
        BY <4>4
        DEF Create, Fill, SyncNew, SyncNewDir, Rotate, Uncreate, Goto, Sealed, Fail,
            Commit, Return, Overwriting
      <4>5. CASE BakOpen \/ BakCopy \/ BakLink \/ BakSync
        BY <4>5
        DEF BakOpen, BakCopy, BakLink, BakSync, Goto, Fail, Return, Overwriting
      <4> QED  BY <2>13, <4>1, <4>2, <4>3, <4>4, <4>5 DEF Next, Save
    <3>2. \A i \in pname'["dst"] \ {Nil} : Torn \notin pdata'[i]
      BY <2>4, <2>13, <3>1
    <3> QED  BY <3>1, <3>2 DEF Sheltered
  <2> QED  BY <2>6, <2>7, <2>8, <2>9, <2>10, <2>11, <2>12, <2>13
<1> QED  BY <1>3, <1>4

-----------------------------------------------------------------------------
(* The invariant holds at the start and is kept by every step. *)

LEMMA InitTyped ==
  ASSUME Init
  PROVE  /\ Typed
         /\ \A n \in Name \ {"dst"} : name[n] = Nil
         /\ \A n \in Name : pname[n] = {name[n]}
         /\ \A i \in Inode : pdata[i] = {data[i]} /\ data[i] # Torn
         /\ Dst # Nil => data[Dst] = First
<1>1. 1 \in Inode /\ Nil \notin Inode
  BY BoundsAssumption DEF Inode, Nil
<1>2. /\ name \in [Name -> Inode \cup {Nil}] /\ twins \in SUBSET Inode
      /\ \A n \in Name \ {"dst"} : name[n] = Nil
  BY <1>1 DEF Init
<1>3. Dst \in Inode \cup {Nil}
  BY <1>2, NameIs DEF Dst
<1>4. /\ pname \in [Name -> SUBSET (Inode \cup {Nil})]
      /\ \A n \in Name : pname[n] = {name[n]}
  BY <1>2 DEF Init
<1>5. /\ data \in [Inode -> Content] /\ pdata \in [Inode -> SUBSET Content]
      /\ mtime \in [Inode -> Nat] /\ tick \in Nat
      /\ \A i \in Inode : pdata[i] = {data[i]} /\ data[i] # Torn
      /\ Dst # Nil => data[Dst] = First
  BY <1>3 DEF Init, Content, First, Stub, Torn
<1>6. FilesOK
  BY <1>2, <1>4, <1>5 DEF FilesOK
<1>7. EditorOK
  BY <1>6, LoadedType, NoJobType DEF Init, EditorOK, Labels
<1>8. Histories
  BY DEF Init, Histories
<1> QED  BY <1>2, <1>4, <1>5, <1>6, <1>7, <1>8 DEF Typed

LEMMA InitInv == Init => SaveInv
<1> SUFFICES ASSUME Init PROVE SaveInv
  OBVIOUS
<1>1. /\ Typed /\ FilesOK /\ EditorOK
      /\ \A n \in Name \ {"dst"} : name[n] = Nil
      /\ \A n \in Name : pname[n] = {name[n]}
      /\ \A i \in Inode : pdata[i] = {data[i]} /\ data[i] # Torn
      /\ Dst # Nil => data[Dst] = First
      /\ Dst \in Inode \cup {Nil}
  BY InitTyped, DstIs DEF Typed
<1>2. /\ pc = "idle" /\ job = NoJob /\ meta = Loaded /\ chk = 0 /\ tick = First
      /\ late = FALSE /\ lost = {} /\ severed = {}
      /\ mtime = [i \in Inode |-> IF i = Dst THEN First ELSE 0]
  BY DEF Init
<1>3. /\ "jbase" \in Name /\ "jbase" # "dst" /\ "dst" \in Name
      /\ Pendings \subseteq Backups /\ Backups \subseteq Name /\ "dst" \notin Backups
  BY NameIs
<1>4. Clock
  BY <1>1, <1>2, LoadedHas, NoJobHas DEF Clock, Stamps, First
<1>5. Sure
  BY <1>1 DEF Sure
<1>6. Progress
  BY <1>1, <1>2, LoadedHas, NoJobHas DEF Progress
<1>7. Apart
  <2>1. Disjoint
    BY <1>1, <1>3 DEF Disjoint
  <2>2. FdApart /\ CopyApart
    BY <1>2
    DEF FdApart, CopyApart, WriteLabels, TempLabels, NewLabels, OwnLabels, CopyLabels
  <2> QED  BY <2>1, <2>2 DEF Apart
<1>8. Held /\ Copying /\ Copied /\ Temporary /\ Written
  BY <1>2 DEF Held, Copying, Copied, Temporary, Written, OwnLabels
<1>9. Sheltered
  <2>1. \A i \in pname["dst"] \ {Nil} : Torn \notin pdata[i]
    BY <1>1, <1>3 DEF Dst
  <2> QED  BY <1>2, <2>1 DEF Sheltered, Overwriting
<1>10. KnownText /\ NothingLost /\ Landed
  BY <1>2, LoadedHas
  DEF KnownText, Known, CheckLabels, NothingLost, Landed, NewLabels
<1>11. Linked
  BY <1>2 DEF Linked
<1> QED  BY <1>1, <1>4, <1>5, <1>6, <1>7, <1>8, <1>9, <1>10, <1>11 DEF SaveInv

LEMMA NextInv ==
  ASSUME SaveInv, Next PROVE SaveInv'
<1>1. Typed /\ Before /\ Sure /\ (blind \subseteq {v \in Nat : v >= First})
  BY DEF SaveInv, Before, Typed, Histories
<1>2. Typed'
  BY <1>1, TypedStep
<1>3. Clock' /\ Progress'
  BY <1>1, <1>2, ProgressStep DEF Typed
<1>4. Sure' /\ Apart'
  BY <1>1, SureStep, ApartStep
<1>5. Held' /\ Copying' /\ Copied' /\ Temporary' /\ Written'
  BY <1>1, HeldStep, CopyingStep, CopiedStep, TemporaryStep, WrittenStep DEF SaveInv
<1>6. Sheltered'
  BY <1>1, <1>5, ShelteredStep DEF SaveInv
<1>7. KnownText' /\ NothingLost' /\ Landed' /\ Linked'
  BY <1>1, <1>4, KnownTextStep, NothingLostStep, LandedStep, LinkedStep DEF SaveInv
<1> QED  BY <1>2, <1>3, <1>4, <1>5, <1>6, <1>7 DEF SaveInv

LEMMA StutterInv ==
  ASSUME SaveInv, UNCHANGED vars PROVE SaveInv'
<1>1. /\ UNCHANGED <<data, pdata, name, pname, mtime, twins, tick, meta, pc, job, out>>
      /\ UNCHANGED <<meddle, saves, crashes, chk, late, lost, blind, severed>>
  BY DEF vars, fs, editor, counts, checks, losses
<1>2. Dst' = Dst /\ Copy' = Copy
  BY <1>1 DEF Dst, Copy
<1>3. Typed' /\ Clock' /\ Sure' /\ Progress'
  BY <1>1
  DEF SaveInv, Typed, FilesOK, EditorOK, Histories, Clock, Stamps, Sure, Progress
<1>4. Apart'
  BY <1>1, <1>2 DEF SaveInv, Apart, Disjoint, FdApart, CopyApart
<1>5. Held' /\ Copying' /\ Copied' /\ Temporary' /\ Written'
  BY <1>1, <1>2 DEF SaveInv, Held, Copying, Same, Copied, Temporary, Written
<1>6. Sheltered'
  BY <1>1, <1>2 DEF SaveInv, Sheltered, Elsewhere, Sound
<1>7. KnownText' /\ NothingLost' /\ Landed' /\ Linked'
  BY <1>1, <1>2
  DEF SaveInv, KnownText, Known, NothingLost, Accounted, Landed, Linked, Discounted
<1> QED  BY <1>3, <1>4, <1>5, <1>6, <1>7 DEF SaveInv

LEMMA SaveInvHolds == Spec => []SaveInv
<1>1. SaveInv /\ [Next]_vars => SaveInv'
  BY NextInv, StutterInv
<1> QED  BY InitInv, <1>1, PTL DEF Spec

-----------------------------------------------------------------------------
(* What the file system and the editor's record of it hold is always of its  *)
(* type: file_save never follows a name or a descriptor that is not there.   *)
THEOREM TypeCorrect == Spec => []TypeOK
<1>1. SaveInv => TypeOK
  BY DEF SaveInv, Typed, TypeOK
<1> QED  BY <1>1, SaveInvHolds, PTL

(* While inplace_save overwrites the old bytes, the pending copy exists and  *)
(* is exactly the text that the identity check on the descriptor accepted,   *)
(* whatever other programs did during the copy.                              *)
THEOREM BackupAlwaysExact == Spec => []BackupIsExact
<1>1. SaveInv => BackupIsExact
  <2> SUFFICES ASSUME SaveInv, pc \in OwnLabels
               PROVE  name[job.pend] # Nil /\ data[name[job.pend]] = job.old
    BY DEF BackupIsExact, OwnLabels
  <2>1. Copy = name[job.pend]
    BY DEF Copy, OwnLabels
  <2> QED  BY <2>1 DEF SaveInv, Apart, CopyApart, Copied, CopyLabels
<1> QED  BY <1>1, SaveInvHolds, PTL

(* A save with save.check_disk on never overwrites or unlinks a version that *)
(* another program wrote before its last destination_matches.                *)
THEOREM NoChangeLost == Spec => []NoVisibleChangeLost
<1>1. SaveInv => NoVisibleChangeLost
  BY DEF SaveInv, NothingLost, NoVisibleChangeLost
<1> QED  BY <1>1, SaveInvHolds, PTL

(* Whatever a kill or a power cut leaves, at any call of the save: when the  *)
(* destination may be partly overwritten, a whole backup is on the disk.     *)
THEOREM AlwaysRecoverable == Spec => []Recoverable
<1>1. SaveInv => Recoverable
  <2> SUFFICES ASSUME SaveInv, NEW i \in pname["dst"] \ {Nil}, Torn \in pdata[i]
               PROVE  \E n \in Backups : Sound(n)
    BY DEF Recoverable, Sound
  <2>1. CASE Elsewhere
    BY <2>1, NameIs DEF Elsewhere
  <2>2. CASE ~Elsewhere
    <3>1. pc \in OwnLabels /\ data[Copy] # Torn /\ EditorOK /\ CopyApart
      BY <2>2 DEF SaveInv, Sheltered, Typed, Apart, Overwriting, OwnLabels
    <3>2. job.pend \in Backups
      BY <3>1, JobParts, NameIs DEF EditorOK
    <3> QED  BY <3>1, <3>2, CopySound
  <2> QED  BY <2>1, <2>2
<1> QED  BY <1>1, SaveInvHolds, PTL

(* Unless save.strategy = atomic asks for it, the rename of atomic_save cuts *)
(* off no hard link of the user's that needs_inplace could see: neither with *)
(* a crash journal's link to discount nor without one.  A save over another  *)
(* file than the journal's base is excused by the history severed itself.    *)
THEOREM HardlinksAlwaysKept == Spec => []HardlinksKept
<1>1. SaveInv => HardlinksKept
  BY DEF SaveInv, Linked, HardlinksKept
<1> QED  BY <1>1, SaveInvHolds, PTL

(* When file_save reports the document durable (yew_save_committed) a power  *)
(* cut can bring back nothing but its text, and after a rename or a creation *)
(* nothing but its inode, unless another program acted on the file since.    *)
THEOREM OkAlwaysDurable == Spec => OkIsDurable
<1> DEFINE Promised ==
      Returns({"OK", "BACKUP_FAILED"}) /\ ~late =>
        /\ Dst' = job.fd /\ pdata'[job.fd] = {job.ver}
        /\ pc \in {"syncdir", "syncnewdir"} => pname'["dst"] = {job.fd}
<1>1. SaveInv /\ [Next]_vars => [Promised]_vars
  <2> SUFFICES ASSUME SaveInv, Next, Returns({"OK", "BACKUP_FAILED"}), ~late
               PROVE  /\ Dst' = job.fd /\ pdata'[job.fd] = {job.ver}
                      /\ pc \in {"syncdir", "syncnewdir"} => pname'["dst"] = {job.fd}
    OBVIOUS
  <2>1. /\ FilesOK /\ EditorOK /\ job.pend \in Name /\ job.pend # "dst"
        /\ "dst" \in Name /\ "base" # "dst"
    BY JobParts, NameIs DEF SaveInv, Typed, EditorOK
  <2>2. pc # "idle" /\ pc' = "idle" /\ out' \in {"OK", "BACKUP_FAILED"}
    BY DEF Returns
  <2>3. SyncDir \/ SyncNewDir \/ Rotate
    <3>1. CASE SomeSave \/ Reload \/ Pin \/ Unpin \/ Meddle \/ Crash
      BY <2>2, <3>1
      DEF SomeSave, FileSave, Reload, Pin, Unpin, Meddle, Crash, editor
    <3>2. CASE \/ OpenTemp \/ WriteTemp \/ SyncTemp \/ Recheck \/ Rename \/ Create \/ Fill
               \/ SyncNew
      BY <2>2, <3>2
      DEF OpenTemp, WriteTemp, SyncTemp, Recheck, Rename, Create, Fill, SyncNew, Uncreate,
          Inplace, Goto, Sealed, Fail, Return
    <3>3. CASE \/ BakOpen \/ BakCopy \/ BakLink \/ BakSync \/ IpOpen \/ IpWrite \/ IpRest
               \/ IpSync \/ Restore \/ Restoring
      BY <2>2, <3>3
      DEF BakOpen, BakCopy, BakLink, BakSync, IpOpen, IpWrite, IpRest, IpSync, Restore,
          Restoring, Goto, Sealed, Fail, Return
    <3> QED  BY <3>1, <3>2, <3>3 DEF Next, Save
  <2>4. Dst = job.fd /\ pdata[job.fd] = {job.ver}
    BY <2>3 DEF SaveInv, Landed, SyncDir, SyncNewDir, Rotate, NewLabels
  <2>5. CASE SyncDir \/ SyncNewDir
    BY <2>1, <2>2, <2>4, <2>5
    DEF SyncDir, SyncNewDir, Uncreate, Fail, Return, FsyncDir, DstDir, Dst
  <2>6. CASE Rotate
    <3>1. pdata' = pdata /\ pc = "rotate"
      BY <2>6 DEF Rotate, DropPending, fs
    <3>2. name'["dst"] = name["dst"]
      BY <2>1, <2>6 DEF Rotate, DropPending, UnlinkSync, FilesOK, fs
    <3> QED  BY <2>4, <3>1, <3>2 DEF Dst
  <2> QED  BY <2>3, <2>5, <2>6
<1> QED  BY <1>1, SaveInvHolds, PTL DEF Spec, OkIsDurable

-----------------------------------------------------------------------------
(* The atomic strategy implements AtomicFile. *)

LEMMA RiskIs ==
  ASSUME NEW x
  PROVE  x \in Risk <=> \E i \in pname["dst"] : IF i = Nil THEN x = Torn ELSE x \in pdata[i]
BY DEF Risk

LEMMA RiskSame ==
  ASSUME pname'["dst"] = pname["dst"], \A i \in pname["dst"] \ {Nil} : pdata'[i] = pdata[i]
  PROVE  Risk' = Risk
BY DEF Risk

(* A file that a power cut cannot change any more. *)
LEMMA RiskGone ==
  ASSUME pname["dst"] = {Dst}, Dst # Nil => pdata[Dst] = {data[Dst]}
  PROVE  Risk = {Text}
BY DEF Risk, Text

LEMMA TextAtRisk ==
  ASSUME FilesOK, Sure PROVE Text \in Risk /\ Text \in Nat
<1>1. Dst \in pname["dst"] /\ (Dst # Nil => data[Dst] \in pdata[Dst] /\ data[Dst] \in Nat)
  BY DstIs, NameIs DEF Sure, Dst
<1>2. Torn \in Nat
  BY DEF Torn
<1> QED  BY <1>1, <1>2, RiskIs DEF Text

(* Every step of a save under the atomic strategy is one of AtomicFile or    *)
(* changes nothing that AtomicFile speaks of.                                *)
LEMMA FileSaveImplements ==
  ASSUME SaveInv, SomeSave PROVE Promise!Next
<1>1. PICK s \in Strategies, c \in Checks, f \in Forces, k \in Keeps,
           w \in BOOLEAN : FileSave(s, c, f, k, w)
  BY DEF SomeSave
<1> DEFINE exp == IF f THEN Accept(meta) ELSE meta
           label == IF \/ s = "inplace"
                       \/ s = "auto" /\ (NeedsInplace(exp) \/ ~w)
                    THEN Inplace(Accept(exp)) ELSE "opentemp"
<1>2. /\ pc = "idle" /\ UNCHANGED fs /\ UNCHANGED meddle
      /\ \/ pc' = "idle" /\ job' = NoJob /\ out' \in {"CHANGED", "IO"}
         \/ /\ Enter(label, Accept(exp), tick + 1, s, IF f THEN "off" ELSE c, k)
            /\ UNCHANGED out
  BY <1>1 DEF FileSave
<1>3. job.ver = Torn /\ Text' = Text /\ Risk' = Risk /\ tick \in Nat
  BY <1>2, NoJobHas DEF SaveInv, Progress, Typed, FilesOK, Text, Risk, Dst, fs
<1>4. CASE pc' = "idle" /\ job' = NoJob /\ out' \in {"CHANGED", "IO"}
  <2>1. Promise!Reply("CHANGED") \/ Promise!Reply("IO")
    BY <1>2, <1>3, <1>4, NoJobHas DEF Promise!Reply, Promise!Absent, Torn
  <2> QED  BY <2>1 DEF Promise!Next
<1>5. CASE Enter(label, Accept(exp), tick + 1, s, IF f THEN "off" ELSE c, k)
           /\ UNCHANGED out
  <2>1. label \in {"bakopen", "create", "opentemp"}
    BY DEF Inplace
  <2>2. pc' = label /\ job'.ver = tick + 1
    BY <1>5 DEF Enter, NoJob
  <2>3. (pc' = "syncdir") = FALSE /\ job'.ver \in Nat \ {0}
    BY <1>3, <2>1, <2>2
  <2>4. Promise!Call
    BY <1>2, <1>3, <1>5, <2>3 DEF Promise!Call, Promise!Absent, Torn
  <2> QED  BY <2>4 DEF Promise!Next
<1> QED  BY <1>2, <1>4, <1>5

LEMMA FailImplements ==
  ASSUME Fail("IO") \/ (Fail("CHANGED") /\ pc # "syncdir"), UNCHANGED meddle,
         Text' = Text, Risk' = Risk
  PROVE  Promise!Next
<1>1. job'.ver = 0 /\ (pc' = "syncdir") = FALSE /\ (out' = "IO" \/ out' = "CHANGED")
  BY NoJobHas DEF Fail, Return, Torn
<1>2. Promise!Reply("CHANGED") \/ Promise!Reply("IO")
  BY <1>1 DEF Promise!Reply, Promise!Absent, Fail, Return
<1> QED  BY <1>2 DEF Promise!Next

LEMMA TempImplements ==
  ASSUME SaveInv, OpenTemp \/ WriteTemp \/ SyncTemp \/ Recheck \/ Rename,
         job.strategy = "atomic"
  PROVE  Promise!Next \/ UNCHANGED Promise!vars
<1>1. /\ FilesOK /\ EditorOK /\ Sure /\ FdApart /\ Apart /\ job \in JobType /\ Progress
      /\ Temporary /\ "dst" \in Name /\ "tmp" \in Name
      /\ pname["dst"] \subseteq Inode \cup {Nil} /\ Dst \in Inode \cup {Nil}
  BY DstIs, NameIs DEF SaveInv, Typed, Apart, EditorOK, FilesOK
<1>2. /\ pc \in TempLabels => /\ job.fd \in Inode /\ job.fd \notin pname["dst"]
                              /\ job.fd # Dst
  BY <1>1, FdIs, DstNotFd DEF FdApart, WriteLabels
<1>3. \A i \in Fresh : i \in Inode /\ i \notin pname["dst"] /\ i # Dst
  BY <1>1, FreshIs DEF Dst
<1>4. UNCHANGED meddle
  BY DEF OpenTemp, WriteTemp, SyncTemp, Recheck, Rename, counts
<1>5. ASSUME name'["dst"] = name["dst"], pname'["dst"] = pname["dst"],
             \A i \in Inode : \/ data'[i] = data[i] /\ pdata'[i] = pdata[i]
                              \/ i # Dst /\ i \notin pname["dst"]
      PROVE  Text' = Text /\ Risk' = Risk
  <2>1. Text' = Text
    BY <1>1, <1>5 DEF Text, Dst
  <2>2. \A i \in pname["dst"] \ {Nil} : pdata'[i] = pdata[i]
    BY <1>1, <1>5
  <2> QED  BY <1>5, <2>1, <2>2, RiskSame
<1>6. ASSUME UNCHANGED fs PROVE Text' = Text /\ Risk' = Risk
  BY <1>5, <1>6 DEF fs
<1>7. ASSUME DropTemp PROVE Text' = Text /\ Risk' = Risk
  BY <1>1, <1>5, <1>7 DEF DropTemp, UnlinkSync
<1>8. ASSUME Text' = Text, Risk' = Risk, job'.ver = job.ver, UNCHANGED out,
             pc # "syncdir", pc' # "syncdir"
      PROVE  UNCHANGED Promise!vars
  BY <1>4, <1>8 DEF Promise!vars
<1>9. ASSUME Fail("IO") \/ Fail("CHANGED"), UNCHANGED fs \/ DropTemp, pc # "syncdir"
      PROVE  Promise!Next
  BY <1>4, <1>6, <1>7, <1>9, FailImplements
<1>10. CASE OpenTemp
  <2>1. CASE ~Fail("IO")
    <3>1. PICK i \in Fresh :
            /\ Bind("tmp", i) /\ data' = [data EXCEPT ![i] = Stub]
            /\ pdata' = [pdata EXCEPT ![i] = {Stub}]
            /\ job' = [job EXCEPT !.fd = i] /\ pc' = "writetemp" /\ UNCHANGED out
            /\ pc = "opentemp"
      BY <1>10, <2>1 DEF OpenTemp
    <3>2. Text' = Text /\ Risk' = Risk
      BY <1>1, <1>3, <1>5, <3>1 DEF Bind, FilesOK
    <3> QED  BY <1>1, <1>8, <3>1, <3>2 DEF JobType
  <2>2. CASE Fail("IO")
    BY <1>9, <1>10, <2>2 DEF OpenTemp, Fail, Return
  <2> QED  BY <2>1, <2>2
<1>11. CASE WriteTemp
  <2>1. CASE ~Fail("IO")
    <3>1. /\ data' = [data EXCEPT ![job.fd] = job.ver]
          /\ pdata' = [pdata EXCEPT ![job.fd] = @ \cup {job.ver}]
          /\ Goto("synctemp") /\ UNCHANGED <<name, pname>> /\ pc = "writetemp"
      BY <1>11, <2>1 DEF WriteTemp
    <3>2. Text' = Text /\ Risk' = Risk
      BY <1>1, <1>2, <1>5, <3>1 DEF FilesOK, TempLabels
    <3> QED  BY <1>8, <3>1, <3>2 DEF Goto
  <2>2. CASE Fail("IO")
    BY <1>9, <1>11, <2>2 DEF WriteTemp, Fail, Return, Goto
  <2> QED  BY <2>1, <2>2
<1>12. CASE SyncTemp
  <2>1. CASE ~Fail("IO")
    <3>1. /\ Fsync(job.fd) /\ Sealed("recheck") /\ UNCHANGED <<data, name, pname>>
          /\ pc = "synctemp"
      BY <1>12, <2>1 DEF SyncTemp
    <3>2. Text' = Text /\ Risk' = Risk
      BY <1>1, <1>2, <1>5, <3>1 DEF Fsync, FilesOK, TempLabels
    <3> QED  BY <1>1, <1>8, <3>1, <3>2 DEF Sealed, JobType
  <2>2. CASE Fail("IO")
    BY <1>9, <1>12, <2>2 DEF SyncTemp, Fail, Return, Goto, Sealed
  <2> QED  BY <2>1, <2>2
<1>13. CASE Recheck
  <2>1. CASE ~(Fail("IO") \/ Fail("CHANGED"))
    <3>1. /\ job' = [job EXCEPT !.acc = Accept(@)] /\ UNCHANGED out /\ UNCHANGED fs
          /\ pc = "recheck" /\ pc' = "rename"
      BY <1>13, <2>1 DEF Recheck
    <3> QED  BY <1>1, <1>6, <1>8, <3>1 DEF JobType
  <2>2. CASE Fail("IO") \/ Fail("CHANGED")
    <3>1. (DropTemp \/ UNCHANGED fs) /\ pc = "recheck"
      BY <1>13 DEF Recheck
    <3> QED  BY <1>9, <2>2, <3>1
  <2> QED  BY <2>1, <2>2
<1>14. CASE Rename
  <2>1. CASE ~Fail("IO")
    <3>1. /\ name' = [name EXCEPT !["dst"] = job.fd, !["tmp"] = Nil]
          /\ pname' = [pname EXCEPT !["dst"] = @ \cup {job.fd},
                                    !["tmp"] = @ \cup {Nil}]
          /\ Goto("syncdir") /\ UNCHANGED <<data, pdata>> /\ pc = "rename"
      BY <1>14, <2>1 DEF Rename
    <3>2. /\ job.fd \in Inode /\ job.fd # Nil /\ pdata[job.fd] = {job.ver}
          /\ data[job.fd] = job.ver
      BY <1>1, <1>2, <3>1, NilIsNoInode DEF Temporary, TempLabels, Sure
    <3>3. "dst" # "tmp" /\ Dst' = job.fd /\ pname'["dst"] = pname["dst"] \cup {job.fd}
      BY <1>1, <3>1 DEF Dst, FilesOK
    <3>4. Text' = job.ver
      BY <3>1, <3>2, <3>3 DEF Text
    <3>5. Risk' = Risk \cup {job.ver}
      <4>1. Risk' = UNION {IF i = Nil THEN {Torn} ELSE pdata[i] : i \in pname["dst"] \cup {job.fd}}
        BY <3>1, <3>3 DEF Risk
      <4> QED  BY <3>2, <4>1 DEF Risk
    <3>6. job.ver # 0
      BY <1>1, <3>1 DEF Progress, Whole, First
    <3>7. Promise!TakeEffect
      BY <1>4, <3>1, <3>4, <3>5, <3>6 DEF Promise!TakeEffect, Promise!Absent, Goto
    <3> QED  BY <3>7 DEF Promise!Next
  <2>2. CASE Fail("IO")
    BY <1>9, <1>14, <2>2 DEF Rename, Fail, Return, Goto
  <2> QED  BY <2>1, <2>2
<1> QED  BY <1>10, <1>11, <1>12, <1>13, <1>14

LEMMA SyncDirImplements ==
  ASSUME SaveInv, SyncDir PROVE Promise!Next
<1>1. /\ pc = "syncdir" /\ UNCHANGED <<data, pdata, name>> /\ UNCHANGED meddle
      /\ Text' = Text
  BY DEF SyncDir, fs, counts, Text, Dst
<1>2. CASE Fail("IO")
  <2>1. UNCHANGED fs
    BY <1>2 DEF SyncDir, Fail, Commit, Return
  <2>2. Risk' = Risk
    BY <2>1 DEF Risk, fs
  <2> QED  BY <1>1, <1>2, <2>2, FailImplements
<1>3. CASE ~Fail("IO")
  <2>1. Commit("OK", job.fd) /\ FsyncDir(DstDir)
    BY <1>3 DEF SyncDir
  <2>2. pname'["dst"] = {Dst} /\ Dst' = Dst
    BY <1>1, <2>1, NameIs DEF FsyncDir, DstDir, Dst
  <2>3. Dst # Nil => pdata[Dst] = {data[Dst]}
    BY <1>1 DEF SaveInv, Landed
  <2>4. Risk' = {Text}
    BY <1>1, <2>2, <2>3 DEF Risk, Text
  <2>5. job'.ver = 0 /\ (pc' = "syncdir") = FALSE /\ out' = "OK"
    BY <2>1, NoJobHas DEF Commit, Return, Torn
  <2>6. Promise!Reply("OK")
    BY <1>1, <2>4, <2>5 DEF Promise!Reply, Promise!Absent
  <2> QED  BY <2>6 DEF Promise!Next
<1> QED  BY <1>2, <1>3

LEMMA OutsideImplements ==
  ASSUME SaveInv, Sure', FilesOK', Reload \/ Pin \/ Unpin \/ Meddle \/ Crash
  PROVE  Promise!Next \/ UNCHANGED Promise!vars
<1>1. /\ FilesOK /\ EditorOK /\ Sure /\ "dst" \in Name /\ "jbase" \in Name
      /\ "jbase" # "dst" /\ Dst \in Inode \cup {Nil} /\ meddle \in Nat
      /\ Text \in Risk /\ Text \in Nat
      /\ (FilesOK /\ Sure => Text \in Risk /\ Text \in Nat)'
  <2>1. FilesOK /\ Sure => Text \in Risk /\ Text \in Nat
    BY TextAtRisk
  <2>2. (FilesOK /\ Sure => Text \in Risk /\ Text \in Nat)'
    BY TextAtRisk, PTL
  <2> QED  BY <2>1, <2>2, DstIs, NameIs DEF SaveInv, Typed, Histories
<1>2. Text' \in Risk' /\ Text' \in Nat
  BY <1>1
<1>3. CASE Reload \/ Pin \/ Unpin
  <2>1. /\ UNCHANGED <<data, pdata, pc, job, meddle>> /\ name'["dst"] = name["dst"]
        /\ pname'["dst"] = pname["dst"]
    BY <1>1, <1>3 DEF Reload, Pin, Unpin, FilesOK, counts
  <2>2. Text' = Text /\ Risk' = Risk
    BY <2>1 DEF Text, Risk, Dst
  <2>3. CASE Reload
    <3>1. Promise!Forget
      BY <2>1, <2>2, <2>3 DEF Promise!Forget, Reload
    <3> QED  BY <3>1 DEF Promise!Next
  <2>4. CASE Pin \/ Unpin
    BY <2>1, <2>2, <2>4 DEF Promise!vars, Pin, Unpin
  <2> QED  BY <1>3, <2>3, <2>4
<1>4. CASE Meddle
  <2>1. meddle' = meddle + 1 /\ UNCHANGED <<pc, job, out>> /\ tick' = tick + 1
    BY <1>4 DEF Meddle, editor
  <2>2. Risk' \subseteq Risk \cup {Text'}
    <3>1. CASE UNCHANGED <<data, pdata, name, pname>>
      BY <3>1 DEF Risk
    <3>2. CASE /\ Dst # Nil /\ data' = [data EXCEPT ![Dst] = tick']
               /\ pdata' = [pdata EXCEPT ![Dst] = {tick'}]
               /\ UNCHANGED <<name, pname>>
      <4>1. Text' = tick'
        BY <1>1, <3>2 DEF Text, Dst, FilesOK
      <4>2. \A i : pdata'[i] = pdata[i] \/ (i = Dst /\ pdata'[i] = {tick'})
            \/ i \notin Inode
        BY <1>1, <3>2 DEF FilesOK
      <4>3. pname'["dst"] = pname["dst"] /\ pname["dst"] \subseteq Inode \cup {Nil}
        BY <1>1, <3>2 DEF FilesOK
      <4>4. ASSUME NEW x \in Risk' PROVE x \in Risk \cup {tick'}
        <5>1. (x \in Risk <=>
                 \E i \in pname["dst"] : IF i = Nil THEN x = Torn ELSE x \in pdata[i])
          BY RiskIs
        <5>2. \E i \in pname'["dst"] : IF i = Nil THEN x = Torn ELSE x \in pdata'[i]
          BY <4>4 DEF Risk
        <5> QED  BY <4>2, <4>3, <5>1, <5>2
      <4> QED  BY <4>1, <4>4
    <3>3. CASE \E i \in Fresh : /\ data' = [data EXCEPT ![i] = tick']
                                /\ pdata' = [pdata EXCEPT ![i] = {tick'}]
                                /\ name' = [name EXCEPT !["dst"] = i]
                                /\ pname' = [pname EXCEPT !["dst"] = {i}]
      <4>1. PICK i \in Fresh : /\ data' = [data EXCEPT ![i] = tick']
                               /\ pdata' = [pdata EXCEPT ![i] = {tick'}]
                               /\ name' = [name EXCEPT !["dst"] = i]
                               /\ pname' = [pname EXCEPT !["dst"] = {i}]
        BY <3>3
      <4>2. /\ i \in Inode /\ i # Nil /\ Dst' = i /\ pname'["dst"] = {i}
            /\ data'[i] = tick' /\ pdata'[i] = {tick'}
        BY <1>1, <4>1, FreshIs, NilIsNoInode DEF Dst, FilesOK
      <4> QED  BY <4>2 DEF Risk, Text
    <3>4. CASE name' = [name EXCEPT !["dst"] = Nil] /\ pname' = [pname EXCEPT !["dst"] = {Nil}]
      <4>1. Dst' = Nil /\ pname'["dst"] = {Nil}
        BY <1>1, <3>4 DEF Dst, FilesOK
      <4> QED  BY <4>1 DEF Risk, Text
    <3> QED  BY <1>4, <3>1, <3>2, <3>3, <3>4 DEF Meddle
  <2>3. Promise!Other
    BY <1>2, <2>1, <2>2 DEF Promise!Other
  <2> QED  BY <2>3 DEF Promise!Next
<1>5. CASE Crash
  <2>1. /\ job'.ver = 0 /\ (pc' = "syncdir") = FALSE /\ out' = "none" /\ UNCHANGED meddle
    BY <1>5, NoJobHas DEF Crash, Torn
  <2>2. \/ Text' \in Risk /\ Risk' = {Text'}
        \/ Text' = Text /\ Risk' = Risk
    <3>1. CASE UNCHANGED <<data, pdata, name, pname>>
      BY <3>1 DEF Text, Risk, Dst
    <3>2. CASE ~UNCHANGED <<data, pdata, name, pname>>
      <4>1. /\ name' \in [Name -> Inode \cup {Nil}]
            /\ \A i \in Inode : data'[i] \in pdata[i]
            /\ \A n \in Name : name'[n] \in pname[n]
            /\ pdata' = [i \in Inode |-> {data'[i]}]
            /\ pname' = [n \in Name |-> {name'[n]}]
        BY <1>1, <1>5, <3>2, CrashLeaves
      <4>2. /\ Dst' \in pname["dst"] /\ Dst' \in Inode \cup {Nil}
            /\ pname'["dst"] = {Dst'} /\ (Dst' # Nil => pdata'[Dst'] = {data'[Dst']})
            /\ Dst' # Nil => data'[Dst'] \in pdata[Dst']
        BY <1>1, <4>1 DEF Dst
      <4>3. Risk' = {Text'}
        BY <4>2 DEF Risk, Text
      <4>4. Text' \in Risk
        <5>1. \E i \in pname["dst"] : IF i = Nil THEN Text' = Torn ELSE Text' \in pdata[i]
          BY <4>2 DEF Text
        <5> QED  BY <5>1 DEF Risk
      <4> QED  BY <4>3, <4>4
    <3> QED  BY <3>1, <3>2
  <2>3. Promise!Stop
    BY <2>1, <2>2 DEF Promise!Stop, Promise!Absent
  <2> QED  BY <2>3 DEF Promise!Next
<1> QED  BY <1>3, <1>4, <1>5

(* Temporary, fsync, rename and directory fsync together implement a save    *)
(* that takes effect at one instant or not at all (AtomicFile), as long as   *)
(* no save with another strategy than save.strategy = atomic is under way.   *)
THEOREM AtomicFileImplemented == Spec => ImplementsAtomicFile
<1>1. Init => Promise!Init
  <2> SUFFICES ASSUME Init PROVE Promise!Init
    OBVIOUS
  <2>1. /\ FilesOK /\ Sure /\ pname["dst"] = {Dst} /\ (Dst # Nil => pdata[Dst] = {data[Dst]})
    BY InitTyped, InitInv, DstIs, NameIs DEF SaveInv, Typed, Dst
  <2>2. Risk = {Text} /\ Text \in Nat
    BY <2>1, RiskGone, TextAtRisk
  <2>3. job.ver = 0 /\ (pc = "syncdir") = FALSE /\ out = "none" /\ meddle = 0
    BY NoJobHas DEF Init, Torn
  <2> QED  BY <2>2, <2>3 DEF Promise!Init, Promise!Absent
<1>2. ASSUME SaveInv, SaveInv', Next, Under(job.strategy, pc)
      PROVE  Promise!Next \/ UNCHANGED Promise!vars
  <2>1. pc # "idle" => job.strategy = "atomic" /\ pc \in AtomicLabels
    BY <1>2 DEF Under, SaveInv, Progress
  <2>2. Sure' /\ FilesOK'
    BY <1>2 DEF SaveInv, Typed
  <2>3. CASE SomeSave
    BY <1>2, <2>3, FileSaveImplements
  <2>4. CASE OpenTemp \/ WriteTemp \/ SyncTemp \/ Recheck \/ Rename
    <3>1. pc # "idle"
      BY <2>4 DEF OpenTemp, WriteTemp, SyncTemp, Recheck, Rename
    <3> QED  BY <1>2, <2>1, <2>4, <3>1, TempImplements
  <2>5. CASE SyncDir
    BY <1>2, <2>5, SyncDirImplements
  <2>6. CASE Reload \/ Pin \/ Unpin \/ Meddle \/ Crash
    BY <1>2, <2>2, <2>6, OutsideImplements
  <2>7. CASE Create \/ Fill \/ SyncNew \/ SyncNewDir \/ BakOpen \/ BakCopy \/ BakLink
    BY <2>1, <2>7
    DEF Create, Fill, SyncNew, SyncNewDir, BakOpen, BakCopy, BakLink, AtomicLabels
  <2>8. CASE \/ BakSync \/ IpOpen \/ IpWrite \/ IpRest \/ IpSync \/ Restore \/ Restoring
             \/ Rotate
    BY <2>1, <2>8
    DEF BakSync, IpOpen, IpWrite, IpRest, IpSync, Restore, Restoring, Rotate, AtomicLabels
  <2> QED  BY <1>2, <2>3, <2>4, <2>5, <2>6, <2>7, <2>8 DEF Next, Save
<1>3. UNCHANGED vars => UNCHANGED Promise!vars
  BY DEF vars, fs, editor, counts, Promise!vars, Text, Risk, Dst
<1>4. SaveInv /\ SaveInv' /\ [Next]_vars =>
        [Under(job.strategy, pc) /\ Under(job'.strategy, pc') =>
           Promise!Next]_(Promise!vars)
  BY <1>2, <1>3
<1> QED  BY <1>1, <1>4, SaveInvHolds, PTL DEF Spec, ImplementsAtomicFile
=============================================================================
