------------------------------ MODULE FileSave ------------------------------
(* The durable save of yew: file_save and the two strategies under it,       *)
(* atomic_save (temporary, fsync, rename, directory fsync) and inplace_save  *)
(* (fsynced backup, then overwrite), in src/text/file.c.                     *)
(*                                                                           *)
(* Every system call that changes the file system is one step, may fail, and *)
(* may be the last one before the process is killed or the power is cut.     *)
(* Another program may rewrite, replace, touch, delete or hard-link the      *)
(* destination between any two steps.                                        *)
(*                                                                           *)
(* The file system is inodes and names.  For both, the value a running       *)
(* process sees (data, name) is kept apart from the values a power cut may   *)
(* leave behind (pdata, pname); fsync shrinks the latter to the former.      *)
EXTENDS Naturals, FiniteSets

CONSTANTS
  MaxInode,     \* bound: number of inodes
  MaxTick,      \* bound: number of writes, by the editor and by others
  MaxMeddle,    \* bound: number of changes another program makes
  MaxSave,      \* bound: number of saves
  MaxCrash,     \* bound: number of kills and power cuts
  Strategies,   \* save.strategy: subset of {"auto", "atomic", "inplace"}
  Checks,       \* save.check_disk: subset of {"off", "mtime", "content"}
  Forces,       \* {FALSE}, or {FALSE, TRUE} when a save may be forced (w!)
  Keeps,        \* save.backup_keep: subset of {0, 1}
  Pinning       \* TRUE when the crash journal hard-links its base inode

ASSUME BoundsAssumption ==
  /\ MaxInode \in Nat \ {0} /\ MaxTick \in Nat /\ MaxMeddle \in Nat
  /\ MaxSave \in Nat /\ MaxCrash \in Nat
ASSUME OptionsAssumption ==
  /\ Strategies \subseteq {"auto", "atomic", "inplace"}
  /\ Checks \subseteq {"off", "mtime", "content"}
  /\ Forces \subseteq BOOLEAN /\ Keeps \subseteq {0, 1} /\ Pinning \in BOOLEAN

Inode == 1 .. MaxInode
Nil   == 0                       \* no inode: the name is free

(* A file's bytes: complete versions, numbered by the tick of the write, and *)
(* the two incomplete ones.                                                  *)
Torn  == 0                       \* an old version partly overwritten
Stub  == 1                       \* a new file not completely written yet
First == 2                       \* the version the first load reads
Whole(c) == c >= First

Pendings == {"pend0", "pend1"}   \* <backup>.pending and its retry name
Backups  == Pendings \cup {"base"}
Name     == {"dst", "tmp", "jbase"} \cup Backups
DstDir   == {"dst", "tmp"}       \* names the destination's directory holds

VARIABLES
  data,    \* [Inode -> version]: what a read returns
  pdata,   \* [Inode -> set of versions]: what a power cut may leave
  name,    \* [Name -> inode or Nil]
  pname,   \* [Name -> set of those]: what a power cut may leave
  mtime,   \* [Inode -> tick of the last change]
  twins,   \* inodes that also have a hard link of the user's elsewhere
  tick,    \* the last tick used: clock and version counter
  meta,    \* the buffer's FileMeta, as far as a save reads it
  pc,      \* the call the save is at
  job,     \* the locals of the save in progress
  out,     \* what the last save returned
  meddle,  \* history: changes made by others so far
  saves,   \* history: saves so far
  crashes, \* history: crashes so far
  chk,     \* history: the tick at the save's last identity check
  late,    \* history: someone else acted on it after the last identity check
  lost,    \* history: versions overwritten that an identity check could see
  blind,   \* history: versions others wrote between the last check of an
           \* in-place save and its final fstat, which takes them for its own
  severed  \* history: user hard links a rename cut off unseen by its count

fs     == <<data, pdata, name, pname, mtime, twins>>
editor == <<meta, pc, job, out>>
counts == <<meddle, saves, crashes>>
checks == <<chk, late>>
losses == <<lost, blind, severed>>
vars   == <<fs, tick, editor, counts, checks, losses>>

NoMeta == [exists |-> FALSE, ino |-> Nil, mtime |-> 0, text |-> Torn,
           pinned |-> FALSE]
NoJob  == [ver |-> Torn, strategy |-> "auto", check |-> "mtime", keep |-> 0,
           acc |-> NoMeta, fd |-> Nil, copy |-> Torn, pend |-> "pend0",
           old |-> Torn, stat |-> 0]

-----------------------------------------------------------------------------
(* The file system. *)

Dst == name["dst"]

Nlink(i) == Cardinality({n \in Name : name[n] = i})
              + (IF i \in twins THEN 1 ELSE 0)

(* Inodes no name, no possible name and no open descriptor refers to. *)
FreeInode == {i \in Inode : /\ \A n \in Name : name[n] # i /\ i \notin pname[n]
                            /\ i \notin twins /\ i # job.fd}

(* The allocator's choice is immaterial: the least free inode. *)
Fresh == {i \in FreeInode : \A j \in FreeInode : i <= j}

(* Bytes written to i that no fsync covers yet: any mixture may survive. *)
Write(i, c, partial) ==
  /\ data' = [data EXCEPT ![i] = c]
  /\ pdata' = [pdata EXCEPT ![i] = @ \cup {partial, c}]
  /\ mtime' = [mtime EXCEPT ![i] = tick']

Fsync(i) == pdata' = [pdata EXCEPT ![i] = {data[i]}]

Bind(n, i) == /\ name' = [name EXCEPT ![n] = i]
              /\ pname' = [pname EXCEPT ![n] = @ \cup {i}]

(* unlink of every name in ns, then fsync of the directory when it works. *)
UnlinkSync(ns) ==
  /\ name' = [n \in Name |-> IF n \in ns THEN Nil ELSE name[n]]
  /\ pname' \in {[n \in Name |-> IF n \in ns THEN {Nil} ELSE pname[n]],
                 [n \in Name |-> IF n \in ns THEN pname[n] \cup {Nil}
                                            ELSE pname[n]]}

(* What a power cut may leave of v, p being each entry's possible values. *)
Survivors(v, p) ==
  LET unsure == {x \in DOMAIN v : p[x] # {v[x]}}
  IN {[x \in DOMAIN v |-> IF x \in unsure THEN f[x] ELSE v[x]] :
        f \in {g \in [unsure -> UNION {p[x] : x \in unsure}] :
                 \A x \in unsure : g[x] \in p[x]}}

FsyncDir(ns) == pname' = [n \in Name |-> IF n \in ns THEN {name[n]}
                                                     ELSE pname[n]]

-----------------------------------------------------------------------------
(* destination_matches and its neighbours *)

MetaMatches(m) == m.exists /\ Dst = m.ino /\ mtime[m.ino] = m.mtime

(* What stat(dst) reports, written over m. *)
Accept(m) == IF Dst = Nil
             THEN [m EXCEPT !.exists = FALSE]
             ELSE [m EXCEPT !.exists = TRUE, !.ino = Dst, !.mtime = mtime[Dst]]

DestinationMatches(m, check) ==
  IF Dst = Nil THEN m.exists => check = "off"
  ELSE \/ MetaMatches(m)
       \/ check = "off"
       \/ check = "content" /\ Whole(m.text) /\ data[Dst] = m.text

(* ... a hard link too many discounted for a journal ... *)
LaxNeedsInplace(m) == Dst # Nil /\ Nlink(Dst) > (IF m.pinned THEN 3 ELSE 1)

(* One link is discounted for the journal, whichever inode dst names now. *)
NeedsInplace(m) == Dst # Nil /\ Nlink(Dst) > (IF m.pinned THEN 2 ELSE 1)

(* The link discounted is there: the file named dst is the one the journal   *)
(* took its base from.                                                       *)
Discounted == job.acc.pinned => name["jbase"] = Dst

(* yew_file_load, when it succeeds *)
Loaded == IF Dst = Nil THEN NoMeta
          ELSE [exists |-> TRUE, ino |-> Dst, mtime |-> mtime[Dst],
                text |-> data[Dst], pinned |-> FALSE]

(* ... in a session that adopts the journal an earlier one left behind *)
Recovered == [Loaded EXCEPT !.pinned = Dst # Nil /\ name["jbase"] = Dst]

(* refresh_saved_meta after a commit to inode i *)
SavedMeta(i) == [exists |-> TRUE, ino |-> i, mtime |-> job.stat,
                 text |-> job.ver, pinned |-> meta.pinned /\ meta.ino = i]

-----------------------------------------------------------------------------
Init ==
  /\ \E there \in BOOLEAN, twin \in BOOLEAN :
       /\ twin => there
       /\ name = [n \in Name |-> IF n = "dst" /\ there THEN 1 ELSE Nil]
       /\ twins = IF twin THEN {1} ELSE {}
  /\ pname = [n \in Name |-> {name[n]}]
  /\ data = [i \in Inode |-> IF i = Dst THEN First ELSE Stub]
  /\ pdata = [i \in Inode |-> {data[i]}]
  /\ tick = First
  /\ mtime = [i \in Inode |-> IF i = Dst THEN First ELSE 0]
  /\ meta = Loaded
  /\ pc = "idle" /\ job = NoJob /\ out = "none"
  /\ meddle = 0 /\ saves = 0 /\ crashes = 0 /\ chk = 0
  /\ late = FALSE /\ lost = {} /\ blind = {} /\ severed = {}

(* The save returns res: to the caller, to file_save, to idle. *)
Return(res) == pc' = "idle" /\ out' = res /\ job' = NoJob

Fail(res) == Return(res) /\ UNCHANGED meta
Commit(res, i) == Return(res) /\ meta' = SavedMeta(i)
Sealed(label) == /\ pc' = label /\ UNCHANGED <<out, meta>>      \* fstat
                 /\ job' = [job EXCEPT !.stat = mtime[job.fd]]
Goto(label) == pc' = label /\ UNCHANGED <<job, out, meta>>

(* A version the destination loses to this save counts as lost when an       *)
(* identity check that should have seen it has passed since it was written.  *)
Overwrite(i) ==
  lost' = IF i # Nil /\ job.check # "off" /\ Whole(data[i])
             /\ data[i] \notin {meta.text, job.ver} /\ data[i] <= chk
             /\ data[i] \notin blind
          THEN lost \cup {data[i]} ELSE lost

-----------------------------------------------------------------------------
(* Plausible bugs, each put before the definition it replaces, show that the *)
(* properties below can fail: a strategy no step carries out ...             *)
UnhandledInplace(acc) == IF acc.exists THEN "overwrite" ELSE "create"

(* inplace_save's first branch: overwrite after a backup, or create. *)
Inplace(acc) == IF acc.exists THEN "bakopen" ELSE "create"

(* file_save: the options, the first identity check, the strategy. *)
Enter(label, acc, v, strategy, check, keep) ==
  /\ pc' = label
  /\ job' = [NoJob EXCEPT !.ver = v, !.strategy = strategy, !.check = check,
                          !.keep = keep, !.acc = acc,
                          !.old = IF Dst = Nil THEN Torn ELSE data[Dst]]

FileSave(strategy, check, force, keep, writable) ==
  LET how == IF force THEN "off" ELSE check
      exp == IF force THEN Accept(meta) ELSE meta
      v   == tick + 1
      acc == Accept(exp)
  IN /\ pc = "idle" /\ saves < MaxSave /\ v <= MaxTick
     /\ saves' = saves + 1 /\ late' = FALSE /\ tick' = v
     /\ chk' = tick
     /\ \/ /\ ~DestinationMatches(exp, how)
           /\ pc' = "idle" /\ job' = NoJob /\ out' = "CHANGED"
        \/ /\ DestinationMatches(exp, how)
           /\ Enter(IF \/ strategy = "inplace"
                       \/ strategy = "auto" /\ (NeedsInplace(exp) \/ ~writable)
                    THEN Inplace(acc) ELSE "opentemp",
                    acc, v, strategy, how, keep)
           /\ UNCHANGED out
        \/ pc' = "idle" /\ job' = NoJob /\ out' = "IO"
     /\ UNCHANGED <<fs, meta, meddle, crashes, lost, blind, severed>>

(* open_temp *)
OpenTemp ==
  /\ pc = "opentemp"
  /\ \/ Fail("IO") /\ UNCHANGED fs
     \/ \E i \in Fresh :
          /\ Bind("tmp", i)
          /\ data' = [data EXCEPT ![i] = Stub]
          /\ pdata' = [pdata EXCEPT ![i] = {Stub}]
          /\ mtime' = [mtime EXCEPT ![i] = tick]
          /\ job' = [job EXCEPT !.fd = i] /\ pc' = "writetemp"
          /\ UNCHANGED <<twins, out, meta>>
  /\ UNCHANGED <<tick, counts, checks, losses>>

DropTemp == UnlinkSync({"tmp"}) /\ UNCHANGED <<data, pdata, mtime, twins>>

(* ... the temporary never fsynced ... *)
UnsyncedWriteTemp ==
  /\ pc = "writetemp"
  /\ \/ Fail("IO") /\ DropTemp
     \/ /\ data' = [data EXCEPT ![job.fd] = job.ver]
        /\ pdata' = [pdata EXCEPT ![job.fd] = @ \cup {job.ver}]
        /\ mtime' = [mtime EXCEPT ![job.fd] = tick]
        /\ Sealed("recheck") /\ UNCHANGED <<name, pname, twins>>
  /\ UNCHANGED <<tick, counts, checks, losses>>

(* write_text into the temporary, complete or cut short by an error *)
WriteTemp ==
  /\ pc = "writetemp"
  /\ \/ Fail("IO") /\ DropTemp
     \/ /\ data' = [data EXCEPT ![job.fd] = job.ver]
        /\ pdata' = [pdata EXCEPT ![job.fd] = @ \cup {job.ver}]
        /\ mtime' = [mtime EXCEPT ![job.fd] = tick]
        /\ Goto("synctemp") /\ UNCHANGED <<name, pname, twins>>
  /\ UNCHANGED <<tick, counts, checks, losses>>

(* fsync_full, then fchown, fchmod, xattrs and fstat on the temporary.  A    *)
(* chown refused for a foreign owner falls back to the in-place save.        *)
SyncTemp ==
  /\ pc = "synctemp"
  /\ \/ Fail("IO") /\ DropTemp
     \/ /\ job.acc.exists /\ job.strategy # "atomic"
        /\ DropTemp /\ Goto(Inplace(job.acc))
     \/ /\ Fsync(job.fd) /\ Sealed("recheck")
        /\ UNCHANGED <<data, name, pname, mtime, twins>>
  /\ UNCHANGED <<tick, counts, checks, losses>>

(* ... the second identity check left out ... *)
UncheckedRecheck ==
  /\ pc = "recheck" /\ chk' = tick /\ late' = FALSE
  /\ job' = [job EXCEPT !.acc = Accept(@)] /\ pc' = "rename"
  /\ UNCHANGED <<fs, tick, out, meta, counts, losses>>

(* the second destination_matches, just before the rename *)
Recheck ==
  /\ pc = "recheck"
  /\ chk' = tick /\ late' = FALSE
  /\ \/ /\ ~DestinationMatches(job.acc, job.check)
        /\ Fail("CHANGED") /\ DropTemp
     \/ /\ DestinationMatches(job.acc, job.check)
        /\ job' = [job EXCEPT !.acc = Accept(@)] /\ UNCHANGED <<out, meta>>
        /\ \/ /\ NeedsInplace(job.acc) /\ job.strategy # "atomic"
              /\ pc' = Inplace(Accept(job.acc)) /\ DropTemp
           \/ /\ ~(NeedsInplace(job.acc) /\ job.strategy # "atomic")
              /\ pc' = "rename" /\ UNCHANGED fs
     \/ Fail("IO") /\ DropTemp
  /\ UNCHANGED <<tick, counts, losses>>

(* commit_temp, first half: rename(tmp, dst) *)
Rename ==
  /\ pc = "rename"
  /\ \/ /\ Fail("IO") /\ DropTemp
        /\ UNCHANGED <<lost, severed>>
     \/ /\ job.strategy # "atomic" /\ DropTemp              \* EXDEV
        /\ Goto(Inplace(job.acc))
        /\ UNCHANGED <<lost, severed>>
     \/ /\ name' = [name EXCEPT !["dst"] = job.fd, !["tmp"] = Nil]
        /\ pname' = [pname EXCEPT !["dst"] = @ \cup {job.fd},
                                  !["tmp"] = @ \cup {Nil}]
        /\ Overwrite(Dst)
        /\ severed' = IF job.strategy # "atomic" /\ ~late /\ Discounted
                      THEN severed \cup ({Dst} \cap twins) ELSE severed
        /\ Goto("syncdir") /\ UNCHANGED <<data, pdata, mtime, twins>>
  /\ UNCHANGED <<tick, counts, checks, blind>>

(* ... the directory never fsynced ... *)
UnsyncedDir ==
  /\ pc = "syncdir" /\ Commit("OK", job.fd)
  /\ UNCHANGED <<fs, tick, counts, checks, losses>>

(* commit_temp, second half: the directory fsync.  Its failure is reported   *)
(* as a failed save although the new file is in place.                       *)
SyncDir ==
  /\ pc = "syncdir"
  /\ \/ Fail("IO") /\ UNCHANGED fs
     \/ /\ Commit("OK", job.fd) /\ FsyncDir(DstDir)
        /\ UNCHANGED <<data, pdata, name, mtime, twins>>
  /\ UNCHANGED <<tick, counts, checks, losses>>

-----------------------------------------------------------------------------
(* inplace_save.  Without a destination: create, write, fsync, fsync the     *)
(* directory; any failure unlinks the name again.                            *)
Create ==
  /\ pc = "create"
  /\ \/ Fail("IO") /\ UNCHANGED fs
     \/ /\ Dst = Nil                                        \* O_EXCL
        /\ \E i \in Fresh :
             /\ Bind("dst", i)
             /\ data' = [data EXCEPT ![i] = Stub]
             /\ pdata' = [pdata EXCEPT ![i] = {Stub}]
             /\ mtime' = [mtime EXCEPT ![i] = tick]
             /\ job' = [job EXCEPT !.fd = i] /\ pc' = "fill"
        /\ UNCHANGED <<twins, out, meta>>
  /\ UNCHANGED <<tick, counts, checks, losses>>

(* The name is unlinked whatever it is bound to by now. *)
Uncreate ==
  /\ Fail("IO") /\ UnlinkSync({"dst"})
  /\ UNCHANGED <<data, pdata, mtime, twins>> /\ Overwrite(Dst)

Fill ==
  /\ pc = "fill"
  /\ \/ Uncreate
     \/ /\ data' = [data EXCEPT ![job.fd] = job.ver]
        /\ pdata' = [pdata EXCEPT ![job.fd] = @ \cup {job.ver}]
        /\ mtime' = [mtime EXCEPT ![job.fd] = tick]
        /\ Goto("syncnew") /\ UNCHANGED <<name, pname, twins, lost>>
  /\ UNCHANGED <<tick, counts, checks, blind, severed>>

SyncNew ==
  /\ pc = "syncnew"
  /\ \/ Uncreate
     \/ /\ Fsync(job.fd) /\ Sealed("syncnewdir")
        /\ UNCHANGED <<data, name, pname, mtime, twins, lost>>
  /\ UNCHANGED <<tick, counts, checks, blind, severed>>

SyncNewDir ==
  /\ pc = "syncnewdir"
  /\ \/ Uncreate
     \/ /\ Commit("OK", job.fd) /\ FsyncDir(DstDir)
        /\ UNCHANGED <<data, pdata, name, mtime, twins, lost>>
  /\ UNCHANGED <<tick, counts, checks, blind, severed>>

(* copy_path_to_backup: the source must still be the accepted inode when it  *)
(* is opened (ESTALE otherwise); a copy overtaken by a writer may be torn.   *)
BakOpen ==
  /\ pc = "bakopen"
  /\ \/ Fail("IO") /\ UNCHANGED <<chk, late>>
     \/ /\ Dst # Nil /\ ~MetaMatches(job.acc)
        /\ Fail("CHANGED") /\ UNCHANGED <<chk, late>>
     \/ /\ MetaMatches(job.acc)
        /\ chk' = tick /\ late' = FALSE
        /\ pc' = "bakcopy" /\ job' = [job EXCEPT !.copy = data[Dst]]
        /\ UNCHANGED <<out, meta>>
  /\ UNCHANGED <<fs, tick, counts, losses>>

Copies(was, is) == IF was = is THEN {is} ELSE {was, is, Torn}

BakCopy ==
  /\ pc = "bakcopy"
  /\ \/ Fail("IO") /\ UNCHANGED fs
     \/ \E i \in Fresh, c \in Copies(job.copy, data[job.acc.ino]) :
          /\ data' = [data EXCEPT ![i] = c]
          /\ pdata' = [pdata EXCEPT ![i] = {c}]             \* fsync_full(bak)
          /\ mtime' = [mtime EXCEPT ![i] = tick]
          /\ job' = [job EXCEPT !.fd = i] /\ pc' = "baklink"
          /\ UNCHANGED <<name, pname, twins, out, meta>>
  /\ UNCHANGED <<tick, counts, checks, losses>>

(* link(tmp, pending) refuses to replace an earlier pending backup: the loop *)
(* of inplace_save starts the copy again under the other name.               *)
BakLink ==
  /\ pc = "baklink"
  /\ \/ Fail("IO") /\ UNCHANGED fs
     \/ /\ name[job.pend] = Nil
        /\ Bind(job.pend, job.fd) /\ Goto("baksync")
        /\ UNCHANGED <<data, pdata, mtime, twins>>
     \/ /\ name[job.pend] # Nil /\ job.pend = "pend0"
        /\ job' = [job EXCEPT !.pend = "pend1", !.fd = Nil]
        /\ pc' = "bakopen" /\ UNCHANGED <<fs, out, meta>>
  /\ UNCHANGED <<tick, counts, checks, losses>>

(* ... the backup's directory entry not made durable ... *)
UnsyncedBak == /\ pc = "baksync" /\ Goto("ipopen")
               /\ UNCHANGED <<fs, tick, counts, checks, losses>>

BakSync ==
  /\ pc = "baksync"
  /\ \/ Fail("IO") /\ UNCHANGED fs
     \/ /\ FsyncDir(Backups) /\ Goto("ipopen")
        /\ UNCHANGED <<data, pdata, name, mtime, twins>>
  /\ UNCHANGED <<tick, counts, checks, losses>>

DropPending ==
  UnlinkSync({job.pend}) /\ UNCHANGED <<data, pdata, mtime, twins>>

(* ... and the destination not checked again after the copy. *)
UncheckedIpOpen ==
  /\ pc = "ipopen" /\ Dst # Nil /\ chk' = tick /\ late' = FALSE
  /\ job' = [job EXCEPT !.fd = Dst, !.old = data[Dst]] /\ pc' = "ipwrite"
  /\ UNCHANGED <<fs, tick, out, meta, counts, losses>>

(* open(dst, O_WRONLY) and the last identity check, on the descriptor *)
IpOpen ==
  /\ pc = "ipopen"
  /\ \/ Fail("IO") /\ DropPending /\ UNCHANGED <<chk, late>>
     \/ /\ Dst # Nil /\ ~MetaMatches(job.acc)
        /\ Fail("CHANGED") /\ DropPending /\ UNCHANGED <<chk, late>>
     \/ /\ MetaMatches(job.acc)
        /\ chk' = tick /\ late' = FALSE
        /\ job' = [job EXCEPT !.fd = Dst, !.old = data[Dst]]
        /\ pc' = "ipwrite"
        /\ UNCHANGED <<fs, out, meta>>
  /\ UNCHANGED <<tick, counts, losses>>

(* write_text over the old bytes: partly, then all of it *)
IpWrite ==
  /\ pc = "ipwrite"
  /\ \/ Goto("restore") /\ UNCHANGED <<fs, tick, lost>>
     \/ /\ tick < MaxTick /\ tick' = tick + 1
        /\ Write(job.fd, Torn, Torn)
        /\ Overwrite(job.fd)
        /\ Goto("iprest") /\ UNCHANGED <<name, pname, twins>>
  /\ UNCHANGED <<counts, checks, blind, severed>>

IpRest ==
  /\ pc = "iprest"
  /\ \/ Goto("restore") /\ UNCHANGED fs
     \/ /\ data' = [data EXCEPT ![job.fd] = job.ver]
        /\ pdata' = [pdata EXCEPT ![job.fd] = @ \cup {job.ver}]
        /\ Goto("ipsync")
        /\ UNCHANGED <<name, pname, mtime, twins>>
  /\ UNCHANGED <<tick, counts, checks, losses>>

IpSync ==
  /\ pc = "ipsync"
  /\ \/ Goto("restore") /\ UNCHANGED fs
     \/ /\ Fsync(job.fd) /\ Sealed("rotate")
        /\ UNCHANGED <<data, name, pname, mtime, twins>>
  /\ UNCHANGED <<tick, counts, checks, losses>>

(* restore_backup: the pending copy goes back over whatever dst names now;   *)
(* the copy is discarded only when every step of that worked.                *)
Restore ==
  /\ pc = "restore"
  /\ \/ Fail("IO") /\ UNCHANGED <<fs, tick, lost>>
     \/ /\ Dst # Nil /\ tick < MaxTick /\ tick' = tick + 1
        /\ Write(Dst, Torn, Torn) /\ Overwrite(Dst)
        /\ pc' = "restoring" /\ job' = [job EXCEPT !.fd = Dst]
        /\ UNCHANGED <<out, meta, name, pname, twins>>
  /\ UNCHANGED <<counts, checks, blind, severed>>

Restoring ==
  /\ pc = "restoring"
  /\ \/ Fail("IO") /\ UNCHANGED fs
     \/ LET c == data[name[job.pend]]
        IN /\ data' = [data EXCEPT ![job.fd] = c]
           /\ pdata' = [pdata EXCEPT ![job.fd] = {c}]
           /\ UnlinkSync({job.pend})
           /\ Fail("IO") /\ UNCHANGED <<mtime, twins>>
  /\ UNCHANGED <<tick, counts, checks, losses>>

(* commit_backup_rotation, as BackupRotation.tla details it: the pending     *)
(* copy becomes the newest backup, or is dropped when none is kept, or stays *)
(* where it is when the rotation fails (YEW_SAVE_BACKUP_FAILED).             *)
Rotate ==
  /\ pc = "rotate"
  /\ \/ /\ Commit("BACKUP_FAILED", job.fd) /\ UNCHANGED fs
     \/ /\ job.keep = 0 /\ Commit("OK", job.fd) /\ DropPending
     \/ /\ job.keep = 1
        /\ name' = [name EXCEPT !["base"] = name[job.pend], ![job.pend] = Nil]
        /\ \/ Commit("OK", job.fd)
              /\ pname' = [n \in Name |-> IF n \in Backups THEN {name'[n]}
                                                           ELSE pname[n]]
           \/ Commit("BACKUP_FAILED", job.fd)
              /\ pname' = [n \in Name |-> pname[n] \cup {name'[n]}]
        /\ UNCHANGED <<data, pdata, mtime, twins>>
  /\ UNCHANGED <<tick, counts, checks, losses>>

Save == \/ OpenTemp \/ WriteTemp \/ SyncTemp \/ Recheck \/ Rename \/ SyncDir
        \/ Create \/ Fill \/ SyncNew \/ SyncNewDir
        \/ BakOpen \/ BakCopy \/ BakLink \/ BakSync \/ IpOpen \/ IpWrite
        \/ IpRest \/ IpSync \/ Restore \/ Restoring \/ Rotate

-----------------------------------------------------------------------------
(* The editor outside a save: it reloads the file, and its journal may take  *)
(* or give up a hard link of the file it is based on.                        *)
Reload ==
  /\ pc = "idle" /\ meta # [Loaded EXCEPT !.pinned = meta.pinned]
  /\ meta' = Loaded /\ out' = "none"
  /\ name' = [name EXCEPT !["jbase"] = Nil]
  /\ pname' = [pname EXCEPT !["jbase"] = {Nil}]
  /\ UNCHANGED <<data, pdata, mtime, twins, tick, pc, job>>
  /\ UNCHANGED <<counts, checks, losses>>

Pin ==
  /\ Pinning /\ pc = "idle" /\ name["jbase"] = Nil /\ MetaMatches(meta)
  /\ name' = [name EXCEPT !["jbase"] = Dst]
  /\ pname' = [pname EXCEPT !["jbase"] = {Dst}]
  /\ meta' = [meta EXCEPT !.pinned = TRUE]
  /\ UNCHANGED <<data, pdata, mtime, twins, tick, pc, job, out>>
  /\ UNCHANGED <<counts, checks, losses>>

(* yew_journal_discard after a committed save *)
Unpin ==
  /\ pc = "idle" /\ name["jbase"] # Nil /\ out \in {"OK", "BACKUP_FAILED"}
  /\ name' = [name EXCEPT !["jbase"] = Nil]
  /\ pname' = [pname EXCEPT !["jbase"] = {Nil}]
  /\ meta' = [meta EXCEPT !.pinned = FALSE]
  /\ UNCHANGED <<data, pdata, mtime, twins, tick, pc, job, out>>
  /\ UNCHANGED <<counts, checks, losses>>

(* Another program.  Its own writes are taken to be atomic and durable. *)
Meddle ==
  /\ meddle < MaxMeddle /\ meddle' = meddle + 1 /\ late' = TRUE
  /\ pc # "idle" \/ saves < MaxSave
  /\ tick < MaxTick /\ tick' = tick + 1
  /\ \/ /\ Dst # Nil                                        \* rewrite in place
        /\ data' = [data EXCEPT ![Dst] = tick']
        /\ pdata' = [pdata EXCEPT ![Dst] = {tick'}]
        /\ mtime' = [mtime EXCEPT ![Dst] = tick']
        /\ UNCHANGED <<name, pname, twins>>
     \/ \E i \in Fresh, linked \in BOOLEAN :            \* replace
          /\ data' = [data EXCEPT ![i] = tick']
          /\ pdata' = [pdata EXCEPT ![i] = {tick'}]
          /\ mtime' = [mtime EXCEPT ![i] = tick']
          /\ name' = [name EXCEPT !["dst"] = i]
          /\ pname' = [pname EXCEPT !["dst"] = {i}]
          /\ twins' = IF linked THEN twins \cup {i} ELSE twins
     \/ /\ Dst # Nil                                        \* touch
        /\ mtime' = [mtime EXCEPT ![Dst] = tick']
        /\ UNCHANGED <<data, pdata, name, pname, twins>>
     \/ /\ Dst # Nil                                        \* delete
        /\ name' = [name EXCEPT !["dst"] = Nil]
        /\ pname' = [pname EXCEPT !["dst"] = {Nil}]
        /\ UNCHANGED <<data, pdata, mtime, twins>>
     \/ /\ Dst # Nil /\ Dst \notin twins                    \* hard-link
        /\ twins' = twins \cup {Dst}
        /\ UNCHANGED <<data, pdata, name, pname, mtime>>
  /\ blind' = IF pc \in {"ipwrite", "iprest", "ipsync", "fill", "syncnew"}
              THEN blind \cup {tick'} ELSE blind
  /\ UNCHANGED <<editor, saves, crashes, chk, lost, severed>>

(* A kill leaves the caches; a power cut leaves any surviving combination.   *)
(* The next session loads what is there.                                     *)
Crash ==
  /\ pc # "idle" /\ crashes < MaxCrash /\ crashes' = crashes + 1
  /\ \/ UNCHANGED <<data, pdata, name, pname>>
     \/ \E d \in Survivors(data, pdata), n \in Survivors(name, pname) :
          /\ data' = d /\ pdata' = [i \in Inode |-> {d[i]}]
          /\ name' = n /\ pname' = [x \in Name |-> {n[x]}]
  /\ pc' = "idle" /\ job' = NoJob /\ out' = "none"
  /\ UNCHANGED <<mtime, twins, tick, meddle, saves, chk, late,
                 lost, blind, severed>>
  /\ meta' = Recovered'

SomeSave ==
  \E s \in Strategies, c \in Checks, f \in Forces, k \in Keeps, w \in BOOLEAN :
     FileSave(s, c, f, k, w)

Next == SomeSave \/ Save \/ Reload \/ Pin \/ Unpin \/ Meddle \/ Crash

Spec == Init /\ [][Next]_vars

-----------------------------------------------------------------------------
Content == Nat
MetaType == [exists : BOOLEAN, ino : Inode \cup {Nil}, mtime : Nat,
             text : Content, pinned : BOOLEAN]
Labels == {"idle", "opentemp", "writetemp", "synctemp", "recheck", "rename",
           "syncdir", "create", "fill", "syncnew", "syncnewdir", "bakopen",
           "bakcopy", "baklink", "baksync", "ipopen", "ipwrite", "iprest",
           "ipsync", "restore", "restoring", "rotate"}

JobType == [ver : Content, strategy : {"auto", "atomic", "inplace"},
            check : {"off", "mtime", "content"}, keep : {0, 1},
            acc : MetaType, fd : Inode \cup {Nil}, copy : Content,
            pend : Pendings, old : Content, stat : Nat]

FilesOK == /\ data \in [Inode -> Content]
           /\ pdata \in [Inode -> SUBSET Content]
           /\ name \in [Name -> Inode \cup {Nil}]
           /\ pname \in [Name -> SUBSET (Inode \cup {Nil})]
           /\ mtime \in [Inode -> Nat]
           /\ twins \in SUBSET Inode /\ tick \in Nat

EditorOK == /\ meta \in MetaType /\ pc \in Labels /\ job \in JobType
            /\ out \in {"none", "OK", "IO", "CHANGED", "BACKUP_FAILED"}

(* Types of the variables that stand for state of the code. *)
TypeOK == FilesOK /\ EditorOK

(* README "Data-safety contract": whatever a kill or a power cut leaves, a   *)
(* partly overwritten destination has a complete, durable copy in a backup.  *)
Recoverable ==
  \A i \in pname["dst"] \ {Nil} : Torn \in pdata[i] =>
     \E n \in Backups : \A j \in pname[n] : j # Nil /\ Torn \notin pdata[j]

(* While the old bytes are being overwritten (IpWrite to commit or restore), *)
(* the pending copy is exactly the text the last identity check accepted,    *)
(* even when another program wrote the file during the copy.                 *)
BackupIsExact ==
  pc \in {"ipwrite", "iprest", "ipsync", "restore", "restoring", "rotate"} =>
     name[job.pend] # Nil /\ data[name[job.pend]] = job.old

(* A save with save.check_disk on never overwrites or unlinks a version that *)
(* another program wrote before the last identity check of that save.        *)
NoVisibleChangeLost == lost = {}

(* Unless save.strategy = atomic asks for it, a rename never cuts off a hard *)
(* link of the user's ("every other hardlink is user topology and still      *)
(* requires an in-place save", destination_matches).  Not meant: a save over *)
(* another file than the journal's base, for which a link is discounted all  *)
(* the same, see HardlinksKeptOverAnother.                                   *)
HardlinksKept == severed = {}

Returns(results) == pc # "idle" /\ pc' = "idle" /\ out' \in results

(* A save that reports the document durable (yew_save_committed) has left    *)
(* nothing else for a power cut to bring back in the inode it wrote, nor in  *)
(* the directory entry if it bound one, unless another program acted on the  *)
(* file after the last check.                                                *)
OkIsDurable ==
  [][Returns({"OK", "BACKUP_FAILED"}) /\ ~late =>
       /\ Dst' = job.fd /\ pdata'[job.fd] = {job.ver}
       /\ pc \in {"syncdir", "syncnewdir"} => pname'["dst"] = {job.fd}]_vars

-----------------------------------------------------------------------------
(* file_save implements AtomicFile as long as no save with another strategy  *)
(* than save.strategy = atomic is under way.                                 *)
Text == IF Dst = Nil THEN Torn ELSE data[Dst]
Risk == UNION {IF i = Nil THEN {Torn} ELSE pdata[i] : i \in pname["dst"]}

Promise == INSTANCE AtomicFile WITH
  text <- Text, risk <- Risk, goal <- job.ver, done <- pc = "syncdir",
  answer <- out, others <- meddle

Under(strategy, step) == step = "idle" \/ strategy = "atomic"

ImplementsAtomicFile ==
  /\ Promise!Init
  /\ [][Under(job.strategy, pc) /\ Under(job'.strategy, pc') =>
         Promise!Next]_(Promise!vars)
=============================================================================
