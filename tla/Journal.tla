------------------------------ MODULE Journal ------------------------------
(* The crash journal (src/text/journal.c) of one file, as the edit context   *)
(* (src/text/edit.c) and the recovery prompt (src/edit/ed.c) use it: opening *)
(* or adopting it, recording and syncing edits, discarding it after a save,  *)
(* and recovering, declining or ignoring what a dead session left.  Several  *)
(* editors may open the file; any call may fail; an editor may be killed and *)
(* the machine may lose power between any two steps.                         *)
(*                                                                           *)
(* A text is the sequence of the edits made since the empty text, so that a  *)
(* record replayed on a text it was not made on gives a text nobody wrote.   *)
(* One file and one journal name; an inode is an index of disk, a journal    *)
(* file an index of journals, and 0 means there is none.                     *)
EXTENDS Naturals, Sequences, SequencesExt

CONSTANTS
  Editors,       \* processes that may open the file
  Answers,       \* answers given to the recovery prompt
  Meddling,      \* what other programs do to the file
  Places,        \* what there may be at first: whether the file exists, and
                 \* whether the state directory can hold hard links to it
  MaxClock,      \* bound: edits, saves and changes by other programs
  MaxLog,        \* bound: journal files created
  MaxLeave,      \* bound: sessions that end without a clean save
  MaxMeddle      \* bound: changes by other programs

ASSUME JournalAssumption ==
  /\ Answers \subseteq {"recover", "discard", "as is"}
  /\ Meddling \subseteq {"replace", "rewrite", "touch"}
  /\ Places \subseteq [exists : BOOLEAN, near : BOOLEAN]
  /\ MaxClock \in Nat \ {0} /\ {MaxLog, MaxLeave, MaxMeddle} \subseteq Nat

VARIABLES
  disk,      \* inodes: text and mtime
  dst,       \* the inode the file's name refers to, 0 if it does not exist
  backups,   \* texts held by pending in-place backups (FileSave)
  journals,  \* journal files: header, records, and how much of it is durable
  dir,       \* j, b: the journal's and the base's name; oldj, oldb: .stale;
             \* near: on the device of the file
  cut,       \* the directories a power cut may leave
  ed,        \* the editors
  clock,     \* the last edit number or mtime given out
  leaves, meddles,    \* how many so far
  owed,      \* history: what a session that ended still had unsaved
  spoilt,    \* history: another program overwrote an inode a base links to
  baseless,  \* history: journals whose base a discard removed
  unread     \* history: journals a session went on with whose records its
             \* buffer did not hold

files   == <<disk, dst, backups>>
log     == <<journals, dir, cut>>
bounds  == <<leaves, meddles>>
history == <<owed, spoilt, baseless, unread>>
vars    == <<files, log, ed, clock, bounds, history>>

NoBase   == [kind |-> "none", ino |-> 0, text |-> <<>>]
NoHeader == [ino |-> 0, mtime |-> 0, base |-> NoBase]
Bad      == [op |-> 0, on |-> <<>>]         \* a record cut short
Torn     == <<0>>                           \* half old, half new

(* What recovery must still be able to give: one of now, if processes only   *)
(* were killed, one of late if the power went; nothing then if late is empty.*)
Nothing == [now |-> {}, late |-> {}]

Blank == [pc |-> "out", goal |-> "none", text |-> <<>>, fd |-> 0,
          meta |-> [ino |-> 0, mtime |-> 0], base |-> NoBase, held |-> FALSE,
          bad |-> FALSE, synced |-> TRUE, prot |-> Nothing]

Init ==
  /\ disk = << [text |-> <<1>>, mtime |-> 1] >>
  /\ \E place \in Places :
       /\ dst = IF place.exists THEN 1 ELSE 0
       /\ dir = [j |-> 0, b |-> NoBase, oldj |-> {}, oldb |-> {}, near |-> place.near]
  /\ backups = <<>> /\ journals = <<>> /\ cut = {dir}
  /\ ed = [p \in Editors |-> Blank] /\ clock = 1
  /\ leaves = 0 /\ meddles = 0 /\ owed = {} /\ spoilt = FALSE
  /\ baseless = {} /\ unread = {}

-----------------------------------------------------------------------------
(* Reading the state.                                                        *)

At(i)     == IF i = 0 THEN [text |-> <<>>, mtime |-> 0] ELSE disk[i]
MetaOf(i) == [ino |-> i, mtime |-> At(i).mtime]       \* stat_matches_meta

BaseText(b) == IF b.kind = "link" THEN disk[b.ino].text ELSE b.text

(* journal_fd_valid: a regular file of ours with exactly one name *)
Sound(f) == (dir.j = f) # (f \in dir.oldj)

(* Plausible bugs, to show that the properties below can fail: taking the    *)
(* inode for the same text whatever was written to it since ...              *)
LaxHeaderMatches(f, m) ==
  journals[f].hdr # NoHeader /\ journals[f].hdr.ino = m.ino

HeaderMatches(f, m) ==
  LET h == journals[f].hdr
  IN h # NoHeader /\ h.ino = m.ino /\ h.mtime = m.mtime

(* base_matches_header: a link by inode and mtime, a copy by its checksum *)
BaseMatches(f) ==
  LET h == journals[f].hdr IN
  /\ dir.b.kind = h.base.kind
  /\ \/ dir.b.kind = "link" /\ MetaOf(dir.b.ino) = [ino |-> h.ino,
                                                    mtime |-> h.mtime]
     \/ dir.b.kind = "copy" /\ dir.b \notin dir.oldb /\ dir.b = h.base

Matches(f, m) == /\ journals[f].hdr # NoHeader
                 /\ HeaderMatches(f, m) \/ BaseMatches(f)

(* The header and the records of a journal file, counted. *)
Size(x) == IF x.hdr = NoHeader THEN 0 ELSE Len(x.recs) + 1

(* valid_record_prefix *)
ValidPrefix(r) == LET bad == SelectInSeq(r, LAMBDA x : x = Bad)
                  IN IF bad = 0 THEN r ELSE SubSeq(r, 1, bad - 1)

(* The text after n records, and where replay may stop: apply_record refuses *)
(* some of the records that were made on another text.                       *)
After(t, r, n) == t \o [i \in 1 .. n |-> r[i].op]
Stops(t, r)    == {n \in 0 .. Len(r) :
                     n = Len(r) \/ r[n + 1].on # After(t, r, n)}

(* lock_journal: an fcntl write lock belongs to one process. *)
Free(p, f) == \A q \in Editors \ {p} : ~(ed[q].held /\ ed[q].fd = f)

-----------------------------------------------------------------------------
(* Steps.                                                                    *)

Goto(p, label) == ed' = [ed EXCEPT ![p].pc = label]

(* What the journal holds is not taken in: the session edits without it. *)
GoOn(p) == ed' = [ed EXCEPT ![p].pc = "edit", ![p].goal = "aside"]

(* ... or closing a journal and taking its lock for held still *)
LeakyClose(p, label) ==
  ed' = [ed EXCEPT ![p].pc = label, ![p].fd = 0, ![p].bad = FALSE]

Close(p, label) == ed' = [ed EXCEPT ![p].pc = label, ![p].fd = 0,
                            ![p].base = NoBase, ![p].held = FALSE, ![p].bad = FALSE]

Change(d) == dir' = d /\ cut' = cut \cup {d}        \* not yet synced
Commit(d) == dir' = d /\ cut' = {d}                 \* and fsync_dir
SetJournal(f, new) == journals' = [journals EXCEPT ![f] = new]

(* Opening the file: yew_file_load, then yew_journal_probe, which also says  *)
(* there is nothing when a call of it fails; a headless session never asks.  *)
Load(p) ==
  /\ ed[p].pc = "out"
  /\ ed' = [ed EXCEPT ![p] = [Blank EXCEPT !.pc = "loaded",
                              !.text = At(dst).text, !.meta = MetaOf(dst)]]
  /\ UNCHANGED <<files, log, clock, bounds, history>>

Probe(p) ==
  /\ ed[p].pc = "loaded"
  /\ \/ LET f == dir.j IN
        IF f # 0 /\ Sound(f) /\ Matches(f, ed[p].meta)
        THEN Goto(p, "asked") ELSE Goto(p, "edit")
     \/ GoOn(p)
  /\ UNCHANGED <<files, log, clock, bounds, history>>

(* Esc *)
AsIs(p) ==
  /\ ed[p].pc = "asked" /\ "as is" \in Answers /\ GoOn(p)
  /\ UNCHANGED <<files, log, clock, bounds, history>>

(* What replaying f on p's text, or on the base, gives. *)
Current(p, f) == HeaderMatches(f, ed[p].meta)
From(p, f)    == IF Current(p, f) THEN ed[p].text ELSE BaseText(dir.b)
Answered(f, t) == IF f \in unread THEN {}
                  ELSE {o \in owed : t \in o.now \cup o.late}

Replay(p, f, n) ==
  LET h == journals[f].hdr
      t == After(From(p, f), journals[f].recs, n)
  IN /\ ed' = [ed EXCEPT
          ![p].pc = "open", ![p].goal = "none", ![p].text = t,
          ![p].meta = IF Current(p, f) THEN @ ELSE [ino |-> h.ino,
                                                    mtime |-> h.mtime],
          ![p].prot = IF Answered(f, t) = {} THEN Nothing ELSE
                      [now |-> {t},
                       late |-> UNION {o.late : o \in Answered(f, t)}]]
     /\ owed' = owed \ Answered(f, t)
     /\ IF n = Len(journals[f].recs) THEN UNCHANGED journals
        ELSE \/ SetJournal(f, [journals[f] EXCEPT !.recs = SubSeq(@, 1, n),
                                                  !.safe = n + 1])
             \/ UNCHANGED journals                   \* ftruncate failed

(* 'r': yew_journal_replay_edit, after it yew_journal_open.  It fails where  *)
(* a call does, or preserves the journal where the base cannot be read.      *)
Recover(p) ==
  /\ ed[p].pc = "asked" /\ "recover" \in Answers
  /\ LET f == dir.j IN
     \/ GoOn(p) /\ UNCHANGED <<journals, owed>>
     \/ /\ f # 0 /\ Free(p, f) /\ Sound(f)
        /\ \/ /\ Matches(f, ed[p].meta)
              /\ \E n \in Stops(From(p, f), ValidPrefix(journals[f].recs)) :
                   Replay(p, f, n)
           \/ /\ ~Current(p, f)
              /\ ed' = [ed EXCEPT ![p].pc = "oldBase", ![p].goal = "replay",
                                  ![p].fd = f, ![p].held = TRUE]
              /\ UNCHANGED <<journals, owed>>
  /\ UNCHANGED <<files, dir, cut, clock, bounds, spoilt, baseless, unread>>

(* 'd': yew_journal_discard_path, whose unlinks are DropBase and DropLog *)
Decline(p) ==
  /\ ed[p].pc = "asked" /\ "discard" \in Answers
  /\ LET f == dir.j
         r == ValidPrefix(journals[f].recs) IN
     \/ /\ f # 0 /\ Free(p, f) /\ Sound(f) /\ Matches(f, ed[p].meta)
        /\ ed' = [ed EXCEPT ![p].pc = "dropBase", ![p].fd = f,
                            ![p].goal = "decline", ![p].held = TRUE]
        /\ owed' = owed \ Answered(f, After(From(p, f), r, Len(r)))
     \/ GoOn(p) /\ UNCHANGED owed
  /\ UNCHANGED <<files, log, clock, bounds, spoilt, baseless, unread>>

-----------------------------------------------------------------------------
(* yew_journal_open.  Refused leaves the editor "stuck": durability_failed,  *)
(* nothing but a save or q! until then.                                      *)

(* The first edit since loading or saving: yew_edit_ensure_journal.  A       *)
(* journal that could not be discarded is one that was not taken in, too.    *)
Ensure(p) ==
  /\ ed[p].pc = "edit" /\ ed[p].fd = 0 /\ clock < MaxClock
  /\ ed' = [ed EXCEPT ![p].pc = "open", ![p].goal =
              IF @ \in {"aside", "decline"} THEN "aside" ELSE "none"]
  /\ UNCHANGED <<files, log, clock, bounds, history>>

(* open(O_CREAT | O_EXCL), or of the journal that is there *)
OpenLog(p) ==
  /\ ed[p].pc = "open"
  /\ \/ /\ dir.j = 0
        /\ journals' = Append(journals, [hdr |-> NoHeader, recs |-> <<>>,
                                         safe |-> 0])
        /\ Change([dir EXCEPT !.j = Len(journals')])
        /\ ed' = [ed EXCEPT ![p].pc = "lock", ![p].fd = Len(journals'),
                            ![p].goal = "create"]
     \/ /\ dir.j # 0 /\ ed[p].goal # "again"
        /\ ed' = [ed EXCEPT ![p].pc = "adopt", ![p].fd = dir.j]
        /\ UNCHANGED log
     \/ Close(p, "stuck") /\ UNCHANGED log
  /\ UNCHANGED <<files, clock, bounds, history>>

(* lock_journal of a journal just created; failing removes it, by its name. *)
Lock(p) ==
  /\ ed[p].pc = "lock"
  /\ IF Free(p, ed[p].fd)
     THEN /\ ed' = [ed EXCEPT ![p].held = TRUE, ![p].pc = "oldBase"]
          /\ UNCHANGED log
     ELSE /\ Change([dir EXCEPT !.j = 0]) /\ Close(p, "stuck")
          /\ UNCHANGED journals
  /\ UNCHANGED <<files, clock, bounds, history>>

(* ... or adopting without the lock *)
UnlockedAdopt(p) ==
  LET f == ed[p].fd IN
  /\ ed[p].pc = "adopt" /\ Sound(f) /\ HeaderMatches(f, ed[p].meta)
  /\ ed' = [ed EXCEPT ![p].pc = "edit", ![p].held = TRUE]
  /\ UNCHANGED <<files, log, clock, bounds, history>>

(* adopt_existing_journal: one of this version of the file is cut to its     *)
(* valid prefix and continued, whether or not the buffer holds its records;  *)
(* any other is preserved under .stale names.                                *)
Unread(p, f, r) ==
  IF ed[p].goal = "aside"
  THEN /\ unread' = IF r = <<>> THEN unread ELSE unread \cup {f}
       /\ owed' = owed \ Answered(f, After(ed[p].text, r, Len(r)))
  ELSE UNCHANGED <<unread, owed>>

Adopt(p) ==
  LET f == ed[p].fd
      r == ValidPrefix(journals[f].recs) IN
  /\ ed[p].pc = "adopt"
  /\ \/ /\ Free(p, f) /\ Sound(f) /\ HeaderMatches(f, ed[p].meta)
        /\ ed' = [ed EXCEPT ![p].pc = "edit", ![p].held = TRUE]
        /\ IF r = journals[f].recs THEN UNCHANGED journals
           ELSE SetJournal(f, [journals[f] EXCEPT !.recs = r,
                                                  !.safe = Len(r) + 1])
        /\ Unread(p, f, r)
     \/ /\ Free(p, f) /\ Sound(f) /\ ~HeaderMatches(f, ed[p].meta)
        /\ ed' = [ed EXCEPT ![p].pc = "oldBase", ![p].goal = "again",
                            ![p].held = TRUE]
        /\ UNCHANGED <<journals, unread, owed>>
     \/ Close(p, "stuck") /\ UNCHANGED <<journals, unread, owed>>
  /\ UNCHANGED <<files, dir, cut, clock, bounds, spoilt, baseless>>

(* A created journal that cannot be used is removed again, with its base.    *)
GiveUp(p, base) ==
  /\ \E d \in { [dir EXCEPT !.j = 0],
                IF base THEN [dir EXCEPT !.j = 0, !.b = NoBase] ELSE dir } :
       dir' = d /\ cut' = cut \cup {[dir EXCEPT !.j = 0], d}
  /\ Close(p, "stuck")

(* A step of preserve_stale_path that fails *)
NotPreserved(p) ==
  IF ed[p].goal = "create" THEN GiveUp(p, FALSE)
  ELSE /\ Close(p, IF ed[p].goal = "again" THEN "stuck" ELSE "edit")
       /\ UNCHANGED <<dir, cut>>

(* preserve_stale_path of the base: link to .stale, unlink, fsync_dir; with  *)
(* goal "create" it is the orphan of a journal that is gone.                 *)
PreserveBase(p) ==
  /\ ed[p].pc = "oldBase"
  /\ \/ /\ dir.b = NoBase /\ UNCHANGED <<dir, cut>>
        /\ Goto(p, IF ed[p].goal = "create" THEN "base" ELSE "oldLog")
     \/ /\ dir.b # NoBase /\ Change([dir EXCEPT !.oldb = @ \cup {dir.b}])
        /\ Goto(p, "oldBase2")
     \/ dir.b # NoBase /\ NotPreserved(p)
  /\ UNCHANGED <<files, journals, clock, bounds, history>>

PreserveBase2(p) ==
  /\ ed[p].pc = "oldBase2"
  /\ \/ /\ Commit([dir EXCEPT !.b = NoBase])
        /\ Goto(p, IF ed[p].goal = "create" THEN "base" ELSE "oldLog")
     \/ /\ Close(p, IF ed[p].goal = "replay" THEN "edit" ELSE "stuck")
        /\ LET d == [dir EXCEPT !.b = NoBase,
                        !.j = IF ed[p].goal = "create" THEN 0 ELSE @] IN
           dir' = d /\ cut' = cut \cup {d, [dir EXCEPT !.b = NoBase]}
  /\ UNCHANGED <<files, journals, clock, bounds, history>>

(* ... then of the journal, if its name still means the file we locked. *)
PreserveLog(p) ==
  /\ ed[p].pc = "oldLog"
  /\ \/ /\ dir.j = ed[p].fd /\ Change([dir EXCEPT !.oldj = @ \cup {dir.j}])
        /\ Goto(p, "oldLog2")
     \/ NotPreserved(p)
  /\ UNCHANGED <<files, journals, clock, bounds, history>>

(* (A bug again: going on with the journal just preserved.)                  *)
SamePreserveLog2(p) ==
  /\ ed[p].pc = "oldLog2" /\ dir.j = ed[p].fd /\ Commit([dir EXCEPT !.j = 0])
  /\ Goto(p, "edit")
  /\ UNCHANGED <<files, journals, clock, bounds, history>>

PreserveLog2(p) ==
  /\ ed[p].pc = "oldLog2"
  /\ \/ /\ dir.j = ed[p].fd /\ Commit([dir EXCEPT !.j = 0])
        /\ ed' = [ed EXCEPT ![p].fd = 0, ![p].held = FALSE,
             ![p].pc = IF ed[p].goal = "again" THEN "open" ELSE "edit"]
     \/ /\ dir.j = ed[p].fd /\ Change([dir EXCEPT !.j = 0])
        /\ Close(p, IF ed[p].goal = "again" THEN "stuck" ELSE "edit")
     \/ /\ dir.j # ed[p].fd
        /\ Change([dir EXCEPT !.oldj = @ \ {ed[p].fd}])
        /\ Close(p, IF ed[p].goal = "again" THEN "stuck" ELSE "edit")
  /\ UNCHANGED <<files, journals, clock, bounds, history>>

(* create_base: the version of the file that was loaded, as a hard link, or  *)
(* a copy where there can be none, or an empty file.                         *)
NewBase(p) ==
  IF ed[p].meta.ino = 0 THEN [NoBase EXCEPT !.kind = "copy"]
  ELSE IF dir.near THEN [NoBase EXCEPT !.kind = "link", !.ino = dst]
  ELSE [NoBase EXCEPT !.kind = "copy", !.text = At(dst).text]

Based(p) == ed' = [ed EXCEPT ![p].pc = "header", ![p].base = NewBase(p)]

CreateBase(p) ==
  /\ ed[p].pc = "base"
  /\ \/ /\ dir.b = NoBase /\ ed[p].meta \in {MetaOf(dst), MetaOf(0)}
        /\ Commit([dir EXCEPT !.b = NewBase(p)]) /\ Based(p)
     \/ /\ dir.b = NewBase(p) /\ dir.b.kind = "link"       \* EEXIST
        /\ ed[p].meta = MetaOf(dst)
        /\ Based(p) /\ UNCHANGED <<dir, cut>>
     \/ /\ dir.b # NoBase /\ ~dir.near /\ GiveUp(p, TRUE)
     \/ GiveUp(p, FALSE)                  \* ESTALE, or a call failed
  /\ UNCHANGED <<files, journals, clock, bounds, history>>

(* write_header, of the base create_base made, whatever is there by now *)
WriteHeader(p) ==
  /\ ed[p].pc = "header"
  /\ \/ /\ SetJournal(ed[p].fd, [journals[ed[p].fd] EXCEPT !.hdr =
             [ino |-> ed[p].meta.ino, mtime |-> ed[p].meta.mtime,
              base |-> ed[p].base]])
        /\ ed' = [ed EXCEPT ![p].pc = "barrier", ![p].base = NoBase]
        /\ UNCHANGED <<dir, cut>>
     \/ GiveUp(p, TRUE) /\ UNCHANGED journals
  /\ UNCHANGED <<files, clock, bounds, history>>

(* fsync of the journal, fsync_dir of its directory *)
Barrier(p) ==
  /\ ed[p].pc = "barrier"
  /\ \/ /\ SetJournal(ed[p].fd, [journals[ed[p].fd] EXCEPT !.safe = 1])
        /\ Commit(dir) /\ Goto(p, "edit")
     \/ GiveUp(p, TRUE) /\ UNCHANGED journals
  /\ UNCHANGED <<files, clock, bounds, history>>

-----------------------------------------------------------------------------
(* Editing and saving.                                                       *)

Ready(p) == ed[p].pc = "edit" /\ ed[p].fd # 0

(* ... or recording on after a record could not be written *)
HeedlessRecord(p) ==
  LET f == ed[p].fd
      t == Append(ed[p].text, clock + 1) IN
  /\ Ready(p) /\ clock < MaxClock /\ clock' = clock + 1
  /\ ed' = [ed EXCEPT ![p].text = t, ![p].synced = FALSE, ![p].prot =
              IF f \in unread THEN @ ELSE [now |-> {t}, late |-> @.late]]
  /\ \E r \in {Bad, [op |-> clock + 1, on |-> ed[p].text]} :
       SetJournal(f, [journals[f] EXCEPT !.recs = Append(@, r)])
  /\ UNCHANGED <<files, dir, cut, bounds, history>>

(* edit_apply: the change, then its record; undo and redo are edits too. *)
Record(p) ==
  LET f == ed[p].fd
      t == Append(ed[p].text, clock + 1) IN
  /\ Ready(p) /\ ~ed[p].bad /\ clock < MaxClock /\ clock' = clock + 1
  /\ \/ /\ ed' = [ed EXCEPT ![p].text = t, ![p].synced = FALSE, ![p].prot =
             IF f \in unread THEN @
             ELSE [now |-> {t}, late |->
                     IF @.late = {} THEN {} ELSE @.late \cup {t}]]
        /\ SetJournal(f, [journals[f] EXCEPT
             !.recs = Append(@, [op |-> clock + 1, on |-> ed[p].text])])
     \/ /\ ed' = [ed EXCEPT ![p].text = t, ![p].bad = TRUE]
        /\ \/ SetJournal(f, [journals[f] EXCEPT !.recs = Append(@, Bad)])
           \/ UNCHANGED journals
  /\ UNCHANGED <<files, dir, cut, bounds, history>>

(* yew_journal_sync, at the end of every transaction *)
Sync(p) ==
  LET f == ed[p].fd IN
  /\ Ready(p) /\ ~ed[p].bad /\ ~ed[p].synced
  /\ \/ /\ SetJournal(f, [journals[f] EXCEPT !.safe = Size(journals[f])])
        /\ ed' = [ed EXCEPT ![p].synced = TRUE, ![p].prot =
           IF @ = Nothing THEN @ ELSE [@ EXCEPT !.late = {ed[p].text}]]
     \/ ed' = [ed EXCEPT ![p].bad = TRUE] /\ UNCHANGED journals
  /\ UNCHANGED <<files, dir, cut, clock, bounds, history>>

(* yew_edit_save_opts (no transaction is open), or a forced save after the   *)
(* user was told the file changed.  NeedsInplace is FileSave's: the journal  *)
(* discounts one link.                                                       *)
Names(i) == LET Pins(b) == b.kind = "link" /\ b.ino = i
            IN (IF Pins(dir.b) THEN 1 ELSE 0)
                 + IF \E b \in dir.oldb : Pins(b) THEN 1 ELSE 0

Savable(p) == /\ ed[p].pc = "stuck" \/ Ready(p)
              /\ ed[p].synced \/ ed[p].bad \/ ed[p].fd = 0
              /\ ed[p].text # At(dst).text          \* bound: not unmodified

Saved(p) == ed' = [ed EXCEPT ![p].meta = MetaOf(dst)', ![p].prot = Nothing,
                             ![p].synced = TRUE, ![p].goal = "none",
                     ![p].pc = IF ed[p].fd = 0 THEN "edit" ELSE "dropBase"]

SaveAtomic(p) ==
  /\ Savable(p) /\ (dst = 0 \/ Names(dst) < 2)
  /\ clock < MaxClock /\ clock' = clock + 1
  /\ disk' = Append(disk, [text |-> ed[p].text, mtime |-> clock'])
  /\ dst' = Len(disk') /\ Saved(p)
  /\ UNCHANGED <<backups, log, bounds, history>>

(* An in-place save overwrites the inode after taking a backup of it.        *)
SaveInplace(p) ==
  /\ Savable(p) /\ dst # 0 /\ clock < MaxClock /\ clock' = clock + 1
  /\ backups' = Append(backups, At(dst).text)
  /\ disk' = [disk EXCEPT ![dst] = [text |-> Torn, mtime |-> clock']]
  /\ Goto(p, IF ed[p].fd = 0 THEN "inplace" ELSE "inplace log")
  /\ UNCHANGED <<dst, log, bounds, history>>

SaveInplace2(p) ==
  /\ ed[p].pc \in {"inplace", "inplace log"}
  /\ disk' = [disk EXCEPT ![dst].text = ed[p].text] /\ UNCHANGED dst
  /\ Saved(p) /\ backups' = Front(backups)
  /\ UNCHANGED <<log, clock, bounds, history>>

(* A journal that could not be discarded is still there; after 'd' its       *)
(* records are not in the buffer.                                            *)
NotDropped(p) == Close(p, "edit") /\ UNCHANGED <<dir, cut>>

(* yew_journal_discard: the base, then the journal, then fsync_dir, each of  *)
(* which may fail.                                                           *)
DropBase(p) ==
  /\ ed[p].pc = "dropBase"
  /\ \/ /\ Change([dir EXCEPT !.b = NoBase]) /\ Goto(p, "dropLog")
        /\ baseless' = IF ed[p].goal = "decline" THEN baseless \cup {ed[p].fd} ELSE baseless
     \/ dir.b # NoBase /\ NotDropped(p) /\ UNCHANGED baseless
  /\ UNCHANGED <<files, journals, clock, bounds, owed, spoilt, unread>>

DropLog(p) ==
  /\ ed[p].pc = "dropLog"
  /\ \/ Change([dir EXCEPT !.j = 0]) /\ Goto(p, "dropSync")
     \/ NotDropped(p)
  /\ UNCHANGED <<files, journals, clock, bounds, history>>

DropSync(p) ==
  /\ ed[p].pc = "dropSync" /\ Close(p, "edit")
  /\ \/ Commit(dir)
     \/ UNCHANGED <<dir, cut>>
  /\ UNCHANGED <<files, journals, clock, bounds, history>>

-----------------------------------------------------------------------------
(* Sessions that end without a clean save, and other programs.               *)

(* q! (which keeps the journal: yew_journal_close), or a kill *)
Leave(p) ==
  /\ ed[p].pc # "out" /\ leaves < MaxLeave /\ leaves' = leaves + 1
  /\ ed' = [ed EXCEPT ![p] = Blank]
  /\ owed' = owed \cup ({ed[p].prot} \ {Nothing})
  /\ UNCHANGED <<files, log, clock, meddles, spoilt, baseless, unread>>

(* Of a journal file, at least what was synced survives. *)
Survivor(x, n) == IF n = 0 THEN [hdr |-> NoHeader, recs |-> <<>>, safe |-> 0]
                  ELSE [x EXCEPT !.recs = SubSeq(@, 1, n - 1), !.safe = n]

PowerCut ==
  /\ \E p \in Editors : ed[p].pc # "out"
  /\ leaves < MaxLeave /\ leaves' = leaves + 1
  /\ ed' = [p \in Editors |-> Blank]
  /\ dir' \in cut /\ cut' = {dir'}
  /\ \E n \in [DOMAIN journals -> 0 .. MaxClock] :
       /\ \A f \in DOMAIN n : n[f] \in journals[f].safe .. Size(journals[f])
       /\ journals' = [f \in DOMAIN n |-> Survivor(journals[f], n[f])]
  /\ owed' = {[now |-> o.late, late |-> o.late] : o \in
                owed \cup {ed[p].prot : p \in Editors}} \ {Nothing}
  /\ UNCHANGED <<files, clock, meddles, spoilt, baseless, unread>>

Meddle ==
  /\ \A p \in Editors : ed[p].pc \notin {"inplace", "inplace log"}
  /\ meddles < MaxMeddle /\ meddles' = meddles + 1
  /\ clock < MaxClock /\ clock' = clock + 1
  /\ \/ /\ "replace" \in Meddling
        /\ disk' = Append(disk, [text |-> <<clock'>>, mtime |-> clock'])
        /\ dst' = Len(disk') /\ UNCHANGED spoilt
     \/ /\ "rewrite" \in Meddling /\ dst # 0 /\ UNCHANGED dst
        /\ disk' = [disk EXCEPT ![dst] = [text |-> <<clock'>>,
                                          mtime |-> clock']]
        /\ spoilt' = (spoilt \/ Names(dst) > 0)
     \/ /\ "touch" \in Meddling /\ dst # 0 /\ UNCHANGED <<dst, spoilt>>
        /\ disk' = [disk EXCEPT ![dst].mtime = clock']
  /\ UNCHANGED <<backups, log, ed, leaves, owed, baseless, unread>>

Step(p) ==
  \/ Load(p) \/ Probe(p) \/ AsIs(p) \/ Recover(p) \/ Decline(p)
  \/ Ensure(p) \/ OpenLog(p) \/ Lock(p) \/ Adopt(p)
  \/ PreserveBase(p) \/ PreserveBase2(p) \/ PreserveLog(p) \/ PreserveLog2(p)
  \/ CreateBase(p) \/ WriteHeader(p) \/ Barrier(p)
  \/ Record(p) \/ Sync(p) \/ SaveAtomic(p) \/ SaveInplace(p)
  \/ SaveInplace2(p) \/ DropBase(p) \/ DropLog(p) \/ DropSync(p) \/ Leave(p)

Next == (\E p \in Editors : Step(p)) \/ PowerCut \/ Meddle

Spec == Init /\ [][Next]_vars

-----------------------------------------------------------------------------
TypeOK ==
  /\ dst \in 0 .. Len(disk) /\ clock \in 1 .. MaxClock
  /\ \A i \in DOMAIN disk : disk[i].mtime \in 1 .. clock
  /\ \A f \in DOMAIN journals :
       /\ journals[f].hdr.ino \in 0 .. Len(disk)
       /\ journals[f].safe \in 0 .. Size(journals[f])
  /\ dir \in cut
  /\ \A d \in cut : /\ d.j \in 0 .. Len(journals)
                    /\ d.oldj \subseteq DOMAIN journals
                    /\ NoBase \notin d.oldb
  /\ \A p \in Editors : /\ ed[p].fd \in 0 .. Len(journals)
                        /\ ed[p].meta.ino \in 0 .. Len(disk)
                        /\ ed[p].held => ed[p].fd # 0
  /\ leaves \in 0 .. MaxLeave /\ meddles \in 0 .. MaxMeddle
  /\ spoilt \in BOOLEAN /\ baseless \cup unread \subseteq DOMAIN journals

(* "A crash leaves enough information" (docs/manual/03-files.md): what each  *)
(* session that ended still had unsaved can be rebuilt from a base and a     *)
(* journal, live or preserved, until it is saved or discarded by the user.   *)
(* Not meant: a journal whose base was overwritten by another program, one   *)
(* that survived a discard which had removed the base before it stopped, and *)
(* one that a session went on with whose buffer did not hold its records.    *)
Evidence ==
  LET texts == {BaseText(b) : b \in {dir.b} \cup dir.oldb}
                 \cup ToSet(backups) \cup {At(dst).text}
      logs  == {journals[f] : f \in (dir.oldj \cup {dir.j}) \ {0}}
  IN {After(t, ValidPrefix(x.recs), Len(ValidPrefix(x.recs))) :
        t \in texts, x \in logs}

EvidenceKept == ~spoilt /\ ({dir.j} \cup dir.oldj) \cap baseless = {} =>
  \A o \in owed : o.now \cap Evidence # {}

(* Whatever happened to the file since, a record is replayed only on the     *)
(* text it was made on, so recovery gives a text that was in a buffer.  Not  *)
(* so of a journal that a session went on with unread: NeverMadeUpAtAll.     *)
Honest(p) == Recover(p) /\ ed'[p].pc = "open" =>
  LET from == From(p, dir.j)
      r == journals[dir.j].recs
  IN \A i \in 1 .. Len(ed'[p].text) - Len(from) :
       r[i].on = After(from, r, i - 1)

NeverMadeUp == [][\A p \in Editors : dir.j \notin unread => Honest(p)]_vars

(* One process records into a journal at a time. *)
OneOwner == \A p, q \in Editors :
  p # q /\ Ready(p) /\ Ready(q) => ed[p].fd # ed[q].fd

(* An editor whose journal works has it where the next session looks for it, *)
(* its base beside it unless a discard that stopped half way removed that.   *)
FoundByName == \A p \in Editors : Ready(p) /\ ~ed[p].bad =>
  /\ dir.j = ed[p].fd /\ journals[dir.j].hdr # NoHeader
  /\ dir.b # NoBase \/ dir.j \in baseless

(* adopt_existing_journal: a leftover must not "block every future edit of   *)
(* this path until someone deleted the file by hand".                        *)
NeverBlocked == (\A p \in Editors : ed[p].pc = "out") =>
  dir.j = 0 \/ Sound(dir.j)
=============================================================================
