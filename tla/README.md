# yew: models and proofs

yew is a terminal text editor in C (`src/src`).  These modules model the parts
of it that a test suite reaches least: what a save, a crash journal and a backup
rotation leave behind when a call fails, another program acts on the same file,
a process is killed or the power goes; what a long sequence of edits, undos,
branches and trims does to the undo tree; what child processes, a language
server and an interrupted package command do to the editor that waits for them.
TLC checks the modules on small
instances; TLAPS proves the theorems listed below for every instance.

    tlc -config save_options.cfg MCFileSave.tla      # any row of "Runs"
    tlapm BackupRotation_proofs.tla                  # or FileSave_proofs,
                                                     # UndoTree_proofs, Journal_proofs,
                                                     # JobTable_proofs, LspSync_proofs,
                                                     # JournalEvidence_proofs,
                                                     # PkgTransaction_proofs

## The system

| Component | Source | State | Operations | Talks to |
|---|---|---|---|---|
| File save and load | `text/file.c` | `FileMeta` of each buffer: identity (device, inode, mtime, size), mode, `journal_pinned` | `yew_file_load`, `yew_file_save` (atomic, in place, create), change checks | the file system, other programs, Journal (pins an inode) |
| Backup rotation | `text/file.c` (`commit_backup_rotation`) | directory of backups `<base>`, `<base>.1` ... | preserve, rotate, promote, prune, dispose | called at the end of an in-place save |
| Crash journal | `text/journal.c` | open journal: descriptor, lock, base link or copy, `failed` | open/adopt, record, flush, discard, replay, preserve as `.stale` | edits (`edit.c`), recovery prompt (`ed.c`), saves (`file_cmds.c`) |
| Undo history | `text/undo.c` | tree of nodes, operation and blob arenas, current and saved node, open transaction | begin/end/abort/reopen, undo, redo, go to, branch, save point, prune, trim | every edit, `fltxn.c`, `rename.c`, `register.c` |
| Piece table, edits | `text/piece.c`, `edit.c` | piece tree, line index, generation | insert, delete, iterate | undo, journal, marks, LSP notes |
| Marks, cursors | `text/mark.c`, `edit/multicursor.c` | positions, selections | adjust on edit, merge | every edit |
| Registers, clipboard | `text/register.c`, `yankstack.c`, `clipboard.c` | rings | yank, paste, cycle | undo (reopen), jobs |
| Event loop and jobs | `edit/loop.c`, `job.c` | job table, pipes, timers | spawn, pump, reap, settle, timeout, release | shell, git, LSP, AI, clipboard |
| Shell session | `edit/shell.c`, `shsession.c` | remembered directory and environment | run, filter, sink | jobs, buffers |
| Commands and modes | `edit/cmd.c`, `mode.c`, `dispatch.c` ... | mode, pending keys, counts | dispatch | everything |
| Shadow suggestions | `edit/shadow.c`, `mod/ai/shadow_ai.c` | one suggestion per provider, sequence numbers | arm, fire, deliver, accept | timers, providers, edits |
| Search | `search/` | compiled programs, overlay | compile, match, replace | edits |
| Syntax | `syn/` | line-state cache | relex | edits, drawing |
| Terminal, UI, Unicode, utilities | `term/`, `ui/`, `unicode/`, `util/` | grid, windows, tables | draw, decode | everything |
| Fletch | `fl/` | heap, handles, transactions, hooks | compile, run, collect | edits through `fltxn.c` |
| Language server client | `mod/lsp/` | document mirror, versions, pending requests | note edit, flush, answer, rename | jobs, edits, undo |
| AI, git, plugins | `mod/ai`, `mod/git`, `mod/plug` | requests, refresh generations, package intents | request, stream, refresh, install | jobs, files |
| Workspace | `ws/` | saved state, trust store, symbol index | save, load, walk | files |

Almost all of yew runs in one thread: a command or a timer runs to its end
before the next one.  What makes it hard is therefore not preemption inside the
process but

* **the file system**: every call may fail, other programs act between any two
  calls, the process may be killed and the machine lose power; a power cut keeps
  only what was fsynced, and any part of what was not;
* **two editors on one file**, each with its own idea of the journal;
* **asynchronous answers** (jobs, servers, timers) that arrive in an order nobody
  wrote down, for a buffer that has changed since;
* **long sequences of legal calls** on one data structure (undo, marks, pieces).

What makes each component correct:

* *save*: never lose a version of the file that somebody else wrote and the
  editor could have seen; always leave one complete copy on disk; report success
  only when it is durable; keep the user's hard links.
* *rotation*: never lose a backup that is still within the retention; numbers
  order the backups by age.
* *journal*: what was not saved can be rebuilt until the user saves or discards
  it; a journal is replayed only on the text it was recorded on; one writer per
  journal; a leftover never blocks editing.
* *undo*: the tree stays a tree; going to a node gives the text that node had;
  "not modified" means equal to what was saved; abort leaves nothing behind.
* *jobs*: the owner of a job is answered at most once, and only with all its
  output; no child is forgotten; the loop notices every end, and a filter and
  quitting come back.
* *language server*: what the server will hold, with what is still to be sent, is
  the buffer; an answer about another text is dropped; every call ends; a server
  that crashed comes back or is given up.
* *plugins*: an install or a removal is done whole or not at all, whatever
  interrupts it or its recovery, and enables nothing nobody asked for.

## Modules

| Module | Models | State and actions |
|---|---|---|
| `FileSave` | `text/file.c`, save | `meta` is `FileMeta`, `job` the locals of the save in progress, `pc` the system call it is at.  `FileSave(...)` is `file_save` up to the choice of strategy; `OpenTemp` ... `SyncDir` are `atomic_save` and `commit_temp`; `Create` ... `SyncNewDir` and `Uncreate` the creation branch; `BakOpen` ... `BakSync` `copy_path_to_backup`; `IpOpen` ... `IpSync`, `Restore`, `Restoring` and `Rotate` the rest of `inplace_save`.  `Reload`, `Pin`, `Unpin` are the callers; `Meddle` is another program; `Crash` a kill or a power cut followed by a load. |
| `AtomicFile` | abstract | What an atomic save promises: it takes effect at one instant, or not at all.  `FileSave!ImplementsAtomicFile` maps the name's content and its possible contents after a power cut to it. |
| `FileSave_proofs` | | Its invariants and the refinement of `AtomicFile`. |
| `BackupRotation` | `commit_backup_rotation` | `gen[n]` is the file `<base>.n`; `Preserve*`, `Shift`, `Promote`, `Prune`, `SyncRotation`, `Dispose*` are its phases, one system call per step; `Drop` is `backup_keep = 0`.  `cut` holds every directory a power cut may leave. |
| `BackupRotation_proofs` | | Theorems. |
| `Journal` | `text/journal.c` with its callers | `dir` holds the names of journal, base and stale pairs; `journals` and `disk` the files; `ed[p]` an editor.  `OpenLog`, `Lock`, `Adopt`, `Preserve*`, `CreateBase`, `WriteHeader`, `Barrier` are `yew_journal_open`; `Record`, `Sync` an edit and `check_flush`; `Drop*` the discard; `Probe`, `Recover`, `Decline`, `AsIs` the prompt.  Each of the first three may fail (`GoOn`): the session edits on with the text of the file, as after Esc, and `Ensure` and `Adopt` then continue the journal whatever the buffer holds. |
| `Journal_proofs` | | One writer per journal; types; where the journal of a single editor is, and what it is replayed on. |
| `JournalEvidence_proofs` | | What a session that ended had not saved can be rebuilt. |
| `UndoTree` | `text/undo.c` | Variables are named for the fields of `UndoTree`.  Each call of `undo.h` is an action; loops that replay operations and trim are one iteration per step (`pc`, `walk`). |
| `UndoTree_proofs` | | The parent chain; types; the text of every node; the arenas; the save point; abort. |
| `JobTable` | `edit/job.c`, the turn of `loop.c`, `filter_drive` of `shell.c` | `job` is the table with the process group of each job, `pc` where the loop is in its turn: poll and pump (`Wake`, `Key`), `Reap` with `yew_job_tick`, one `Settle` per finished job, then a key (`Start`, `KillCmd`, `Clear`, `Quit`) or nothing.  `FilterPoll`, `FilterReap`, `FilterEnd` are the loop inside a filter; `Quit*` is `yew_jobs_free`.  `Exec`, `Write`, `Exit`, `KinExit`, `Struck` are the children.  Ids are given out upward and a removed row closes the gap, so the table is in the order of the ids and needs no sequence (`First`). |
| `JobPromise` | abstract | What `job.h` promises the owner of a job: the calls it gets, and when.  `JobTable!KeepsPromise` maps the table to it. |
| `JobTable_proofs` | | Its invariants and the refinement of `JobPromise`. |
| `LspSync` | `mod/lsp/client.c`, `sync.c`, calls of `jsonrpc.c` | `buf` the buffer, `doc` the `LspDoc`, `srv` the `LspServer`, `wire` the connection with its pending calls, `owners` the jobs whose end destroys it, `peer` the server.  `Pump` is `yew_lsp_pump` with its five cases; `Deliver`, `Expire`, `Reap`, `Settle` what the loop finds; `Edit`, `Save`, `Ask`, `Defer`, `Load`, `Restart`, `Stop` the editor. |
| `LspSync_proofs` | | The server's copy follows the buffer, and answers are fresh. |
| `PkgTransaction` | `mod/plug/pkg.c` install, remove, recovery | `disk` is what the system sees (directories, `plugins.lock`, `trust.fl`, intent and copies), `safe` what a power loss leaves, `proc[p]` a command and the call it is at.  `Begin`, `SwitchOff`, `Stage`, `Publish`, `Unpublish` are `pkg_install`; `Quarantine`, `Unlist`, `Unremove` `pkg_remove`; `Recover`, `Forward`, `Back`, `Finish` `pkg_txn_recover`; `Clear` `pkg_txn_clear`.  `Kill`, `Loss`, `Decide`, `Delete` are the world. |
| `PkgTransaction_proofs` | | Nothing is touched without an intent; what an interrupted command left is done or undone. |
| `MC*` | | Instances for TLC. |

The modules meet at their edges.  `FileSave` takes the rotation as one step
(`Rotate`, keep 0 or 1), and `BackupRotation` starts from the durable pending copy
that `FileSave!BakSync` leaves.  `FileSave` and `Journal` meet at
`journal_pinned`: `FileSave` lets the journal's base be any hard link that may
exist (`Pin`, `Unpin`), `Journal` takes a save as its effect on the inode.
`LspSync` is a client of the job table and keeps of it what `JobPromise` says of
an owner: destroyed once, not before the process is reaped and its pipe read to
the end (`Reap`, `Settle`).  `PkgTransaction!Write` is the write of a small file
that `state_save.c` and `trust.c` share; `FileSave` does the same for a buffer
call by call.

How the data are abstracted.  A file's bytes are a version number, with two more
for the partial states (`Torn`, `Stub`); the size, content and mtime checks
become a comparison of versions and change ticks.  In `Journal` a text is the
sequence of edits that led to it, so that a record replayed on the wrong text
gives a text that never existed.  In `UndoTree` it is a sequence of bytes, with
one byte to insert: positions, not values, are what operations can get wrong.
In `JobTable` one chunk stands for all output of a child, an armed time limit may
pass at any turn, and a descendant that keeps the pipes open is a flag of the
process group.  In `LspSync` a text is a sequence of three characters that differ
in what columns they take in the two encodings, and the server applies ranges to
its copy as the protocol says.  In `PkgTransaction` a plugin directory is absent,
whole or partly removed, the lock is the set of names in it, and the trust one of
three values for each name.

The file system.  A process sees `data` and `name`; a power cut leaves, for each
inode and each name on its own, any value since the last fsync (of that inode,
of that directory).  That is weaker than what file systems do, so what holds
here holds on them.  `BackupRotation` treats a directory operation (a rename has
two names) as one unit that survives or does not, independently of the others.

## Runs

| Run | Question |
|---|---|
| `save_options` | One save under every combination of strategy, `save.check_disk`, force and `save.backup_keep`, with a journal's base linked to the file, any call failing, two changes by another program, one crash: are changes, links and durability kept, and does the atomic strategy implement `AtomicFile`? |
| `save_again` | Two saves: do leftovers of the first (backup, pending copy, pinned inode) spoil the evidence the second one needs? |
| `rotate_backups` | Three rotations, each with any `save.backup_keep` from 0 to 3, over three generations, two crashes. |
| `journal_recovery` | An existing or a new file, linked or copied bases, kills, `q!`, power cuts at any step, atomic and in-place saves, every answer at the prompt, probes, replays and discards that fail: is what was unsaved still there, is it where the next session looks, and is it replayed only on its own text (journals a session went on with unread aside)? |
| `journal_pair` | Two editors, every answer: does the lock keep one writer per journal? |
| `undo_history` | Every call in any order on a tree of up to four nodes. |
| `job_table` | A generator and two git jobs, one started by the callback of the other, in a table of two: do owners get exactly the calls they were promised, and is no child forgotten? |
| `job_turns` | Two jobs in a table of one, descendants that keep the pipes, commands that never end: is every end noticed, do a filter and quitting come back? |
| `lsp_sync` | Edits in either encoding, a full pending list, crashes, restarts, unloading: is the server's copy the buffer, are stale answers dropped? |
| `lsp_turns` | The same with `:lsp.stop`, turn by turn under fairness: does every call end, does the server come back or go, does the text arrive? |
| `pkg_install` | Three `yew pkg` commands in a row with failing calls, kills, and a power loss or the user deciding or deleting beside them: all or nothing? |
| `undo_reroot` (violation) | `undo_history` with transactions in which nothing is edited. |

Eleven more configurations are run by hand.  Each checks one property that the
code does not keep and that the runs above excuse or leave out by a constant;
TLC finds it violated, and "Findings" says how.

| Configuration | Module | Violates |
|---|---|---|
| `save_pinned` | `MCFileSave` | `HardlinksKeptOverAnother`: the same over another file than the journal's base |
| `journal_as_is` | `MCJournal` | `NeverMadeUpAtAll`: `NeverMadeUp` without the excuse of `unread` |
| `journal_blocked` | `MCJournal` | `NeverBlocked` |
| `journal_halved` | `MCJournal` | `AlwaysBased` |
| `journal_shared` | `MCJournal` | `FoundByName` with two editors |
| `journal_touched` | `MCJournal` | `EvidenceKept` when the file is touched |
| `job_hang` | `MCJobTable` | `FilterReturns` without the end of descendants |
| `lsp_restart` | `MCLspSync` | `RestartTries` |
| `lsp_stop` | `MCLspSync` | `StopEnds` |
| `pkg_stuck` | `MCPkgTransaction` | `NeverStuck` |
| `pkg_pair` | `MCPkgTransaction` | `AllOrNothing` with two commands at a time |

The properties, each with the mutated code that breaks it, are in
`PROJECT.json`.  In words:

* `NoVisibleChangeLost`: a save with `save.check_disk` on overwrites no version
  that another program wrote before the save's last check of the file.
* `HardlinksKept`: no rename cuts a link of the user's, unless the strategy says so;
  the one link discounted for the journal is counted right as long as the file is the
  one its base is linked to.
* `Recoverable`: a destination that may be half overwritten after a power cut has
  a complete and durable copy under a backup name.
* `BackupIsExact`: that copy is exactly what is being overwritten.
* `OkIsDurable`: after a save that reports success a power cut brings back nothing else.
* `ImplementsAtomicFile`: the refinement.
* `NothingDropped`, `NewestFirst`: retention and order of the generations, in the
  directory as it is and in each one a power cut may leave.
* `EvidenceKept`: what a session that ended had not saved can be rebuilt.
  `FoundByName`: a working journal is where the next session looks.  `NeverMadeUp`: a
  replay applies each record to the text it was made on, unless the journal is one a
  session went on with unread.  `OneOwner`: one editor records into a journal.
* `ChainUnbroken`, `TextOfNode`, `SavePointHonest`, `SlicesApart`,
  `AbortLeavesNoTrace`: the undo tree.
* `KeepsPromise` (a refinement), `NoOwnerLost`: the calls the owner of a job gets,
  in any order of exit, pipe ends, eviction, clearing and callbacks.
* `NoOrphan`: a leader that lost its place in the table has been told to end.
* `VerdictKept`, `FilterWhole`: a timeout, a cancel or a failed exec is not
  reported as an exit; a filter never puts half an output in place of the text.
* `NoLostWakeup`, `FilterReturns`, `QuitReturns`: liveness of the loop.
* `LspMirror`: the server's copy, with the messages under way and the edits still
  to be sent applied to it, is the buffer.  `AnswerFresh`: an answer let through
  was computed on the text the buffer holds.
* `CallsEnd`, `ServerBack`, `TextArrives`: liveness of the client: a call, a crash
  or a stop is always over some time, and what was typed arrives.
* `AllOrNothing`, `RecoveryWorks`, `LiveOnlyAsked`: the transactions of `yew pkg`.

### Bounds, and why they are enough

Every bound is a `Max...` constant that guards the action it bounds.

* A change by another program at any point, plus one crash, lets every pair of
  calls of a save be split, the second change meets what the first left;
  `save_again` adds the second save that reuses names.  `MaxTick` and `MaxInode` are large enough for
  the most that these can use.
* Rotation: three generations have a first, a middle and a last one; three
  rotations let a failed one be followed by one that meets its gap and another
  with a smaller keep.  The theorems remove the bound.
* Journal: two journal files and two ended sessions make the stale pair and its
  successor; clock 4 gives the original text, two edits and a change of the file.
* Undo: four nodes have two branches of different length below a root that can be
  trimmed; three operations let one node hold two; nesting is two.
* Jobs: a table of two with three jobs has eviction, refusal and the moving of
  rows under a callback that starts a job; a table of one with two jobs has a
  filter that needs a place.  Which job may be what is the constant `Plan`.
* Language server: in `lsp_sync` three edits overflow a list of two, one of them
  may follow a crash, a restart or a reload, and texts of three characters hold a
  newline, a wide character before others, and an empty last line.  `lsp_turns`
  gives up most of the text for two crashes, which reach the limit of `Tries`, or
  a crash and a stop; its calls are `initialize` and `shutdown`.  Its temporal
  properties on more than that take longer than five minutes (with `MaxAsks = 1`
  and `MaxUpsets = 1`, where a question is a call too, half a minute).
* Plugins: three commands are one that is interrupted, one whose recovery is
  interrupted too, and one that recovers both; two failing calls let a rollback
  fail.  With `MaxUpsets = 2` (a power loss and a decision, say) a run by hand passes
  too.  There is one name: two plugins share only the two files, which the
  commands write whole.

What excuses a property is kept in history variables, and each excuse is the
narrowest we could state: `late` (another program acted on the file after the
last check), `blind` (a change between the last check of an in-place save and its
`fstat`, which nothing in the code could see), `spoilt` (another program
overwrote an inode a base is a hard link to), `baseless` (a journal whose base a
discard removed before it was killed), `unread` (the journals that a session continued
although its buffer did not hold their records, after Esc at the prompt or a probe, a
replay or a discard that failed; what was owed of them is owed no more, and nothing
is recorded as owed in them from then on), `amended` (the saved node was reopened),
and in `PkgTransaction` `odd`: `strayed` (the user deleted the directory by hand),
`doubted` (a write of the lock failed after it had replaced the file), `overtaken`
(the user decided about the plugin while a transaction was open).

### Fairness

Save, rotation, journal and package commands are straight-line code: their
properties are safety properties and their specifications state no fairness.  The
loops of `UndoTree` are bounded by the path and the number of nodes.

`JobTable` assumes that the loop takes its next step when it has one
(`WF_vars(Turn)`: one thread, and nothing in a turn blocks but `poll`), that a
deadline that stays armed is once found passed (`SF_vars(Passes(i))`: each turn
may come before it, but the clock moves), and that the kernel delivers `SIGKILL`
(`WF_vars(Struck(i))`).  A child need never write or exit.  `SpecEnds` adds, for
`job_turns`, that descendants end by themselves; without it `FilterReturns` fails
(`job_hang`).

`LspSync` assumes the same of the loop (`Pump`, `Sleep`: weak; `Deliver`, `Expire`,
`Reap`, `Settle`: strong, since they are enabled only in their part of a turn, and
each turn looks at all of them), that the delay of a retry passes (`Delay`), that
a server reads what it is sent and, told to end, ends.  `WF_vars(Key)` says that
the user keeps pressing keys: no deadline of the loop counts `next_try_ms`, so
nothing else would wake it for the retry of a crashed server.

## Proofs

`FileSave_proofs` proves, for every number of inodes, saves, kills, power cuts and
changes by other programs, and for every choice of the options a save may have:

* **TypeCorrect**, **BackupAlwaysExact**, **NoChangeLost**, **AlwaysRecoverable**,
  **OkAlwaysDurable** and **HardlinksAlwaysKept** `Spec => []HardlinksKept`, with and
  without a crash journal that links to the file.  Of a file that another program put
  under the name meanwhile, which the journal has no link to, the property says
  nothing: there the code cuts a link (`save_pinned`).
* **AtomicFileImplemented** `Spec => ImplementsAtomicFile`, step by step: `OpenTemp`
  is the call, `Rename` the instant, `SyncDir` the return; a power cut picks one of
  the contents the abstract file may have.

  All rest on one invariant, `SaveInv`, since none of the properties says why the
  next call is harmless.  Its parts: the file, its backups and the inode the save
  writes to are different inodes in whatever a power cut leaves (`Apart`); while an
  inode keeps the mtime that was accepted, the copy has its bytes, and from the last
  identity check on the copy is the text accepted (`Copying`, `Copied`); a file that
  may be torn on the disk has a sound backup that the save in progress does not drop
  (`Sheltered`); what the final `fstat` of a save takes for its own text is that
  text or one nobody could see (`Written`, `KnownText`); what a save overwrites has
  been read by the buffer or is newer than the check (`NothingLost`); what was
  reported durable is (`Landed`).  The clock part (`Clock`) is what makes the mtime
  comparison of `destination_matches` mean anything.

`BackupRotation_proofs` proves for every number of generations, retention
setting, number of rotations and of crashes, from `RotationAssumption` alone:

* **TypeCorrect** `Spec => []TypeOK`.  A power cut picks a member of `cut`, so
  the invariant types every member.
* **NeverDropped** `Spec => []NothingDropped`.  Not inductive: nothing in it says
  why renaming over a generation is harmless.  `DropInv` adds, phase by phase: in
  every directory a power cut may leave, this rotation's recovery links name each
  generation already visited (`LinkedSoFar`, all of them once the barrier is past:
  `ShiftHeld`), pruning only meets what is owed no more or still linked
  (`PrunesOld`), what is dropped was retired (`RetiredFree`, `DropsNone`), and
  names and versions given out are never reused (`Stamped`, `AllNamed`).
* **AlwaysNewestFirst** `Spec => []NewestFirst`.  The renames of one rotation
  survive a power cut independently.  `OrderInv` adds that each outcome is
  sorted, that the pending copy is newer than all of them (`Older`), and that the
  generations not yet shifted are the same in every outcome, so that a rename
  moves the same version in each or finds it moved.

`UndoTree_proofs` proves, for every bound, retention (`MinNodes`) and depth of
nesting, from `UndoAssumption` and the proviso `~EmptyTxn` (every transaction that
ends has an edit; `undo_reroot` is what happens without it):

* **ChainNeverBroken** `Spec => []ChainUnbroken`.  The property says nothing of
  ids still to be given out, of open transactions or of journeys half done, so it
  is not inductive.  `ChainInv` is `Tree` (all nodes are records of the right
  shape, parents are live and have smaller ids, depths count from the root and
  the root's is least, children and parents agree), `Counted` (no node in use
  above `len`, the root owns no operations, so nothing merges into it),
  `Transaction` (the open node is the current leaf and, unless reopened, the last
  one made and not the saved one, so abort may free it) and `Journey` (the current
  node is not the root while trimming or stepping back; each node on the path of
  `yew_undo_to` hangs from the next).  The lemmas are about maps of nodes:
  hanging a leaf (`LinkedTree`), cutting a branch (`CutTree`), changing the root
  (`Rerooted`), and everything that moves no link (`RestyledTree`).  That what
  `tombstone_subtree` drops is a whole branch (`UnderBranch`) rests on ancestors
  having smaller ids, by the least member of a set rather than by induction.
* **TypeCorrect**, **TextAlwaysOfNode** `Spec => []TextOfNode`,
  **SavePointAlwaysHonest** `Spec => []SavePointHonest`, **SlicesAlwaysApart**
  `Spec => []SlicesApart` and **AbortTraceless** `Spec => AbortLeavesNoTrace`.  None of
  them is inductive: that the text at rest is that of the current node says nothing
  of where a journey half done has got to, or of what the operations of a node that
  was left long ago still do.  `UndoInv` is `ChainInv` with `UndoRest`, whose parts are
  - `Types`;
  - `Arena`: the slices of each live node lie in the arenas (`Inside`), follow each
    other in the order of the ids (`InOrder`), every node but the root has
    operations (`Busy`), and between neighbours there is no gap (`Meet`), so that the
    slice of the last one ends where the next operation goes;
  - `Stories`: for each live node but the root and the open one there is a sequence of
    texts from its parent's text to its own, each got from the one before by the
    operation between them (`Told`);
  - `Standing`: where the text has got to in that sequence, at each step of an
    undo, a redo or an abort;
  - `Opened`: what the open node is to keep, and that `before`, the state an abort is
    to bring back, is what the arenas cut off there are;
  - `SavePoint`: what was saved is the text of the saved node unless it was reopened, and
    after a save nothing merges into the saved node.

  A redo reaches the right text since an operation is a function of the text before
  it; an undo since the inverse brings back that very text while the deleted bytes are
  still in the blobs (`SpliceUndone`, `SpliceBack`).  Merging an edit into the operation
  before it is shown to do what the two did one after the other (`OpDoes`, `Yields`).
  That `compact_history` keeps every story is the longest part: the new arenas are
  concatenations of slices, and where each slice lands is the length of those before
  it (`JoinedAt`, `PlacedIs`, `NewArenas`).  What `FlattenSeq` gives is one induction over
  the number of slices, made by the least number at which it would fail
  (`AllNumbers`); a story is a witness rather than a recursive definition, and
  needs none.

`Journal_proofs` proves, for every answer at the prompt, every kind of change by
other programs and all bounds, from `JournalAssumption` alone:

* **OneOwnerAlways** `Spec => []OneOwner`, for any number of editors.  `OneOwner` speaks of editors that
  record; it says nothing of one that has opened a journal and not locked it yet,
  or that holds the lock while it still writes the header, so it is not inductive.
  `LockInv` adds where each step stands to the lock (`Locked`: beyond reaching for
  a journal an open descriptor is locked, and no lock is kept without one), that
  two locks are never on one file (`Exclusive`), and that journal files are
  numbered from 1, so that a new one is nobody's (`Numbered`).
* **TypeCorrect** `Spec => []TypeOK`, for any number of editors.  `TypeInv` adds
  the shapes of texts, records and bases and, since a power cut may bring back any
  directory of `cut`, that each of them names what there is.
* **FoundAlways** `Spec => []FoundByName` for one editor (`Alone`).  With two it is
  false: `journal_shared`.  `FoundByName` holds of a session at rest only because of
  what `yew_journal_open` checked and did steps before, in a directory that a power
  cut may since have rolled back.  `PlaceInv` adds: no header is of a later version
  of the file than there is (`Past`), so that the one that is written now is told
  from all earlier ones; a journal whose base is gone, other than by declining the
  recovery, is of an older version, so that opening preserves it rather than
  continuing it (`Orphans`); that what is under the journal's name is of no later
  version than the one the session works on (`Versed`); and, label by label, that
  the open journal is the one by that name, whether it has a header, and whether
  its base is there in each directory of `cut` (`Sited`).
* **NothingMadeUp** `Spec => NeverMadeUp` for one editor (`Alone`), whatever it answers
  and whichever calls fail.  Of the journals in `unread` the property says nothing, and
  could not: `journal_as_is`.  It speaks of the step that replays; what it needs is what was recorded in
  earlier sessions, against files that have since been saved, overwritten, cut off by a
  power cut, or preserved.  `TruthInv`, beside `PlaceInv`, says two things.  Of every
  journal file with a header (`Heard`): if the inode it names still has the mtime it
  names, its valid records follow one another from the text of that inode, and so
  they do from the copy kept as its base; if another program wrote to the inode
  since, the mtime differs and nothing is said.  And of the editor (`Sure`): the text
  in its buffer is, depending on where it is in opening, recording or discarding a
  journal, the text of the version it works on, or what the journal under the
  journal's name gives when it is replayed (`Made`); an editor that went on
  unread is told by its goal (`aside`), until its first edit puts the journal in
  `unread`.  A step changes what is said of a
  journal only by adding a record to it, by cutting it to its valid prefix, which says
  the same (`Alike`), by losing unsynced records (`SurvivorHeard`), or by a change of the
  inodes, after which fewer texts are vouched for (`Firm`): a save or another program
  gives an inode a later mtime (`Renewed`), and the second half of a save in place, which
  does not, happens while all journals are of an older version (`Sited`).  That
  replay never stops short (`StopsLast`) then follows, and with it the property
  (`ReplayHonest`).  TLC checked `TruthInv` on the instance of `journal_recovery`
  before it was proved.

`JournalEvidence_proofs` proves, for all bounds, from `JournalAssumption`, for one
editor, and other programs that replace or overwrite the file but do not only touch it
(`Alone`, `"touch" \notin Meddling`: what `journal_recovery` runs with; without the
second TLC refutes it, `journal_touched`):

* **EvidenceAlways** `Spec => []EvidenceKept`.  `EvidenceKept` says that each text
  owed is what *some* base and *some* journal give; to keep that, `KeepInv` has to say
  which.  For everything owed there is a journal file and a text to replay it on
  (`Found`, `HoldsNow`): the journal has one of its names, nothing contradicts that
  text (`Grounds`), and the text is in its base, or in the backup of a save in place
  (`Bears`).  The same is said of what a power cut could still take: in every
  directory of `cut`, and of every prefix of the journal that is at least as long as
  what was synced (`Later`, `HoldsLate`).  And it is in nobody's hands (`Clear`): the
  editor is on a later version of the file than that journal, and is not at a step
  that ends in a save or a discard of it, or else it has not met the journal yet (it
  is at the prompt, or went on without taking it in and has not edited since: `Early`,
  `Waiting`) and would replay it on just that text; and no editor continued it unread.  What the session under way would be owed, once it
  recovered it, is in the journal it goes on with (`Guarded`, `Mine`).  The rest is
  about names: every header names a base (`Linked`); a journal preserved is of an
  older version than the live one, the file, and what the editor works on (`Stack`,
  `Behind`), so that nothing said of the live one touches it; in each directory a
  power cut may leave the live journal has the base it has now (`Level`), or is of an
  older version and will be preserved (`Rests`); and the journal an editor would
  continue has its inode intact and its base beside it (`Stands`).
  There is one lemma for each action (`...Kept`); most actions leave every owed journal
  and its base where they are (`Steady`), which `OwedStays` turns into the invariant.
  The exceptions are the answers at the prompt and the edit that continues a journal
  unread, which take exactly those texts off the list that the journal gives
  (`OwedAnswered`, `LateAnswered`); saves and other
  programs, which change inodes (`Lasting`: a save in place has put the text into a
  backup before it writes, and no journal that is owed is of the version it writes to);
  and power cuts (`PowerCutHolds`).  `TruthInv` and `PlaceInv` are used throughout.
  TLC checked a form of `KeepInv` with bounded quantifiers on the instance of
  `journal_recovery` first.

`PkgTransaction_proofs` proves, for any plugins, any processes, all bounds, and
with commands that overlap or not, from `PkgBounds` alone (there is a plugin name,
`Alone` is a Boolean, the bounds are numbers):

* **IntentFirst** `Spec => []TypeOK`.  Besides the types, `TypeOK` says that, where
  commands do not overlap, a step between `pkg_txn_begin` and `pkg_txn_clear` finds
  its own intent on the disk, and a step of a recovery the one it read.  `IntentInv`
  strengthens it twice: a command is only at steps of its kind (`Fits`; an install
  never reaches the steps of a removal), and at most one command runs (`OneRuns`),
  since another one would change the intent under it.  The lemmas are one for each
  kind of system call (`FlushKeeps`, `TrustKeeps`, `SaveLockKeeps`, `RmTreeKeeps`
  ...) and one for each action.  A power loss may bring back an older intent; it
  also ends every command.

In its second half it proves, for the same plugins, processes and bounds, but from
`PkgBounds` and `Alone = TRUE` (commands do not overlap; `pkg_pair` is what happens
when they do):

* **DoneOrUndone** `Spec => []AllOrNothing` and **AlwaysRecovers**
  `Spec => []RecoveryWorks`.  A power loss keeps or drops the moves of directories,
  the lock and the state files independently, so `RecoveryInv` speaks of three
  disks at once, each the one the system sees or the safe one: the directories of
  one, the lock of another and the intent with its copies of a third must always
  make sense together (`Sound` on all eight mixes: nothing is under way and all is
  `Whole`, or the intent is open and its plugin can be taken either way, `Pending`).
  To this it adds, label by label, what the command has already made safe
  (`Unwinding` for a recovery, `Closing`, `Opening`, `Publishing`, `Discarding`).
* **OnlyAskedIsLive** `Spec => []LiveOnlyAsked` needs a second invariant on top,
  `TrustInv`: the trust file of every mix enables nothing that is there and was not
  asked for, nor would the copy a rollback brings back (`Granted`, `Vouched`), and
  what each command read of the trust is still what it copied (`Heeds`, `Copied`).

`JobTable_proofs` proves, for any plan of jobs and any size of the table, from
`JobAssumption` alone:

* **TypeCorrect** (with the bound `YEW_JOB_MAX` on the table), **NeverOrphaned**,
  **OwnerKept**, **FilterAlwaysWhole**, the action property **VerdictAlwaysKept**, and
* **PromiseKept** `Spec => KeepsPromise`: the table implements `JobPromise`.

  What happens to a job depends on that job alone but for evictions, so the
  argument is made once for one job and then lifted to the table.  `Sane(j)` is
  what is always so of a job: its owner waits exactly while the table knows of it
  and it is not settled; a job that is no longer `RUNNING`, or has left the table,
  has a leader that exited or was sent a signal; the end of the output is not taken
  before the output.  `Moves(j, k, quit)` is what a step may do to it, and
  `Keeps(j, k)`, which most of the loop's work does, leaves it in the table with its
  owner in peace.  There is one lemma for each operation of `job.c` and one for
  each action; `JobInv` adds the table (ids not given out are no jobs, the table
  does not outgrow its size, the filter waited for is listed).

`LspSync_proofs` proves, for any texts and inserts, any limit on the pending list
and on the crashes counted, and all bounds, from `LspAssumption` alone:

* **TypeCorrect** (with what the records owe each other: a document is open only at
  a server that greeted, a call waits only on a connection), **AlwaysMirrors** and
  **AnswersAreFresh**.

  `LspMirror` speaks of one connection that is ready; it is kept only because of
  what the connection was before.  `LspInv` adds where the answer to the greeting is
  (`Greeting`: until the server has read it nothing is said of the document, so that
  no message is taken in an encoding it was not written in), that the client uses the
  encoding the server chose, that the connection goes with the last job and before
  the next one is started (`JobAgrees`), that questions, answers and calls have their
  numbers to themselves (`Numbered`, `Answered`), and, for each question about the
  text the buffer holds, that the server will have read just that text when it comes
  to it (`Timely`, `Fresh`).  What the server will hold is a recursive function on
  the messages under way (`Hearing`); the proofs need of it how it changes when one
  is sent and when one is read (`HearingMore`, `HearingNext`).  Both are inductions
  over its length, made by the least number at which they would fail
  (`LeastExists`, `AllNumbers`), since the library's induction theorems take
  an operator as a parameter.  That the server finds a position where the client
  meant it is proved from the definition of `PosOf` (`PosOf` is one to one on a text).

Each step lemma has one case per action.  TLC checked the strengthened invariants
before they were proved.  The steps are first-order and go to SMT; only the last
step of each theorem is temporal.

Every safety property the passing runs check is also proved.  Neither checked nor
proved is what `EvidenceKept`, `FoundByName` and `NeverMadeUp` would say of several
editors, `NeverMadeUp` of the journals in `unread`, `EvidenceKept` of a file that is
touched, and `UndoTree` with `EmptyTxn`: for most of it TLC has counterexamples (see
Findings).  Out of the prover's reach, and model-checked only, is liveness:
`NoLostWakeup`, `FilterReturns`, `QuitReturns`, `CallsEnd`, `ServerBack`, `TextArrives`.

## Findings

Places where the code does not do what a comment, a document or its own design
says.  The one with a run in `PROJECT.json` is the first; the others have a
configuration to run by hand, or are stated by the excuse the runs make for them.

*Undo.*  `undo.c:1738` may re-root away from the current node when a transaction
without an edit ends at the root (`undo_reroot`).  Abort and prune set the redo
branch to the first child rather than the last visited one (`undo.c:1136`);
`yew_undo_reopen` does not look at the saved node.

*Saving.*  `file.c:623` discounts one link whenever `journal_pinned` is set,
whichever inode the name refers to now, although the comment at `file.c:620` says
"Discount exactly that link"; over a file that another program put under the name, a
rename may then cut a user's hard link (`save_pinned`: `HardlinksKeptOverAnother`).  A failed directory fsync after the rename (`file.c:1349`)
reports an error for a save that happened.

*Journal.*  `journal.c:1111` continues a journal whose edits are not in the buffer: after
Esc at the recovery prompt, which s14-modes-L-I.md:306 says keeps it "untouched", and
as well after a probe that fails (`journal.c:1194`, so that nothing is asked), a replay
that fails (`journal.c:1384`; `ed.c:2286` then takes the prompt away) or a discard that
fails (`journal.c:1278`, `ed.c:2308`).  What is recorded from then on is made on another
text than the one a replay will have got to, and what the journal held is rebuilt by
none (`journal_as_is`: `NeverMadeUpAtAll`; the runs excuse these journals: `unread`).  `journal.c:580` leaves a journal with two links
when killed between `link` and `unlink`; it can never be opened again
(`journal_blocked`).  `journal.c:1278` unlinks the base before the journal; killed
in between it leaves a journal that the next session continues and that nothing
can replay once the file has changed (`journal_halved`).
`journal.c:678` creates the journal and `journal.c:701` locks it; another editor that
locks it in between finds no header in it and preserves it as stale, and the creator
goes on recording into the file that no session looks for any more
(`journal_shared`).  `journal.c:684` says "never truncate recovery data in place",
and a journal whose file was touched is preserved with its base; but the base is
a hard link, and the next in-place save overwrites it: the records stay, the
text they were made on does not (`journal_touched`; `journal_recovery` leaves touching
out).

*Jobs.*  `shell.c:905` says "a stuck writer cannot hang this loop"; but once the
command has exited, neither the time limit nor Escape reaches a descendant that
holds the pipe (`job_hang`).  The poll deadline skips jobs that no longer run, so
the SIGKILL after a time limit waits for the next wakeup.  `yew_jobs_free` kills
only jobs that still run and waits for all: one that was told to end and does not
keeps the editor from leaving (excused in `QuitReturns`).  A filter and `:r !`
ignore that collected output was capped (`text = "capped"`).
`job_insert_collected` (`shell.c:210`) looks up the job's mark in the buffer of
the window that is current then.

*Language server.*  `client.c:1287` reads the row of a job whose exec failed again
at every turn, so that `:lsp.restart` gives the server up again without a try,
although the comment at `client.c:1050` promises one (`lsp_restart`).  An answer
to `initialize`, or its time limit, that comes after a crash or a restart gives
the server up.  Generations start over when an unloaded buffer is loaded again: an
answer from before may then pass (`relic`, excused in `AnswerFresh`).
`yew_off_to_u16col` counts to the end of the line's content, so that an edit at
the `\r` of a CRLF line is sent as an empty range; the characters of `LspSync` do
not include it.  Deadlines of calls are not swept once the server is no longer
running, and a descendant that holds its pipe blocks the retry.
After two `:lsp.stop` in a row the answer to the second `shutdown` sends `exit`
into an input that `client.c:1310` has closed and clears the deadline; the bytes
stay pending, so that neither branch is taken again and a server that ignores the
end of its input never gets the SIGTERM (`lsp_stop`, excused in `ServerBack`).

*Plugins.*  Removing a plugin whose directory is already gone, interrupted before
the lock is saved, leaves an intent no recovery accepts (`pkg.c:1885`): every later
`yew pkg` exits with 3 (`pkg_stuck`).  Nothing keeps two commands apart: the
second rolls the first back while it runs (`pkg_pair`).  When a write of the lock
fails after it replaced the file and the rollback is interrupted half way, the
recovery rolls half a directory forward (`doubted`).  The trust file is restored
whole, undoing decisions made meanwhile (`overtaken`).  An install does not fsync
what it cloned before it renames it, although an update does (`pkg_fsync_tree`);
the model takes contents to be as durable as names.  A staging directory left by
a kill before `pkg_txn_begin` is never removed.

## Plan

Done: `FileSave` with `AtomicFile`, `BackupRotation`, `UndoTree`, `Journal`, `JobTable`
with `JobPromise`, `LspSync` and `PkgTransaction`, all with proofs.

Proofs to come: what the journal keeps of several editors, under a discipline that
excludes `journal_shared`.

Modules that would come next: `pkg_update`, which has no transaction; the rename
over several files (`mod/lsp/rename.c`) over the operations of `UndoTree`; the
suggestions of `edit/shadow.c`, which follow the pattern of the answers in
`LspSync`; marks and the piece tree against a definition over bounded inputs.

## Not modelled

Drawing, terminal input and Unicode tables (pure or I/O); the regex and syntax
engines, the piece tree and marks (sequential algorithms, tested against
references); the Fletch compiler and library; the git views and the AI module; the
text of messages.  They are most of the lines of the repository, and little of
them is a state machine.

In the modelled files: permission bits, extended attributes, byte-order marks and
line endings of a save; the encoding of journal records (a record is whole or cut
short); the clock of `check_flush` (any prefix past the last sync may be lost);
cursor and mark snapshots of undo nodes and `yew_undo_promote_multi`; the standard
input of jobs, `yew_job_run_sync` and the shell session; the JSON and framing of
the language server protocol, several documents or servers, diagnostics, cancelled requests; `pkg update`, `doctor --fix`
and `--accept`, `--force-relock`, git and the tree hash, revisions and grants (a
plugin is enabled, disabled or unknown).
