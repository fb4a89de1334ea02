# BU-CS350: what the programs do, modelled and checked

The repository holds five course programs. They share no code and run as separate
processes. This directory holds TLA+ modules for their core logic, the TLC runs that
check them on small instances, and TLAPS proofs of most of what the runs check, for every value of the constants.

## The system and its parts

| Part | State it keeps | Operations | How it interacts | What is hard, and what must hold |
|---|---|---|---|---|
| **Prog4** `main.cpp` | a linked list with head and tail, two counters, five mutexes, one condition variable | reader, writer, `add`, `read`, `check_almost_done`, `main` | threads over shared memory | every interleaving of threads; a lock taken by one thread and released by another; a wait that may be missed. Nobody reads while somebody writes, no node is lost, waiting writers shut readers out, every thread ends |
| **Prog5 segments** `Segment.cpp` | the segment in memory, the segment files, dirtiness bits | `write_*`, `flush`, `find_backing_segment`, `clean` | called by the drive; changes the imap and the checkpoint region of the drive | state read before a turn and used after cleaning; a full drive; an index at its end. Nothing that is referred to is overwritten |
| **Prog5 drive** `Drive.cpp`, `IMap.cpp` | name map, imap, checkpoint region; the files NAME_MAP and CHECKPOINT_REGION | `import`, `remove`, `overwrite`, `cat`/`display`, `list`, mount, shutdown | commands one at a time from `main.cpp` | a crash between two steps, a second mount, a full segment. What was saved is what is mounted |
| **Prog5 blocks** `Block.h`, `macros.*` | none | views of 1024 bytes as data, inode or pointers | used by both | folded into the two modules above |
| **Prog5 command line** `main.cpp` | none | splits lines into words | calls the drive | not modelled |
| **Prog3** `helper.cpp` | a cache as a list of pages, with a map beside it for LRU and clock | FIFO, LRU, random, OPT, clock | called one after the other on the same reference string | hand and recency after an eviction, list and map agreeing; OPT is never beaten, LRU has the inclusion property |
| **Prog2** `prog2tree.c`, `parser.c` | the tree of processes | fork, exec, wait, pause | parent and child by exit status | every order of the processes' steps; a failing fork or exec; who waits for whom. The tree is the one asked for, nobody leaves before its children, all end |
| **Prog1** `generate.c`, `sort.c`, `parse.c` | options, an array | parse, generate, `qsort` | through a file or stdin | option checks that depend on their order, unsigned bounds, a pipe with more or fewer numbers than the array holds. The numbers lie in their range, the output is the input in order |

The hazards each part is exposed to are in `PROJECT.json` under `hazards`, at their lines.

## Modules

| Module | What it is |
|---|---|
| `ReadWrite` | Prog4: one action per statement that touches shared state |
| `ReadWriteProofs` | theorems about `ReadWrite` |
| `MCReadWrite` | constants for TLC |
| `CountingLemmas` | what the other proofs need of numbers: a least and a greatest one, counting up to n, remainders, recursive functions |
| `Segment` | Prog5: blocks, cells, the segment in memory, turns and the cleaner |
| `NameMap` | Prog5: how the file NAME_MAP is written and read |
| `Drive` | Prog5: commands, mount, shutdown and crash, above `Segment` and `NameMap` |
| `FileStore` | what Prog5 promises: a store of files that keeps what the last shutdown saved |
| `MCDrive` | constants for TLC |
| `DriveTypeProofs` | what each operation of `Segment`, `NameMap` and `Drive` returns; the types; the arithmetic of `display` |
| `DriveProofs` | theorems about `Drive`: imap, checkpoint region, names |
| `StoreProofs` | theorems that `Drive` implements `FileStore`, that files are whole, and that names stay sound through mounts |
| `PageReplacement` | Prog3: workloads and the five algorithms |
| `DemandPaging` | what all five promise, and the best any of them could do |
| `MCPageReplacement` | constants for TLC, and one workload for each class up to renaming of pages |
| `PageReplacementProofs` | theorems about `PageReplacement`: types, `DemandPaging`, cold misses; who is thrown out by LRU, FIFO and the clock; that OPT is optimal |
| `ProcTree` | Prog2: command line and processes |
| `MCProcTree` | constants for TLC |
| `ProcTreeProofs` | theorems about `ProcTree` |
| `NumberSort` | Prog1: command line, generator, sorter, and what is between them |
| `MCNumberSort` | constants for TLC |
| `NumberSortProofs` | theorems about `NumberSort` |

### ReadWrite

`pc` says where a thread stands; the labels follow the source from lock to lock. A
mutex is its owner or `Nobody`; unlocking asks for no owner, as with the default
mutexes of the C library the program is built with (`resource` and `readTry` are indeed
released by other threads than took them). `ReaderOpen` joins the two unlocks of
the entry section with the first line of `read()`, `ReaderExit`, `WriterEnter`,
`WriterClaim` and `WriterExit` join what is done under one lock with the unlock: no
other thread can tell, because it needs that lock to look. `read()` takes one step for each node and
`add()` one for each store to the list, so a missing lock would show. `add` never sets the new node's `next`
(main.cpp:35): it is `NULL` or `Wild`, and following `Wild` crashes the process.

`main` starts threads one by one; a thread not started yet is one that has not been
scheduled, so all are there from the start. `MainJoins` is the end of `main`: the ids
of readers and writers were overwritten with 0, so it waits for the checker only.

Fairness: each thread goes on when it can (weak fairness per thread), and
`pthread_cond_wait` returns unsignalled finitely often only. Without the second a checker that is
woken again and again could keep `cond_lock` from the readers for ever, because
mutexes are not fair; the C library gives spurious wake-ups, but not an endless run of
them. `main` is given no fairness: `ThreadsTerminate` asks that the threads end if it
leaves them alive.

### Segment, NameMap, Drive

An address is the pair (segment, offset) that `block / SIZE` and `block % SIZE` make of
a block number, and block 0 means "none", as in the code. A cell is a block with
its entry in the segment summary blocks: `write_block` and `update_SSB` always go
together. A block has fields for each of its three views (data, inode, chunk of
the imap); a block read as what it is not reads as zeros, which abstracts the bytes that
would be found there.

`work` is the command that is being carried out: the data blocks still to be
written, then the inode, then the chunk of the imap. `TurnSegment` is the head of each
`write_*` function (flush, find a clean segment, perhaps clean). `cl` is where
`clean()` stands; it scans a segment in one step (it changes nothing while it scans)
and moves live blocks one by one. After cleaning the write goes on without a second look at
`curr_idx`; `Overrun` is the write beyond the segment that follows when cleaning has filled it.
`Spin` is the search for a clean segment when there is none.

`BeginShutdown` (NAME_MAP is truncated), `TruncateCheckpoint`, `WriteNames`, `FlushLast`, `WriteCheckpoint` are the
stages of `~Drive` in the order they reach the disk (the checkpoint stays in its stream's buffer until it is
closed; the names reach theirs line by line, but beside a truncated checkpoint, which no mount accepts). `Crash` may
happen at any point while the process runs, so also between two stages. An exception nobody
catches ends the process without destructors and is modelled the same way. Mounting what was saved is
one step, because it only reads; making a new drive is one, because there is nothing saved yet to lose. A flush is one
step; a torn flush is not modelled.

`Shown` is `display`: whole blocks from the one that holds `start`, then what is left of the last
block. `cat` is `display` from 0 on. So from inside a block `display` prints from that block's
beginning on, and not the bytes asked for, in the code as in the model. `DisplayAligned` is about a
start at a block's boundary, which is where the code's arithmetic works out; of other starts nothing is claimed.

`work.before` is a history variable: what the files held when the command began. The
refinement and `OthersKept` need it, no action reads it.

### FileStore

The user's view: `store` maps names to bytes, `saved` is what a mount would show, or
nothing when it would be refused. `Drive` implements it with `store` computed
from the imap and the blocks, `saved` from NAME_MAP, CHECKPOINT_REGION and the segment files alone. So the
refinement says at every step that no write touches a block that the last
checkpoint needs. A save gives up what was saved in two steps, as `~Drive` does: first the names (`BeginSave`: a mount would show
a store without files), then the rest (`GiveUpSaved`: a mount would be refused). It may also end in a drive that does not mount.
See the findings.

`Imported` says what import makes of a source: a file is cut at the largest size, and one that
ends exactly with a block gets a block of zeros more, because `write_file` finds the end of
its source only by reading past it (Segment.cpp:114-117).

`LeftOpen` is what an overwrite does not promise. It keeps the bytes behind its range in the last block, but
looks for that block in the segment in memory if it was there when the command began
(`memory_segment_num`, Drive.cpp:270 and 312). When the write of the first block has turned to another segment, the block is
read from the wrong one, and the bytes behind the range are what stands there. `OthersKept` states what a user
expects, and `lfs_overwrite` shows the counterexample; `StoreSpec` then says that nothing else goes wrong with an
overwrite.

### PageReplacement, DemandPaging

The algorithms are loops over the same workload that share nothing, so one step, `Access`, is one turn of
all of them, for every size of the cache. What their containers do is kept: `erase` and
`push_back`, LRU's map beside its list, the use bits and the hand of the clock. OPT's search through its copy
of the cache is `FurthestOut`. The loop crosses off what is used again until one
page is left and takes the first of what is left (helper.cpp:225-237), hence the tie rule of `FurthestOut`. `rand()` is a choice of any index it can give.

`DemandPaging` says what a replacement algorithm may do at all; each of the five implements it, with
OPT's habit of not loading the last page (helper.cpp:221) as the step `Bypass`. Its `MostHits` is the
best score over all choices of victims, computed by a recursive function that knows nothing of
next uses, and `OptOptimal` compares OPT with it.

`NewestSpared` speaks of FIFO and Rand. It does not hold of the clock: with two pages and the accesses 1, 1, 2, 3, 1, 1
the model shows it evicting the page it loaded last, because the new page goes to the end of the vector
while the hand stays at the gap. Before the first hit this makes no difference (`ClockFifoUntilHit`).

### ProcTree

A process is named by its path from the root, so a name says whose child it is. `Fork` and `Exec` are
steps of their own, and either may fail, `MaxFailures` times in all. A child whose `execvp` fails falls out of
the branch into its parent's loop (prog2tree.c:80-84) and becomes a parent itself, on the same level. A process whose
`fork` fails exits at once, without waiting (line 53): what it forked before is left running, which
`NoneLeftBelow` excepts by name. `wait` returns at once where there is no child, so m calls of it end
also in a fallen child, which forks fewer than m; and no process has more than m children, so `NoneLeftBelow` holds of all that reach the end.

Fairness: the system goes on running processes that can run, one or another. A signal to a
paused leaf comes from outside and need not come.

### NumberSort

Ints have `Word` values and wrap where the code's do: `atoi` gives an int, the bounds are unsigned, the number
printed is an int again. Both programs use the same `c_parser`, each with a command line of its own. The
sorter reads the generator's pipe, or its file once it is complete. `-i` is the file's name and `-o` decides where the
generator writes; seeds and count files play no part. Writing past the end of the array is `Overrun`, which the
sorter may or may not survive; the part of the array nobody wrote holds `Leftovers`. `qsort` orders
what `compare` orders, and when overflow makes `compare` contradict itself gives any permutation.
The options are checked one by one as they come: an `-m` that no `-M` follows may be above max (parse.c:33), although
parse.h:11 has `maxFlag, > min`, and numbers above max are then printed. `OrderedUnlessRaised` excepts this line and says that there is no other way to it.
The sorter takes the tenth variable of its environment for `USER=...` and compares numbers with the codes of its letters:
a match is printed with `%s` (sort.c:63), which faults.

Fairness: both programs go on running; a read waits for its writer.

## Runs

| Run | Shows |
|---|---|
| `rw_safety` | 2 readers, 2 writers, 2 rounds each (744 284 states): all properties of Prog4 |
| `rw_join` | finding: the process ends before its threads |
| `lfs_log` | 5 segments of 3 blocks, 4 commands, 3 mounts, 1 crash, no cleaning (850 384 states): `StoreSpec`, the checkpoint, the names through mounts, and `display` against `cat` |
| `lfs_clean` | the first session of a drive: 5 segments of 4 blocks, 6 commands, cleaning when fewer than 3 are clean (592 515 states): imap, checkpoint region and names stay sound; a command ends, unless the drive is full or a write goes beyond the segment |
| `lfs_loss` | finding: the cleaner loses a live data block |
| `lfs_overwrite` | finding: an overwrite that turns to another segment changes bytes behind its range |
| `lfs_full` | finding: a full drive hangs |
| `lfs_leaveoff` | finding: an exactly full segment at shutdown makes the drive unmountable |
| `lfs_names` | finding: an empty session spoils NAME_MAP for a later mount |
| `pages` | 8 accesses to 6 pages, caches of 2 and 3 (93 057 states): demand paging, recency and inclusion of LRU, optimality of OPT, FIFO order of the clock |
| `tree` | command lines of up to three levels, 2 failures (557 543 states): the shape of the tree, who outlives whom, that all settles |
| `sort` | four-bit ints, pipes and files (540 716 states): range and order of the numbers, both programs end |

Bounds. Two readers and two writers give a first and a last one that differ, and two rounds let a
thread come back while others are still inside. The drive is scaled down (block of 2
bytes, files of at most 2 blocks, chunks of 2 inodes, 4 inodes) so that a command crosses a
segment's end, the drive wraps around, a file spans two segments, a chunk is not
rewritten by every command, and inodes run out. `CleanBelow` and `CleanSpan` are the
9 and 32 of the code scaled with it; `lfs_log` sets `CleanBelow` to 0, a drive that is never short of
segments. The sources of `lfs_log` end inside a block, with a block, and beyond the largest size. With 5 segments
an overwrite can turn in the middle and still end; with 4 the drive is full by then.
The caches of `pages` are smaller than the loop of the looping workload by one page and by none, the two cases that
differ. Algorithms never compare pages except for equality, so a workload and its image under a
renaming of pages behave alike: `InOrder` keeps the one in which pages first occur in ascending order. The loop is
among those; the 80/20 workloads are all taken as they are. Eight accesses
are enough to fill three pages, evict, and come back to what was evicted. `tree` has failures enough for one fallen child below another. In `sort`
four bits let bounds wrap and differences overflow within a few numbers.
`CHECK_DEADLOCK` is on for Prog4 and Prog5, where `Stopped` and `Ended` are the only final states; it
is off for `pages`, `tree` and `sort`, whose programs come to their end and stop.

Fairness of the drive: its one thread goes on with a command it has begun.

With cleaning, more is wrong than the findings show. No run is about these alone; the hazards list them.

- A chunk of the imap that was copied before its turn replaces the newer one the cleaning in that turn has written (Drive.cpp:135, 148, 326). With
  `CheckpointCurrent` among the invariants of `DriveClean.cfg` TLC finds it: after three imports and a remove, the turn of a
  second remove cleans, and the checkpoint names the old place of another file's inode, in a segment the cleaner has released.
- An overwrite writes back the place a block had before the cleaner moved it (Drive.cpp:325). With `OthersKept` as the property
  and {<<2, 0, 9>>} as the `Overwrites` of `DriveClean.cfg` TLC finds it: the first block of a file is overwritten and
  the second is lost.
- A write may go beyond the segment (`Overrun`, Segment.cpp:47).

And a shutdown has a window of its own, cleaning or not: between the truncation of NAME_MAP (Drive.cpp:111) and that of
CHECKPOINT_REGION (112) a crash leaves a drive that mounts, with the old checkpoint, and shows no file. `FileStore` says so.

## Proofs

Each theorem holds for every value of the constants that the named assumptions of its module allow, and the assumptions are
what the programs themselves make sure of:

| Assumption | What it asks, and why the code justifies it |
|---|---|
| `ArgumentsAccepted`, `EnvironmentAssumption` | Prog4: the checks of `main`; the range of `rand() % 100 + 1`; memory nobody set holds NULL or no node's address |
| `LayoutAssumption` | Prog5: sizes are positive, summary blocks fill less than a segment, chunks divide the inodes evenly, a file has no more blocks than there are inodes; the constants of the code are such |
| `NameAssumption`, `CommandAssumption` | Prog5: words are strings, there is a numeral for each inode and no two are spelt alike, contents are bytes, arguments of `overwrite` are numbers |
| `PagingAssumption` | Prog3: at least two pages, caches of at least two (`main` tries 5, 10, ..., 100), the 20 of a hundred where cold pages begin |
| `LineAssumption` | Prog2: a command line is any sequence of getopt's letters with any number |
| `WordAssumption` | Prog1: an even number of ints, half of them negative; the defaults; a command line is any sequence of getopt's letters with any int |

The theorems of `StoreProofs` have one hypothesis more, `PlainNames`: the names of files are words and no numerals. The program
does not make sure of it: NAME_MAP is read word by word, and `lfs_names` and the notes on `NamesSound` below show what other names do.

Hardly any invariant the runs check is inductive. Each proof strengthens them, with one step per action, and the
layers are proved one from another. What was to be an invariant was first given to TLC.

### Prog4

`ReadWriteProofs` proves seven theorems for every `NumReaders`, `NumWriters`, `NCount`,
`Draws` and `Leftover`: every safety property
`rw_safety` checks, that is `TypeOK`, `MutualExclusion`, `WriterPreference`, `AnnouncedLate`,
`ListWhole` and `ReadExact`, and the locking invariant itself.

The invariant is built in layers:

- `TypeInv`: types only, inductive alone.
- `LockInv`: where a thread stands says what it holds. `OwnLocks` covers the locks a thread gives back
  itself. `ResourceShared` and `GateShared` cover the two locks that the first thread of
  a kind takes and the last gives back: the count is the cardinality of the threads inside, a thread at
  `claim` is alone inside, and the lock is owned by a thread of that kind exactly when some
  thread is inside and none is at `claim`. The owner named by the lock may be long gone, which is
  why mutual exclusion cannot be stated through ownership. `Exclusion` and `WritersPreferred` follow.
- `DoneInv`: `almost_done` counts the readers at work, and is at most 1 once the checker is through.
- `ListInv`: the nodes are chained in the order of their malloc, the last one's next was never written,
  and tail is the last node, or the last but one while a writer stands between the two
  assignments of `add()`. The step of `Add` needs `LockInv`: no other writer is between them.
- `ScanInv`: a reader has counted the values it passed (`Seen`). No `Add` disturbs it, by `Exclusion`.

The cardinality steps rest on `FS_AddElement` and `FS_RemoveElement` of the library.

### Prog3

`PageReplacementProofs`, for every workload, number of pages and set of cache sizes.

- `TypeInv` (`WorkTyped`, `CachesFit`, `HitsCounted`): no cache overflows or holds a page twice, the maps of LRU and
  the clock name exactly the pages of their lists, the hand stays on the ring.
- From it one lemma per algorithm says that its turn is a turn of demand paging, or for OPT a bypass. With it `ImplementsDemandPaging`
  shows the refinement: initial states map to initial states, every step to a step or a stutter.
- `ColdInv` relates the hits to the number of different pages seen so far.
- `PrefixKept`: an access keeps the shorter list of LRU the front of the longer one, because it takes the page from no
  further back in the shorter one. Inclusion follows, and that the larger cache never hits less.
- `RecencyInv` says for the last use of each page that a list is in its order (`Newer`) and that what has left a full
  cache was used before all that is in it (`LeftBefore`).
- `RingInv`: until its first hit the clock holds FIFO's list, with its hand at the front and the pages whose use bit is set at the
  back, so at a full ring the hand goes all the way round and throws out the first.
- `LoopInv` (`Trail`, `BackTrail`): on the loop FIFO and LRU hold the last pages accessed, so never the next one.
- `OptIsOptimal`: no choice of victims scores more than OPT. What can still be scored from an access on with given pages in the cache
  (`Plays`) is a set of numbers whose maximum is the model's recursive `MostHits` (`MostHitsIs`, which unrolls the recursion along
  the workload). `Exchange` proves three facts at once, from the last access backwards: a page more in the cache does no harm
  (`More`); another page in place of one costs one hit at most (`Other`); and of two pages the one asked for sooner is worth
  no less (`Later`). The three need each other: after an access the two caches differ again by a page more or by another
  page. With `Later` OPT's victim is a best one (`VictimIsLast`), and passing over the last access costs nothing
  (`OPTPlays`). The invariant is `OptOnCourse`: the hits so far and the best that can still be scored from here with OPT's cache
  make the best score of the whole workload.
- `NewestIsSpared` is an action property; the index of FIFO and Rand is never the last one.

### Prog2

`ProcTreeProofs`, for every command line and number of failures.

- `TreeInv`: `PathInv` (who has a parent), `LocalInv` (what one process is like; a fallen child is behind its own number in
  the loop) and `FamilyInv` (what a process has to do with its parent: levels, the command line between them, who has waited for whom).
- `WaitInv`: a process that waits has no more children left than it will wait for. This is why `NoneLeftBelow` holds of
  fallen children too, and it is the cardinality argument of the proof; from one family to all
  that live below leads the last process on the path that is not alive (`GreatestNumber`).
- `GrownInv`: each turn of the loop has left a child. With it the tree is whole when nothing failed.

### Prog1

`NumberSortProofs`, for every width of int and lines of any length.

- `SignedIs` and `UnsignedIs` are the two readings of a word, and `QuotientBelow` is the heart of `GeneratedInRange`: `rand`
  times the range, divided by what `rand` can be at most, stays below the range.
- `ParsedOrder` follows the options of a line from the first to the last.
- `GenInv` and `SortInv` are the invariants of the two programs; the second also says what is between them.
- `SortedIs` and `SameTimes` say what any outcome of `qsort` has in common: where the order is one, the numbers are in it,
  each as often as before.

### Prog5

`DriveTypeProofs`, `DriveProofs` and `StoreProofs`, for every size of the drive and every sequence of commands, mounts, shutdowns and crashes.

- `TypeInv` (`SegmentTyped`, `CleanerTyped`, `FilesTyped`, `ControlTyped`) is inductive alone, but not because types are
  simple: a file must end within its pointers, a cell must belong to an inode or a chunk, and the cleaner must be at
  work only within a command that has taken its turn.
- `ShownIs` and `BytesAre` give each byte of `display` and of `cat` by its place, and `DisplayAligned` compares them.
- `Keeps`: nothing that was written is lost by a write, a turn or a step of the cleaner. Between scan and release
  the cleaner's own sets stand for what the segment still holds, so `Sound` excepts what it has yet to move; `CleanSound`
  shows that what it releases nobody points to.
- `PlaceInv` says where the leave-off point stands, and `ChunkInv`, `FlushedInv`, `CkptInv`, `KeptInv` follow the chunks of the imap through last
  flush, checkpoint, crash and mount: what a checkpoint needs stays in the files as long as the checkpoint does.
- `CurrentInv`: every chunk on the drive is up to date but for the one the command at hand will write.
- `ImapInv` and `WholeInv` do for inodes what the others do for chunks, and `NamesInv` relates names to the inodes that bear them, the one
  being made included.

These invariants have two parameters: with `uncleaned` they are about behaviours in which the drive has not
been cleaned (`NotCleaning`), which every behaviour is until it is short of segments (`find_backing_segment`'s 9); with `named`, about
those in which the names lead to their files (`NamesSound`). One induction serves them all, and the theorems say which they are about, because
the code is not right beyond. A theorem that assumes `[]NamesSound` assumes a property that runs check (`lfs_clean` with cleaning, `lfs_log` through
mounts) and that `PlainNamesAreSound` proves of a drive that has not been cleaned:

| Theorem | Holds | Beyond that |
|---|---|---|
| `TypeCorrect`, `DisplayIsAligned` | always | |
| `ChunksAreSound`, `UncleanedChunksAreSound` | with cleaning until the second mount of a drive after it was made, without for ever | no segment of the last checkpoint is kept from the cleaner, so a mount after a crash may read a chunk that was moved and written over |
| `CheckpointIsCurrent` | without cleaning | `write_imap_chunk` copies its chunk before its turn; the cleaning in that turn may write a newer one, which the copy then replaces |
| `ImapIsSound`, `CleanedImapIsSound`, `NamedImapIsSound` | without cleaning in the first session; with cleaning in the first session, and without it for ever, if the names lead to their files | `overwrite` looks up the inode's number by the name in the inode (Drive.cpp:322). The cleaner may take an inode from a segment file that the segment in memory has outdated, a mount may read the names amiss |
| `NamesAreSound` | without cleaning, in the first session | the name `""` that a failed read of NAME_MAP leaves behind, and names that are numerals |
| `DriveIsStore`, `FilesAreWhole`, `PlainImapIsSound`, `PlainNamesAreSound` | without cleaning, with `PlainNames`, for ever: any number of commands, shutdowns, crashes and mounts | the cleaner loses data blocks (`lfs_loss`), so with it a file is not kept; a name that is a numeral may lead to another file's inode after a mount |

`StoreProofs` is the refinement: `Drive` implements `FileStore`, with overwriting, and with mounts of what an earlier process left.
It is built in layers above `DriveInv`, the conjunction of the invariants of `DriveProofs`:

- `NamesReturn` is the round trip of NAME_MAP. `Follow` says what holds of the sequence of words that is written: behind each name
  comes the number of its inode. A mount that is not refused finds a numeral at every second place, so a plain
  name stands where a name is looked for, with its number behind it, and whatever else it finds there is the name of no file.
- `FilesInv`: an inode's pointers lead to data blocks that bear its number and their place (`AllOwn`), also for the inode
  being made, but for those in `work.todo` (`MadeOwn`); each file's name leads to an inode that bears it (`NamesHold`).
- `SavedInv` says the same of what the checkpoint has in the segment files alone (`SavedFiles`, `SavedNamed`), stage by stage of the
  shutdown.
- `LiveShows`, `SavedShows` and `FlushedShows` go from blocks to bytes: what `cat` shows of a file is, byte by byte, what its
  pointers lead to (`FileByte`), in the segment in memory or in the files.
- `ContentInv` is about the command at hand: what `work.todo` holds and what the new inode's pointers lead to already make, between them, the contents
  `FileStore` asks for (`Promised`, `Wanted`), except for the bytes of `LeftOpen`; a block that is still to be read for its rest is the one in which
  the range ends (`LastIs`); every other file has the bytes it had in `work.before` (`OthersAs`).
- `SavedSame`: no write, turn or command touches what the last checkpoint needs, so a crash at any point before a shutdown
  leaves what was saved. Between the two truncations of a shutdown the checkpoint can still be mounted and no name is left
  (`EmptyNames`, `NoFilesSaved`); after them nothing can (`GiveUpStep`).

`StoreInv` joins these. With it each kind of step has a lemma that says what it is above: `OpenStep` (mount), `BeginStep`,
`RefuseStep`, `FinishStep` (commands), `BeginSaveStep`, `GiveUpStep`, `SavingStep`, `EndSaveStep` (shutdown), `DieStep` (crash), and `HiddenStep` and `StandStill`
for those that cannot be seen there. `StoreStep` puts them together, and `DriveIsStore` concludes.

`NeverShort` says that a drive whose `CleanBelow` is 0, as in `lfs_log`, is never cleaned.

### Counting

The library's induction theorems take an operator as a parameter, which the installed provers cannot
instantiate. `CountingLemmas` proves instead that a set of numbers has a least and a greatest element, and that a set that contains
0 and with each number the next contains all up to n (`UpTo`). Inductions here are about sets: of the places, lengths or levels that
are as they should be. `FiniteBound` bounds a finite set of numbers. `RecursionExists` is the existence of recursively defined functions on numbers.

### Only model-checked

- Liveness: `ThreadsTerminate`, `Settles`, `BothEnd`, `CommandsEndOrStick`. TLAPS does not reason about fairness here.
- `NamesSound` with cleaning, which `lfs_clean` finds no violation of in a first session within its bounds. (With it `CleanedImapIsSound` gives
  `ImapSound`.) No run cleans a drive that was mounted again: neither is claimed there. Without cleaning `lfs_log` checks `NamesSound` over three mounts, and
  `PlainNamesAreSound` proves it for plain names.
  `StoreSpec` is not claimed of a drive that is cleaned: `lfs_loss` is a counterexample to what it would need.
- The findings, which are counterexamples.

## Not modelled

- Prog5: `list`, which changes nothing (it shows what the imap's inodes say, so a name that was imported twice is still
  listed after it is removed: its first inode was never freed, Drive.cpp:132); the command line (words of a line, `import_n` as many `import`s); a flush torn by a
  crash, of which the code takes no notice; I/O errors.
- Prog3: the percentages of `outputCSV`.
- Prog2: `simplefork.c`, one fork without state; how long sleeping takes; output that a fork duplicates.
- Prog1: the counts of letters, which are all 0 whenever they are printed, since a match crashes the sorter before it is
  counted (sort.c:63-64), and the time it prints.
- Test files, reports and build files.

## Plan

1. Done: `ReadWrite` and its proofs; `Segment`, `NameMap`, `Drive`, `FileStore`; `PageReplacement`, `DemandPaging`;
   `ProcTree`; `NumberSort`. The two plans `FileGeometry` and `ParseOptions` became part of `Drive`, `FileStore` and `NumberSort`.
2. Done: proofs of the safety properties of all five programs, as listed above.
3. Done: that NAME_MAP gives back the names, that on a drive that has not been cleaned the data blocks of a file stay its own, and
   from both the refinement `StoreSpec`.
4. Not planned: `StoreSpec` with cleaning. It would need a cleaner that keeps data blocks, which the code's is not.
