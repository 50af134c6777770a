# beanerOS: formal specification

TLA+ modules for the parts of beanerOS that keep state, TLC configurations that
check them on small instances, and theorems that TLAPS proves for every instance.
Line numbers refer to the files under `src/`.

```
tlc -workers 2 -config MCFatVolume.cfg MCFatVolume     # check one configuration
tlapm FatVolumeProofs.tla                              # check one module's proofs
```

Contents: [the system](#the-system) · [modules](#modules) ·
[runs and bounds](#runs-and-bounds) · [fairness](#fairness) · [proofs](#proofs) ·
[disagreements found](#disagreements-found) · [not modelled](#not-modelled) ·
[plan](#plan)

## The system

beanerOS is a kernel for one 32-bit x86 processor with one kernel thread: `kmain`
initialises the devices, mounts a FAT32 volume and never leaves `shell_loop`. The
only concurrency is interrupts. The only persistent state is the volume, and power
can fail between any two sector writes.

| component | state | operations | talks to |
|---|---|---|---|
| FAT driver, clusters (`fs/fat.c`) | the two FATs, the FsInfo sector, `Fat.last_used`, `Fat.free_cnt`, `Fat.flags`, the one-sector buffer `Fat.buf` | `get_fat`, `put_fat`, `create_chain`, `stretch_chain`, `remove_chain`, `sync_buf`, `update_buf`, `sync_fs`, `fat_mount` | disk through `DiskOps`; the next two share its buffer |
| FAT driver, file content | `File`: offset, size, cluster, sector, buffer, flags; the data sectors | `fat_file_open`, `read`, `write`, `seek`, `sync`, `close` | stretches chains, rewrites the entry's size |
| FAT driver, directories | 32-byte slots; `Dir`; end marker; long-name runs | `dir_search`, `dir_add`, `remove_entries`, `dir_next`, `dir_next_stretch`, `fat_dir_read` | stretches and clears clusters, uses the shared buffer |
| FAT driver, paths | the tree of directories | `follow_path`, `fat_file_open`, `fat_dir_create`, `fat_dir_open`, `fat_unlink` | the three above |
| keyboard (`driver/keyboard.c`) | ring `keyboard_buffer`, `buffer_read`, `buffer_write`, `shift_pressed` | `keyboard_irq_handler` (interrupt), `keyboard_getchar` (thread), `keyboard_init_irq` | `irq_handler` calls it; the shell waits for it; the timer ends its `hlt` |
| interrupts, timer (`kernel/idt.c`, `driver/timer.c`) | `interrupt_handlers`, the tick count | `irq_handler`, `register_interrupt_handler`, `timer_init` | every driver with an interrupt |
| frames (`mm/pmm.c`) | `frame_bitmap`, `total_frames`, `free_frames` | `pmm_init`, `pmm_alloc_frame`, `pmm_free_frame` | page tables come from it |
| paging (`mm/vmm.c`, `mm/paging.s`) | page directories and tables | `vmm_init`, `vmm_map`, `vmm_unmap`, `vmm_switch_directory` | `pmm_alloc_frame`; the processor walks the tables and caches what it finds |
| heap (`mm/kheap.c`) | list of blocks from `heap_head` | `kheap_init`, `kmalloc`, `kfree` | none: its memory is a fixed range |
| shell (`kernel/shell.c`) | line buffer | line editor, redirection, choice of the command | keyboard, terminal, commands |
| commands (`kernel/commands.c`) | `g_cwd`, the current path | `ls cat echo touch mkdir cd pwd` | FAT driver by paths, terminal |
| ATA (`driver/ata.c`) | the device | `ata_read_sectors`, `ata_write_sectors` | polled port I/O |
| terminal (`driver/tty.c`) | row, column, the VGA buffer | `terminal_putchar`, `terminal_write`, `terminal_clear`, `terminal_backspace` | the shell erases by its column |
| serial port, port I/O | none | one byte at a time | devices |
| C library | none | `memcpy`, `printf`, ... | |
| boot (`loader.s`, `kernel/kernel.c`) | none of its own | the order of initialisation | everything |

What is hard to get right in each, and what would make it correct:

* **Clusters.** One buffer serves both FATs, FsInfo and the directories. A
  changed sector reaches the disk only when another takes its place, so the order
  of writes on the disk is the order of evictions. Correct: no power cut outside
  `fat_unlink` makes two chains share a cluster or run into a free one; lost
  clusters, the free count and the mirror are off by at most one per cut; a closed
  file stays on the disk; searches end and find free clusters.
* **File content.** Reads, writes and seeks move the offset through one function
  that follows, stretches, writes back and loads; each can end exactly at a sector
  or cluster boundary, or find the volume full. Correct: a handle behaves as a
  sequence of bytes with a position.
* **Directories.** An entry is a run of slots that may straddle sectors and
  clusters; the end marker moves. Correct: the directory always parses, a call
  changes exactly the entry it names, what completed calls left survives a cut,
  `ls` prints each entry once.
* **Paths.** Creating and removing takes several writes in different places (table, new
  cluster, its `.` and `..`, slots of the parent), each call begins by following a
  path, and other systems leave entries of their own. Correct: the directories are a tree
  at every moment, each call does to it what its result says, nothing with something
  in it is removed, lost clusters are bounded by cuts and failures.
* **Line editor and screen.** The editor decides by the column whether a character can be
  erased, while lines wrap and the screen scrolls. Correct: the screen shows what was
  printed, and what is executed is what is on it.
* **Commands.** A path is text, joined and cut by hand, with slashes, dots and blanks
  anywhere. Correct: the current path always names a directory, and arguments mean what
  is below it.
* **Keyboard.** The handler interrupts the reader between any two accesses, and
  the check for a character and `hlt` are two steps. Correct: a queue that loses
  characters only when full; nobody sleeps over a character.
* **Frames and paging.** Frees of frames one does not have, stale tables, flags at two
  levels, an allocation that fails unnoticed, a translation buffer that only `vmm_unmap` cares for. Correct: the
  count agrees with the bitmap, no frame has two users, each page is mapped to what was last
  asked for, and the processor uses that.
* **Heap.** Splitting and merging under any order of frees. Correct: blocks tile
  the heap, callers' memory is disjoint, a request fails only if no free stretch
  is long enough.

`PROJECT.json` lists every such hazard with its line and the properties that cover
it, or the reason why none does.

## Modules

Names are those of the source where TLA+ allows. An action is a handler, or one
turn of its loop, with everything it changes; where power can be lost or an
interrupt can come in between, a call is several actions and the variable `pc`
says where it is. The operators marked "Mutant" are variants of the definition
next to them with a plausible bug; `PROJECT.json` names, for every property, one
that the property catches.

### SectorCache, FatVolume

`SectorCache` is `Fat.buf`, `Fat.sect` and `FAT_BUF_DIRTY`. The disk is a function
from *cells* (a FAT entry, an FsInfo field, a directory entry) to values, and
`SectorOf` says which cells travel together. `View` is what the driver reads, the
buffer over the disk; `put` is `update_buf` followed by a change of the buffer.

`FatVolume` EXTENDS it with the calls. A step makes at most one disk write, so
`PowerCycle` can fall between any two.

| code | model |
|---|---|
| `fat_file_open` of a new name | `FileCreate`; `Scan` ... `EocMirror`, `EocActive`; `SyncBuf`, `SyncInfo`; `AddEntry` |
| `fat_file_open` of an existing one | `FileOpen` |
| a turn of the loop in `fat_file_seek` | `Follow`, `FollowBroken`, or `Stretch`; `Probe`, `Scan` ... `EocMirror`, `EocActive`, `LinkMirror`, `LinkActive`; `SyncBuf`, `SyncInfo`; `Advance` |
| the search meets its start | `ScanFull` |
| `fat_file_close`, `fat_sync` | `FileClose`, `FatSync`; `SyncBuf`, `SyncInfo`; `Return` |
| `fat_unlink` | `Unlink`; `RemoveGet`, `RemoveMirror`, `RemoveActive` for each cluster, or `RemoveBroken`; `SyncBuf`, `SyncInfo`; `RemoveEntry`; `SyncBuf`; `Return` |
| power cut and `fat_mount` | `PowerCycle` |

A name has one cell and the directory has room: slots and the growth of a
directory are `FatDirectory`, content and size are `FatFile`. `create_chain` for a
file and for a directory are the same call; new directories are in `FatTree`. The history variables are `promised` (what completed calls left)
and `cut` (power was lost inside `fat_unlink`). `fat_unlink` frees the chain before
it removes the entry, so after such a cut an entry points at free clusters; the
code has nothing that repairs this, and the properties that speak of chains,
counters and lost clusters say nothing of volumes it has happened to. The driver
goes on working on them in the model, and the properties about termination, the
mirror, synchronisation and durability cover them.

### FatFile, ByteFile

`FatFile` is one handle on one file. `file` is the struct `File`; clusters and
sectors are numbered from the start of the file, so that `chain` is a number and
the data sectors are `store`. `seek` is `fat_file_seek`, an operator that returns
the error and the new handle, chain and sectors; `ReadChunk` and `WriteChunk` are
one turn of the loops, `BeginRead` ... `EndWrite` the code around them.

`ByteFile` is what the handle promises: bytes, a position, and what a running read
has delivered. It states the promise this code keeps, with what it does to
empty files and full volumes (see [disagreements](#disagreements-found)). `IsByteFile` is
the refinement: `content` is the buffer over the sectors up to the current size.

### FatDirectory

One directory that is not the root, as a sequence of slots: free, last, a
long-name slot or a short one. The last cluster of the chain is followed by a
cluster that belongs to another file (`Junk`), as on a real disk. A step reads or
writes one slot.

| code | model |
|---|---|
| `dir_search`, and `fat_dir_read` in the loop of `cmd_ls` | `ReadLast`, `ReadFree`, `ReadShort`, `ReadHead`, `ReadMore`, `ReadTail` |
| `dir_add` | `Find` for each slot; `Stretch` and `Clear` when the chain ends; `NewEnd`, `AddLong`, `AddShort` |
| `create_chain`, `remove_chain` within a call | `Alloc`, `Unchain`: another sector is in the buffer afterwards |
| `remove_entries` | `Remove` for each slot |
| `sync_fs` | `SyncFs`, `Sync` |

`split` records that what is being written needs several sectors, `torn` that such
a write was cut. The layout cannot survive that, and `EntriesWhole` says so: the
disk parses at every moment at which `split` is false.

### FatTree, NameTree

`FatTree` EXTENDS `SectorCache` with cells for the FAT entries (one sector) and for the slots of
every directory (a sector each), and has the calls that take a path. `follow_path` is an
operator that returns where it stopped and which sectors it loaded on the way; `visit` is the effect
of these loads on the buffer. Once a call writes, each write is a step.

| code | model |
|---|---|
| `fat_file_open` | `fat_file_open`; for a new name `Alloc`, `Find`, `Stretch`, `ClearNew`, `NewEnd`, `Add` |
| `fat_dir_create` | `fat_dir_create`; `Alloc`, `Clear`, `Dots`, then as above, `SyncFs` |
| `fat_dir_open`, `fat_sync` | actions of these names |
| `fat_unlink` | `fat_unlink`; `Unchain`, `Remove`, `SyncFs` |
| power cut and `fat_mount` | `PowerCycle` |

It leaves to `FatVolume` how a chain is written (here `create_chain` and `remove_chain` are one step,
and any free cluster may be taken), to `FatDirectory` how the slots of one entry are (here
an entry is one slot). What it adds: several directories, `.` and `..`, a root that
grows, a cluster that `dir_add` leaves behind when it fails (`failed` counts these),
entries made by another system: short names, and empty files that have no cluster, for which
`fat_unlink` returns `FAT_ERR_BROKEN`. An entry without a long name in the first slot of
the root directory is taken for the root by `dir_at_root`: it cannot be removed, and opening
it as a directory opens the root. On an ordinary volume this slot holds a long-name slot or the label. `CallTells` says
so. While an unlink is between its two halves the entry to go leads to freed clusters: `TreeIntact` leaves out that entry and what is behind it
(`Kept`), and a cut there ends what the model follows. `ls`, `cat` and the other commands use `FatTree` through `Commands`.

`NameTree` is the promise: a set of paths with their kinds, and the one that is on the disk. Paths
come and go one at a time, with everything before them on the disk; a power cut
puts the disk's tree in the place of the other. `IsNameTree` maps both to the tree the driver
sees and the tree on the disk.

### Terminal, Console

`Terminal` has the functions of `tty.c` as operators on a record of its statics. `Console` is the loop of
`shell_loop` over it: a step takes one character (`Type`, `Backspace`, `Enter`, `EnterClear` for
the command "clear", `Ignore` for the turns that change nothing). Any character may come next, since `Keyboard` shows that
`keyboard_getchar` is a queue. The history variable `paper` is what was printed and not
erased since the screen was last cleared, on an endless roll; the properties compare it
with the screen. On the rows a line goes on to after wrapping, its first characters cannot be erased, because the editor
asks for a column above 2 whatever the row; the model does the same.

### Commands

One step executes one line: `parse_redirection`, the choice of the command, its treatment of blanks and
slashes, and the calls of the driver on `tree`, which is that of `NameTree`. The texts are sequences of characters, because the
properties are about the text. What the code does and the properties state:

* `.` and `..` have a meaning only as the whole argument of `cd`; `cd a/..` fails.
* `cd /x` begins at the root of the volume; for all other commands `/x` is `x` below the current directory.
* `cd` and `cat` strip blanks; `touch` and `mkdir` keep those in front as part of the name. What they make under such
  a name, `cd` and `cat` cannot reach. `ArgumentsBelowCwd` says that a path is below the current directory under the names of the
  argument with or without the blanks around it; it does not say which, as nothing in the repository does.
* `cd ..` cuts the path at a slash, so that in `/root/a//` (after `cd a//`) it stays in `a`.
* `touch` and `mkdir` report success for any path that is there, whatever its kind.

### Keyboard, CharQueue

The thread steps are the accesses of `keyboard_getchar` to the ring (`Check`, `Hlt`,
`Load`, `Advance`), after `InitIrq`. `Irq1` is `irq_handler` with the registered
handler, atomic because interrupts are off in it. `Irq0` is the timer tick. Keys may be pressed at
any time, before `keyboard_init_irq` too: interrupts are enabled ahead of it (kernel.c:109), and such
a key leaves its scancode at port 0x60, after which no request comes any more. The
user, the keyboard controller (`Raise`, one scancode at port 0x60, one request for it)
and the interrupt controller are external. `CharQueue` is a bounded first-in
first-out queue; `IsQueue` shows that ring and indices implement it, with the characters between the indices
as the queue. A character that is dropped leaves no trace in `CharQueue`, so that it says nothing
of when that may happen. `LosesOnlyWhenFull` does: the handler takes a character and stores none only if `Size - 1` wait.

### Frames, Paging

`Frames` has the operators of `pmm.c`, a frame being its number. `Paging` composes
them with those who use them and with the processor:

| code | model |
|---|---|
| callers of `pmm_alloc_frame` and `pmm_free_frame` | `Take`, `GiveBack` for each of `Clients` |
| `vmm_map` where the page table is there, and where it is not | `Map`, `MapNewTable` |
| `vmm_unmap` with its `invlpg` | `Unmap` |
| `vmm_switch_directory` | `vmm_switch_directory` |
| the processor's walk and translation buffer | `walk`, `LookUp`, `tlb` |

A client frees any frame below the top of memory: its own, a free one, NULL, a reserved one, or one
that by now is another's. Addresses above the top are not modelled: `test_frame` looks their bits up behind what
`pmm_init` has set up, or behind the bitmap. Frames may hold anything when they become page tables.

An entry is a frame with flags. `vmm_map` gives the entry of the directory the flags of the mapping that makes the page table and never
changes them again (vmm.c:40), and the processor grants what both entries grant: a page that is later mapped with
`PAGE_USER` in a table made without it is not the user's. `Translates` says that no other flag is lost and none added, and that `PAGE_USER` is kept where the first mapping had it, which the history variable `made` records. `vmm_map` of a page that is
mapped replaces the entry without `invlpg` (vmm.c:43), so that the processor may go on with the old translation until it looks the page up again; `remapped` is
the set of these pages, and `StaleOnlyRemapped` says that no other translation is stale.

Two more history variables say when the promises end. `vmm_map` does not look at what `pmm_alloc_frame` returns:
`exhausted` records that it was given NULL, after which two directories share frame 0. `pmm_free_frame` does not know who has a frame:
`misused` records that one in use was freed by somebody else. `CountExact` holds in any case, the others until then.

The kernel's own directory is the one loaded first. Of its 1024 entries `vmm_init` fills 256 with static tables for the identity map (vmm.c:18); `PD` stands for entries that are
empty at first, in this directory those from 256 on. Nothing in the kernel but `vmm_init` calls these functions yet, so `Dirs`, `Mappings` and
`Clients` are any callers that use them as their headers allow.

### KHeap, Allocator

`heap` maps the address of each header in the list to its fields. `kmalloc` and
`kfree` begin a call, `Skip`, `Grant`, `ReturnNull`, `Merge`, `Advance` and `Merged` are the turns
and ends of their loops. Sizes have the width of a `size_t` (`Word`): the rounding of a
size above 2^32 - 8 wraps to 0 and the caller gets a block of no byte. `Allocator`
promises callers memory of their own, and `IsAllocator` counts such a request as one
for no byte: nobody else's memory is handed out, but the request is not refused.

### MC modules and proof modules

`MC...` gives the constants their values. `SectorCacheProofs`, `FatVolumeProofs`, `FatFileProofs`, `FatDirectoryProofs`,
`FatTreeProofs` and `KeyboardProofs` hold the theorems about the modules they are named after, `ShellProofs`
those about `Console` (with `Terminal`) and `Commands`, the two halves of the shell, and `MemoryProofs` those about `Paging` (with `Frames`) and `KHeap`.

## Runs and bounds

| run | states | checks |
|---|---|---|
| `fat_volume` | 669,306 | `TypeOK`, `ChainsIntact`, `LeakBounded`, `FreeCountBounded`, `MirrorLagBounded`, `SyncedOnReturn`, `Durable`, `FullOnlyIfFull`, `CallsReturn` |
| `fat_file` | 244,076 | `TypeOK`, `SectorAtOffset`, `ReadDelivers`, `WriteStoresWithRoom`, `IsByteFile` |
| `fat_directory` | 501,939 | `TypeOK`, `EntriesWhole`, `CallEffect`, `PromisedStay`, `ListsMarked`, `CallsReturn` |
| `fat_tree` | 46,111 | `TreeIntact`, `LostBounded`, `CallTells`, `IsNameTree` |
| `console` | 99,550 | `ScreenShowsPaper`, `LineIsShown` |
| `commands` | 5,657 | `CwdOpens`, `CdAsMeant`, `ArgumentsBelowCwd` |
| `keyboard` | 191,084 | `AsMeant`, `IsQueue`, `LosesOnlyWhenFull`, `NoSleepForever` |
| `paging` | 1,271,402 | `CountExact`, `FramesUnshared`, `Translates`, `StaleOnlyRemapped` |
| `kheap` | 134,958 | `Tiled`, `IsAllocator`, `FailsOnlyIfFull` |
| `fat_file_empty`, `fat_file_full`, `fat_directory_full` | | one statement of the repository each, which the code violates |

* `fat_volume`: a FAT of seven entries (clusters 2 to 6): the root's, a bad one that every search has to
  pass over, and three free ones; four to a sector, so that a link and its target are in
  one sector or in two; a mirror; two names in one directory sector; one power cut
  (`MaxCrashes`); the hint of FsInfo anywhere. Two files are enough to fill the volume, to
  fragment chains and to give one file's clusters to the other. `Wrap` is 16 instead of 2^32, more than
  any count the volume can reach, so that a count below zero shows as a large one.
* `fat_file`: sectors of two bytes, clusters of two sectors, two clusters. A call stays
  in a sector, crosses one, crosses a cluster, ends at either boundary, and runs out
  of clusters. Files of 0, 3 and 8 bytes; writes of one and three bytes; reads
  of three; seeks to 0, 3 and 7; all three kinds of flags. A file of 0 bytes is found
  with and without a cluster.
* `fat_directory`: three slots to a sector, one sector to a cluster, three clusters, three
  names: two of them take two slots and one three, two have the same 8.3 form. Entries
  fit a sector, straddle two, fill a cluster and overflow the chain; the initial
  directory is empty or was filled to its last slot by another system. One cut.
* `fat_tree`: a root directory and four more clusters of three slots, two names, paths of
  at most two. The first name in a directory below the root already needs a second cluster; two directories, one of
  them that long, and a file fill the volume, and a directory of two clusters is made, emptied and removed. At first the root is empty, as after formatting, or holds a file of another system in its first slot in front of
  slots no longer in use, or two empty files that have no cluster. At most four calls that set out
  to change the tree (`MaxChanges`), one cut, calls that only look as often as one likes. Names and the clusters other than the root's are symmetric: no definition
  tells them apart, and the properties are invariants and a property of steps, not liveness.
* `console`: a screen of three rows of four cells, lines of at most five characters, which wrap after the
  prompt and once more; commands print nothing, a line, text without a new line at its end, or more than a
  row. At most 15 characters are on the paper before a line (`MaxText`): the screen scrolls several times.
* `commands`: 31 lines over one letter, with a second where two names are needed, which place slashes, dots, blanks and redirections wherever the
  commands tell them apart. At most two paths are created (`MaxChanges`): a directory in a directory, or a file beside it.
  The current path can get longer only by a name that is there, so that no further bound is needed.
* `keyboard`: a ring of three slots, two of which can be used, and seven scancodes: the
  ring overflows and both indices come round twice.
* `paging`: two directories of one entry each, tables of two pages, two clients (symmetric), two frames behind one of the kernel's, and two mappings that differ in the frame, in `PAGE_RW` and in
  `PAGE_USER`. Page tables and clients use the frames up, so that `vmm_map` is given NULL; a client frees a frame again that the other one or a page table has by then;
  page tables are made by either mapping, pages mapped and replaced by either, in the directory that is loaded and the other one. After the first fault only clients go on (`AfterFault`):
  the other three properties promise nothing then, and `vmm_map` changes the count in no other way than `Take` does. `TypeOK` is proved and not in the run.
* `kheap`: 92 bytes, headers of 12, requests of 8, 17 and 511 bytes in words of 9 bits: a
  block is met exactly, leaves a rest too small to split, or leaves a block; the third
  request wraps.

`CHECK_DEADLOCK FALSE` stands only in the two configurations with power cuts that can end: a volume that
`fat_mount` refuses stays unmounted (`FatVolume`), and after a cut inside `fat_unlink` `FatTree` follows the volume no
further. All other runs check deadlock.

## Fairness

`FatVolume` and `FatDirectory` assume weak fairness of the steps of a call that has
begun (`Step`): the kernel has one thread, which runs a call to its end unless power
is lost, and a disk access always returns. The last is an assumption about `ata.c`, whose
waits have no limit. Nobody is obliged to begin a call, to cut power or not to.
`Keyboard` assumes weak fairness of the thread, of the keyboard controller raising its
interrupt, of the processor taking it and of the timer, which `timer_init(100)` starts; `hlt`
itself never ends without one of them. The user is not obliged to type.
`FatFile`, `FatTree`, `Console`, `Commands`, `Paging` and `KHeap` have no liveness property and no fairness.

## Proofs

Run `tlapm` on the eight proof modules; each theorem below is for every value of the
constants, under the assumptions named here, which TLC evaluates in every run of
the module.

| module | theorem | says |
|---|---|---|
| `FatVolumeProofs` | `Invariance` | `Spec => []Inv` |
| | `TypeCorrect` | `TypeOK`, also after any number of power cuts |
| | `ChainsStayIntact` | `ChainsIntact` |
| | `CallsLeaveDiskSynced` | `SyncedOnReturn` |
| | `ClosedFilesStay` | `Durable` |
| | `MirrorFollows` | `MirrorLagBounded` |
| | `FullMeansFull` | `FullOnlyIfFull`, an action property |
| | `CountStaysClose` | `FreeCountBounded` |
| | `LeaksStayBounded` | `LeakBounded` |
| `FatFileProofs` | `FileStaysInChain` | `TypeOK`, whatever the seeks |
| | `HandleAtOffset`, `ReadsDeliver`, `WritesStore` | `SectorAtOffset`, `ReadDelivers`, `WriteStoresWithRoom`, if no seek strays |
| | `FileIsBytes` | `IsByteFile`, if no seek strays: the driver implements `ByteFile` |
| | `SeeksWithinVolume` | no seek below the capacity of the volume strays |
| `FatDirectoryProofs` | `TypeCorrect` | `TypeOK` |
| | `EntriesStayWhole` | `EntriesWhole` |
| | `CallsTell` | `CallEffect` |
| | `PromisesKept` | `PromisedStay` |
| | `ListsOnce` | `ListsMarked` |
| `FatTreeProofs` | `TreeIsIntact` | `TreeIntact` |
| `KeyboardProofs` | `ShellGetsWhatWasMeant` | `AsMeant` |
| | `RingIsQueue` | the initial states and steps of `CharQueue`: the safety part of `IsQueue` |
| | `OnlyFullLoses` | `LosesOnlyWhenFull`, an action property |
| `MemoryProofs` | `HeapStaysTiled` | `Tiled` |
| | `HeapIsAllocator` | `IsAllocator`: the list implements `Allocator` |
| | `FailureMeansFull` | `FailsOnlyIfFull`, an action property |
| `ShellProofs` | `ScreenStaysInStep` | `ScreenShowsPaper` |
| | `LineStaysShown` | `LineIsShown` |
| | `CwdAlwaysOpens` | `CwdOpens` |
| | `CdLeadsAsMeant` | `CdAsMeant`, an action property |
| | `ArgumentsStayBelow` | `ArgumentsBelowCwd`, an action property |
| `MemoryProofs` | `TypeCorrect`, `FramesCounted`, `FramesStayUnshared` | `TypeOK`, `CountExact`, `FramesUnshared` |
| | `PagesTranslate`, `OnlyRemappedStale` | `Translates`, `StaleOnlyRemapped` |

**FatVolume.** `VolumeAssumption` says that the FAT has more than three entries, a positive
number of them in a sector, that the root is not a bad cluster, and that `Wrap` exceeds the
entries and the cuts together; `CacheAssumption` that the cache is over the cells of
the volume. `ChainsIntact` is not inductive. Three things are missing: what a call holds
in its locals between two writes, what the buffer may still keep from the disk, and what
holds after a cut inside `fat_unlink`, when `ChainsIntact` says nothing and the types must
hold all the same. `Inv` adds them:

* `CallInv`: which call can be at which point, and what its locals name there.
* `RootInv`: nothing refers to the root directory and it is never freed. It holds on the
  disk and in the view, after any cut. It is what keeps `remove_chain` in the clusters of
  the volume once the chains themselves cannot be trusted.
* `CacheInv`: a clean buffer is a copy of its sector, and the FsInfo sector is only ever
  written by `sync_fs`, with a clean buffer.
* `ChainInv`: nothing refers to a cluster that was allocated and is not linked yet, it
  is marked as an end before anything refers to it, and nothing but the entry being
  unlinked refers to the cluster that `remove_chain` is at.

The step that matters is the eviction. `SectorCacheProofs` shows that each operator of the
cache changes the view in the one cell it names, and leaves the disk either as
it was or equal to the old view. So the disk is at all times what the view is or once was, and since
every view is intact, the disk is. This is why `stretch_chain` must write the new end before
the link, and why it would not be enough to be right in memory. The proof has a
step for each action, and in it one for each part of `Inv`.

**Durability and the mirror.** Two more invariants, each inductive together with `Inv`. `EntryInv`, for
`Durable`: a promised entry is on the disk and in the view, since after an eviction the view is the next disk;
a call that will change an entry has withdrawn its promise; the entry of an open file is there, and after `remove_entries` the
entry is gone, so that the `sync_fs` at the end of `fat_file_close` and `fat_unlink` writes what is then promised. `LagInv`,
for `MirrorLagBounded`: between the two writes of `put_fat` the mirror is ahead in the entry being written, with the value
that the second write will store; no other step makes an entry lag, and the disk, being a view of the past, has at most that one
more, which is what a cut can make permanent. Both hold after cuts inside `fat_unlink` too, so neither
uses `ChainInv`.

**Counts and leaks.** Three more invariants, each inductive together with what is above. `ScanInv`, for `FullOnlyIfFull`:
the clusters between `Fat.last_used` and the one the search is at, round the end of the FAT, are not free. `CountInv`, for
`FreeCountBounded`: the count is mounted from FsInfo, so the invariant is about four copies of the number at once, the count in
memory, the one in FsInfo, and the free clusters of view and disk. FsInfo is behind only until the `sync_fs` that follows,
which runs because `info_dirty` is set (`FlagInv`), and the FAT on the disk is behind by the cluster being allocated at most; a cut
therefore costs one. `LeakInv`, for `LeakBounded`: each cluster without an owner is paid for by a cut, but for the one in `clust` which the running call
holds; and the disk, which a cut makes the view, has at most one more. `Lost` is the set of clusters in use to which nothing refers: when
`remove_chain` frees the head of a chain, the next cluster becomes one, and `clust` holds that. So no fact about whole chains is needed, and the
cardinalities are of sets that differ in one element.

**FatFile.** `FileAssumption` says that sector, cluster and volume are not empty and where sizes, data and offsets come from. All
arithmetic is over `S`, `K` and `Room` as variables, and products of variables are outside the decision procedures of the solver, so the first lemmas (`Division`,
`DivisionUnique`, `QuotientBelow`, `WithinSector`, `SectorOfOffset`) prove what is needed of quotients and remainders from the distributive
law. Two invariants:

* `FileInv` holds whatever the user does: `Sound` says of a handle that its cluster is not behind its offset (it may be ahead) and that a clean buffer is its
  sector, `Placed` that it stands in the chain unless the file is empty. It is an invariant of the handle *while* a call changes it, so that the
  lemma about `seek` (`SeekFacts`) serves opening, seeking, reading and writing; its main statement is that `seek` leaves the *view*, the sectors with the buffer over
  one of them, as it was.
* `DataInv` adds where the handle is (`At`) and what the running call has done: `ReadInv`, that what has been delivered is what the
  file holds there, and that a loop that met an error has delivered all there was; `WriteInv`, that what has been taken of the data is
  stored. A piece that a write moves changes its own bytes and no others (`NewBytes`), and the volume can be full only behind the last
  cluster (`FullAtLast`), which is why the failing seek at the end of a call comes too late to do harm.

`At` is not kept by every seek. One that has to follow several clusters and meets `FAT_ERR_FULL` leaves `File.clust` at the last
cluster and the offset where it was (fat.c:1451), and `Strays(off)` says exactly when: the target is past the volume and the handle before its
last cluster. `NoneStrays` says no step of the behaviour is such a seek, and the theorems about data are under this condition, because without it they are
false: the next seek would count from the wrong cluster. It is a condition on the user's seeks only. `SeeksWithinVolume` derives it for
a user who never seeks past the capacity of the volume, as in the run and in the shell, which does not seek at all. `FileIsBytes` needs one
invariant more, `SizeInv`: a handle that is not marked as modified has the size of the directory entry; otherwise closing would
lose bytes.

**FatDirectory.** `DirectoryAssumption` says that there are two slots to a sector at least (there are 16), that each name has a long-name
slot, and that the cache is over the slots. `InitialAssumption` is about the directory another system has left: it is `Whole`, as promised later, and
`ShortDistinct`: an entry *without* a long name does not have the 8.3 form of a second name. Both are needed. `dir_search` finds such an entry by its
8.3 form alone, so that on other volumes the call for one name would find the file of another, and `CallEffect` is false. The calls make no such entry, and
the theorem shows that they keep it so. `DirInv` has three parts:

* `FrameInv` holds also after a cut has torn an entry. `BeyondInv`: what lies behind the chain is never written. `ScanInv`: the walk has met no end marker, and has passed long-name
  slots since `first`. `FindInv`: the run of slots that `dir_add` has counted is free up to the end marker, and once the marker is met it is the first. `ClearInv`: the
  new cluster holds what was in it, sector by sector replaced, and no name.
* `PromiseInv`, for `PromisedStay`: a promised name is on the disk and, while no removal waits for its `sync_fs`, in the view, in a slot that the entry being written does not
  reach. This too holds after any cut.
* `EntryInv`, as long as nothing is torn. The view is `Sound` (whole and `ShortDistinct`) whenever no entry is half written or removed. While one is, the invariant speaks of the
  directory as it *will* be, `filled(View, first, name)` or `emptied(View, first, cnt)`, which the remaining writes leave as it is (`FilledSound`, `EmptiedSound` show once and for all that they are
  sound, and have one name more or less). The disk is `Sound` unless `split`: as long as `first` and the last slot share a sector, the buffer holds that sector from the first write on (`Buffered`), so
  that nothing reaches the disk before the entry is complete.

`MarkerBehind` carries the growth: what is put behind the first end marker, or behind the end of the chain, changes no entry. This is why `dir_add` must write the new marker before it overwrites the old one, and why a
directory without a marker (`~eod`) is torn by a cut between `stretch_chain` and the first sector of `clust_clear`. For the walk, `EntryScan` says that the names of the short slots passed are those printed, each once (`OnceEach` makes
that a statement about cardinalities), and that the name searched for is not among them.

**FatTree.** `TreeAssumption` says that a cluster has room for more than two entries and that the cache is over the FAT and the slots;
`InitialAssumption` that the root directory another system has left has an end marker, names each file once and gives each a cluster of its own or none. `TreeIntact` is not inductive: it says
what is reachable by `MaxDepth` names, and nothing of what the running call holds. `TreeInv` says instead that there is a set `D` of directories with which the store is `Good`: `Root` is one; each has an end marker
and lists `D`'s other directories, each in one entry, with itself and its lister behind its dots; and the chains of all owners, the heads of entries and the root, are without free clusters
and apart. So no recursion over paths is left in it: `NodesAre` shows by induction over the depth that all that paths reach lies in `D`, and `SoundIs` that a good store is sound. `Phase` adds what the call knows:

* `Missing`: the name it makes is in no entry of the directory it is made in. `Took`: the cluster it has taken is the end of a chain and in nobody's (`Fresh`), and once the
  dots are in it, it lists nothing (`Dotty`). `Slotted`: the slot for the entry is free, or the first end marker with one behind it (`Spare`), or on the way there (`NextAt`, `Behind`).
* `Removing`: the entry at `at` is in a directory of `D`, and if it is a directory there is nothing in it. When `Unchain` has freed the chain, the store is good without that directory and with `at` exempted, the set `X` of `Good`, until `Remove`.

For each change of a store there is a lemma that it stays good: a cluster is allocated (`AllocStore`), written while it is nobody's (`FreshStore`), something changes behind the end marker (`BeyondStore`), a directory
gets a cluster (`StretchStore`), an entry is added (`AddStore`), a chain freed (`UnchainStore`), an entry removed (`RemoveStore`). They are about stores and not about steps, so they hold of the view; the disk is what it
was, or the view before or after the step (`DiskNext`), and so is good when the view always is. Chains are recursive functions; `Following` and `ChainIs` show by induction that `chain` returns the one sequence that is `Linked`, in which no cluster
comes twice, if there is one, and `Pigeons` that it fits the number of clusters the recursion is given.

**Keyboard.** The only assumption about sizes is that the ring has two slots at least. `KeyInv` has four parts. `RingInv`: where the thread is and what it may count
on, above all that between the check for an empty ring and the load the interrupt only ever adds. `ShellInv`: what has been read, followed by
what is between the indices (`Queued`), is faithful to what was meant. `OrderInv`: all of it was typed before what is still at the
port, which makes a lost character a gap and never a swap. `PortInv` relates the handler's `shift_pressed` to the shift that was held
when a key went down, over any number of scancodes still on their way: there is a sequence of shift states,
one for each of them, that begins with the one and ends with the other (`ShiftRun`). Stating it as the existence of a function avoids a recursion
over the scancodes. Indices modulo `Size` are compared through `Queued`, whose length is proved to grow and shrink by one for each step, also round the end.

**KHeap.** The assumptions: the heap has room for a header, and words are wide enough for its size. `Tiled` is not inductive: it says where the next block is and not that none lies between. `BlocksInv` says that, `HeldInv` that each pointer
handed out is behind the header of a block in use that is large enough, and with the lemma that a merge or a split moves no byte of another block this gives `IsAllocator`. `FailsOnlyIfFull` needs the most: `CoverInv`, no byte is outside the list;
`MergedInv`, two free blocks are adjacent only ahead of the loop of `kfree`, so that free memory in one piece is one block; `PassedInv`, the blocks that `kmalloc` has passed do not fit.

**Console.** The assumptions: the screen is not empty, the blank and `>` can be drawn and a new line is no drawn character, `cmdbuf` has room for its
terminating zero, and what commands print is text. `ScreenInv` says that the line in `cmdbuf` fits and stands with the prompt at the end of `paper`, and
that the terminal is `Shown`: there is a line and a column for every character on an endless roll (`Roll`), the cursor is where the next
character goes, and the screen holds the characters of the lines from `Top` on, blanks elsewhere (`Drawn`). A lemma for each operation of `tty.c` keeps that, with the scroll as the
case where `Top` moves; `Backspace` is the one that could fail, as it looks at the column alone. Texts have any length, so this is induction over a loop. The library's rule for it
is about a predicate; `Induction` states it about a *set* of numbers and follows from the least-number
principle, and `Recursion` gives the function that a loop computes. The folds of `Terminal` and the recursive functions of `Commands` need no more.

**Commands.** The only assumption is that lines are non-empty texts of strings. The back ends do not know that `"/"` is a string, so
the proof is over `STRING` with it and `"root"` added. `CmdInv`: the current path begins with the prefix of the volume, what is
below it names a directory, and every directory but the root lies in one. It is inductive by what `subpaths` makes of texts that the commands join and cut: `JoinAtSlash`, a slash at the seam keeps the names of two paths apart;
`OneName`, a text without a slash is one name; `UpLeads`, cutting the current path at its last slash drops exactly the last name, or, after two slashes in a row, nothing.
The two action properties follow for each step from the same lemmas.

**Paging.** `FramesAssumption` says that at least one frame lies below the managed ones and at
least one is managed; `PagingAssumption` that mappings and what frames hold at first are entries, and that the directory loaded first is one of `Dirs`. `PagingInv`
is inductive: `TypeOK`, `CountExact`, `FramesUnshared`, `StaleOnlyRemapped`, and `TablesAsAsked`, that each page table holds the entries that were asked for in full and its directory's entry
the flags in `made`. `CountExact` makes `pmm_alloc_frame` return NULL only when no frame of its own is free, so a new table is
nobody's; `FramesUnshared` keeps a store to one table from showing in another, and `TablesAsAsked` true; `Translates` follows from it by `WalkIsGranted`, what the walk finds is the
intersection of the two. For `StaleOnlyRemapped` the same lemma shows that no step changes what the walk finds for a page in the translation buffer unless it is in `remapped` or dropped from the buffer.
After `exhausted` or `misused` the first two still hold.

**Out of the prover's reach, checked by TLC only.** Liveness (`CallsReturn`,
`NoSleepForever`, the fairness in `IsQueue`) and whatever needs ENABLED; facts about the length of a chain that need
induction over it. The library's induction theorems take operators as parameters, which the installed back ends do not
instantiate; `ShellProofs` shows how far induction over sets goes instead. RECURSIVE operators
would be out of reach too; no module has one.

**Not proved, checked by TLC.** `LostBounded`, `CallTells` and the refinement `IsNameTree` of
`FatTree`. They need an invariant about the paths themselves, that `D` is exactly what paths of `MaxDepth` names reach.

## Disagreements found

Each is a run that violates one property, which states what a comment or document says.

* `fat_file_empty`, `WriteStores`: `fat_file_seek` does nothing while the size is 0 (fat.c:1417), and
  the size grows only to the offset reached. What is written to an empty, new or truncated
  file is lost with `FAT_ERR_NONE`.
* `fat_file_full`, `WriteStores`: in the loop of `fat_file_write` the error of the seek goes to an inner variable of
  the same name (fat.c:1368): when the volume is full the call returns `FAT_ERR_NONE` and counts bytes
  it has not stored. `WriteStoresWithRoom` holds.
* `fat_directory_full`, `ListsEntries`: `cmd_ls` ignores the `FAT_ERR_EOF` of `fat_dir_next` (commands.c:41) and reads the
  sectors behind a directory without an end marker. With a marker, `ListsMarked` holds.

Where no statement of the repository says otherwise, what the code does is part of the model and of the properties: a
search for a free cluster gives up when it is back at `Fat.last_used`, without looking at that cluster (fat.c:418, the exception in
`FullOnlyIfFull`); a key pressed before `keyboard_init_irq` silences the keyboard; `dir_at_root` (see `FatTree`); what
`Commands` lists above.

## Not modelled

Assumptions about what is outside: `DiskOps` never reports a failure (both functions of
`ata.c` return 0 on every path) and the write of one sector is atomic; the keyboard controller holds the next scancode
until the one at the port has been read.

* ATA, serial port, port I/O: pure I/O. C library: stateless. Loader, banner, boot animation: nothing to check.
* Of the terminal: colours, the hardware cursor and the copy to the serial port, which nothing reads; `terminal_set_position`,
  which only the boot animation calls.
* Of the commands: the texts they print, and the lengths at which their buffers end.
* Of the FAT driver: `fat_umount`, several volumes, `fat_probe` and the checks of the boot sector;
  `fat_stat`, which nothing calls; time stamps; the characters of names and their 8.3 form; attributes other than that of a directory;
  a file that is unlinked while a handle to it is open, which the shell never does.
* Of a seek that fails with `FAT_ERR_FULL` after it has followed several clusters: the offsets of the run are such that it fails at the
  first. `File.clust` is then ahead of `File.offset`.
* Of paging: the identity map of `vmm_init`, `enable_paging` setting CR0, and frees of addresses above the top of memory.
* Of numbers: `fat_file_read` converts the rest of the file to an int (fat.c:1323), here the identity, which it is for files below 2^31 bytes; `fat_file_seek`
  refuses targets below 0 or above 2^32 - 1 with `FAT_ERR_EOF` and no effect (fat.c:1411), which are not among the offsets.
* Of closing a handle of the root directory opened for writing: `fat_file_sync` then sets attribute and size in the first slot of the root (fat.c:1511). `FatTree`'s
  `CallTells` and `IsNameTree` are without it.
* Of a freed long-name slot: the attribute and checksum that stay in it (fat.c:854). `parse_lfn_name` looks at these alone in the slots behind the head
  (fat.c:687), so that in a directory *torn by a cut* it may take a freed slot for a part of a name.

## Plan

The models are complete as far as [not modelled](#not-modelled) allows: `SectorCache`, `FatVolume` (core), `FatFile` with `ByteFile`,
`FatDirectory`, `FatTree` with `NameTree`, `Terminal`, `Console`, `Commands`, `Keyboard` with `CharQueue`, `Frames`, `Paging`, `KHeap` with
`Allocator`; proofs for all of `FatVolume`, `FatFile`, `FatDirectory`, `Console`, `Commands`, `Keyboard`, `Paging` and `KHeap` but liveness, and for `TreeIntact` of `FatTree`. Left, in order:

1. Proofs: `CallTells`, `LostBounded` and `IsNameTree` of `FatTree`.
2. The conversion of names to 8.3 as a pure operator, checked against its definition for short names.
