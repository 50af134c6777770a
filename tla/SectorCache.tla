---------------------------- MODULE SectorCache ----------------------------
(***************************************************************************)
(* The one-sector write-back cache of the FAT driver: Fat.buf, Fat.sect    *)
(* and the flag FAT_BUF_DIRTY (src/src/fs/fat.c, sync_buf and update_buf). *)
(* Every access the driver makes to the FAT tables, the FsInfo sector or a *)
(* directory goes through this buffer, so what a power cut finds on the    *)
(* disk depends on when the buffer is written back.                        *)
(*                                                                         *)
(* The disk is a function from cells (FAT entries, FsInfo fields,          *)
(* directory entries) to values.  SectorOf[x] is the sector a cell is in;  *)
(* a write transfers all the cells of one sector at once.  The module has  *)
(* no next-state relation: FatVolume composes its operators, each of which *)
(* makes at most one write to the disk.                                    *)
(*                                                                         *)
(* DiskOps.read and DiskOps.write never report a failure in this kernel    *)
(* (ata_read_sectors and ata_write_sectors return 0 on every path), so the *)
(* error returns of sync_buf and update_buf are not taken.                 *)
(***************************************************************************)

CONSTANTS
  Cell,        \* the set of cells of the volume
  SectorOf     \* the sector of each cell

VARIABLES
  disk,        \* what is on the disk: [Cell -> value]
  sect,        \* Fat.sect: the sector the buffer holds
  buf,         \* Fat.buf: the cells of that sector
  dirty        \* FAT_BUF_DIRTY

cacheVars == <<disk, sect, buf, dirty>>

CellsOf(s) == {x \in Cell : SectorOf[x] = s}

(* What the driver reads: the buffer over the disk. *)
View == [x \in Cell |-> IF SectorOf[x] = sect THEN buf[x] ELSE disk[x]]

(* The disk once a dirty buffer has been written back to its sector. *)
Flushed == [x \in Cell |-> IF dirty /\ SectorOf[x] = sect THEN buf[x] ELSE disk[x]]

sync_buf ==
  /\ disk' = Flushed
  /\ dirty' = FALSE
  /\ UNCHANGED <<sect, buf>>

(* The buffer is written back before another sector takes its place. *)
update_buf(s) ==
  \/ /\ s = sect
     /\ UNCHANGED cacheVars
  \/ /\ s # sect
     /\ disk' = Flushed
     /\ sect' = s
     /\ buf' = [x \in CellsOf(s) |-> disk[x]]
     /\ dirty' = FALSE

(* update_buf for the sector of x, then x is overwritten in the buffer. *)
put(x, v) ==
  LET s == SectorOf[x] IN
  /\ disk' = IF s = sect THEN disk ELSE Flushed
  /\ sect' = s
  /\ buf' = [y \in CellsOf(s) |-> IF y = x THEN v ELSE View[y]]
  /\ dirty' = TRUE

(* The same when what changes in the sector is not part of any cell. *)
touch(x) == put(x, View[x])

(* Once power is lost the buffer is gone. fat_mount sets Fat.sect to 0, the
   boot sector, which holds none of the cells ("causes buffering on first
   call"). *)
drop_buf(bootSector) ==
  /\ sect' = bootSector
  /\ buf' = [x \in {} |-> 0]
  /\ dirty' = FALSE
  /\ UNCHANGED disk

(* Unless it is dirty, the buffer is a copy of its sector. *)
Coherent == ~dirty => \A x \in CellsOf(sect) : buf[x] = disk[x]

=============================================================================
