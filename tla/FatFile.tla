------------------------------ MODULE FatFile ------------------------------
(***************************************************************************)
(* The content of one file, src/src/fs/fat.c: fat_file_open,               *)
(* fat_file_read, fat_file_write, fat_file_seek, fat_file_sync and         *)
(* fat_file_close, with the one-sector buffer of the handle.  Reads and    *)
(* writes move the offset with fat_file_seek, which follows the cluster    *)
(* chain, stretches it at its end, and changes the buffered sector; one    *)
(* iteration of their loops is a step.                                     *)
(*                                                                         *)
(* Abstracted here: which clusters the chain is made of (FatVolume).  They *)
(* are numbered from the start of the file, and so are its sectors.        *)
(***************************************************************************)
EXTENDS Integers, Sequences

CONSTANTS
  Byte,         \* the values of a byte
  S,            \* bytes in a sector (512)
  K,            \* sectors in a cluster (1 << Fat.clust_shift)
  Room,         \* clusters the chain can have before the volume is full
  Garbage,      \* the byte that clusters hold when they are allocated
  Sizes,        \* sizes the file may have on the disk at first
  Modes,        \* the flags fat_file_open is called with
  Data,         \* what fat_file_write is called with
  Lengths,      \* how many bytes fat_file_read is called with
  Offsets       \* where the user seeks to

ClustSize == S * K
SectorIds == 0 .. (Room * K - 1)
Sector == [0 .. (S - 1) -> Byte]
NoSect == Room * K              \* 0xffffffff

Flags == {"READ", "WRITE", "APPEND", "TRUNC"}

ASSUME FileAssumption ==
  /\ S \in Nat \ {0} /\ K \in Nat \ {0} /\ Room \in Nat \ {0}
  /\ Garbage \in Byte
  /\ Sizes \subseteq 0 .. (Room * ClustSize)
  /\ Modes \subseteq SUBSET Flags
  /\ Data \subseteq Seq(Byte) /\ Lengths \subseteq Nat /\ Offsets \subseteq Nat

VARIABLES
  store,     \* the sectors of the file on the disk
  chain,     \* the number of clusters in its chain
  dsize,     \* Sfn.size: the size in the directory entry
  open,      \* whether there is a handle
  file,      \* File: size, offset, sect, clust, buf and the flags
  op,        \* the running call, "read", "write" or "none"
  todo,      \* where the call began, what it was given and what is left of that
  out,       \* what the running read has delivered
  last       \* history: the last call that moved bytes, once it has returned

vars == <<store, chain, dsize, open, file, op, todo, out, last>>

byte_min(m, n) == IF m < n THEN m ELSE n
byte_max(m, n) == IF m < n THEN n ELSE m

Closed == [size |-> 0, offset |-> 0, sect |-> NoSect, clust |-> 0,
           buf |-> [i \in 0 .. (S - 1) |-> Garbage],
           dirty |-> FALSE, modified |-> FALSE, flags |-> {}]
NoCall == [call |-> "none"]

(* A file as another system may have left it: as many clusters as its size
   takes; an empty one has none, or the one that fat_file_open created. *)
Init ==
  /\ dsize \in Sizes
  /\ chain \in IF dsize = 0 THEN {0, 1} ELSE {(dsize + ClustSize - 1) \div ClustSize}
  /\ store = [s \in SectorIds |-> [i \in 0 .. (S - 1) |-> Garbage]]
  /\ open = FALSE /\ file = Closed
  /\ op = "none" /\ todo = NoCall /\ out = <<>> /\ last = NoCall

-----------------------------------------------------------------------------
(* fat_file_seek. An outcome is the error, the handle, the chain and the
   sectors after it. *)

Outcome(e, h, c, st) == [err |-> e, file |-> h, chain |-> c, store |-> st]

(* The cluster the search arrives at. A backward seek starts over at the first
   cluster, a forward one at File.clust. *)
target_clust(h, off) ==
  LET dst == off \div ClustSize
      src == h.offset \div ClustSize
  IN  IF dst < src THEN dst ELSE h.clust + (dst - src)

(* Mutant: the old sector is not written back. *)
load_sector_lost(h, off) ==
  LET c == target_clust(h, off)
      s == (c * K) + ((off \div S) % K)
      moved == [h EXCEPT !.clust = c, !.sect = s, !.offset = off]
  IN  Outcome("NONE",
              IF s = h.sect THEN moved
              ELSE [moved EXCEPT !.buf = store[s], !.dirty = FALSE],
              byte_max(chain, c + 1), store)

(* The cluster and the sector have been found: the old sector is written back
   if it is dirty, and the new one is read. Moving inside a sector touches
   neither. *)
load_sector(h, off) ==
  LET c  == target_clust(h, off)
      s  == (c * K) + ((off \div S) % K)
      st == IF h.dirty /\ s # h.sect /\ h.sect # NoSect
              THEN [store EXCEPT ![h.sect] = h.buf] ELSE store
      moved == [h EXCEPT !.clust = c, !.sect = s, !.offset = off]
  IN  Outcome("NONE",
              IF s = h.sect THEN moved
              ELSE [moved EXCEPT !.buf = st[s], !.dirty = FALSE],
              byte_max(chain, c + 1), st)

(* The volume is full: the chain has been stretched as far as it goes and
   File.clust is its last cluster, but the offset and the sector are the old
   ones. *)
stretched_in_vain(h) == Outcome("FULL", [h EXCEPT !.clust = Room - 1], Room, store)

(* Mutant: a seek starts over only when it goes back to the first cluster. *)
seek_forward_only(h, off) ==
  LET c == h.clust + byte_max(0, (off \div ClustSize) - (h.offset \div ClustSize))
      s == (c * K) + ((off \div S) % K)
  IN  IF chain = 0 \/ h.size = 0
        THEN Outcome("NONE", [h EXCEPT !.offset = 0, !.sect = NoSect], chain, store)
      ELSE IF c >= Room THEN stretched_in_vain(h)
      ELSE Outcome("NONE",
                   IF s = h.sect THEN [h EXCEPT !.offset = off]
                   ELSE [h EXCEPT !.clust = c, !.sect = s, !.offset = off,
                                  !.buf = store[s], !.dirty = FALSE],
                   byte_max(chain, c + 1),
                   IF h.dirty /\ s # h.sect /\ h.sect # NoSect
                     THEN [store EXCEPT ![h.sect] = h.buf] ELSE store)

(* Targets are offsets of the file: what fat_file_seek refuses with FAT_ERR_EOF,
   a target below 0 or above 2^32 - 1, has no effect. *)
seek(h, off) ==
  IF chain = 0 \/ h.size = 0
    THEN Outcome("NONE", [h EXCEPT !.offset = 0, !.sect = NoSect], chain, store)
  ELSE IF target_clust(h, off) >= Room THEN stretched_in_vain(h)
  ELSE load_sector(h, off)

-----------------------------------------------------------------------------
(* Mutant: truncating a file does not mark it as modified. *)
FileOpenUnflagged(mode) ==
  /\ ~open
  /\ LET size == IF "TRUNC" \in mode THEN 0 ELSE dsize
         r    == seek([Closed EXCEPT !.size = size, !.flags = mode],
                      IF "APPEND" \in mode THEN size ELSE 0)
     IN  /\ r.err = "NONE"
         /\ open' = TRUE
         /\ file' = r.file /\ chain' = r.chain /\ store' = r.store
  /\ last' = NoCall
  /\ UNCHANGED <<dsize, op, todo, out>>

(* fat_file_open of a file that exists. When the seek to the end fails the
   caller gets FAT_ERR_FULL and no handle, and nothing has changed. *)
FileOpen(mode) ==
  /\ ~open
  /\ LET size == IF "TRUNC" \in mode THEN 0 ELSE dsize
         h    == [Closed EXCEPT !.size = size, !.flags = mode,
                                !.modified = (size # dsize)]
         r    == seek(h, IF "APPEND" \in mode THEN size ELSE 0)
     IN  /\ r.err = "NONE"
         /\ open' = TRUE
         /\ file' = r.file /\ chain' = r.chain /\ store' = r.store
  /\ last' = NoCall
  /\ UNCHANGED <<dsize, op, todo, out>>

FileSeek(off) ==
  /\ open /\ op = "none"
  /\ LET r == seek(file, off) IN
       file' = r.file /\ chain' = r.chain /\ store' = r.store
  /\ last' = NoCall
  /\ UNCHANGED <<dsize, open, op, todo, out>>

(* fat_file_sync: the buffer is written whether it is dirty or not; the size
   goes to the directory entry if the file was modified. *)
written_back == IF file.sect # NoSect THEN [store EXCEPT ![file.sect] = file.buf] ELSE store

FileSync ==
  /\ open /\ op = "none"
  /\ store' = written_back
  /\ dsize' = IF file.modified THEN file.size ELSE dsize
  /\ file' = [file EXCEPT !.modified = FALSE]
  /\ last' = NoCall
  /\ UNCHANGED <<chain, open, op, todo, out>>

FileClose ==
  /\ open /\ op = "none"
  /\ store' = written_back
  /\ dsize' = IF file.modified THEN file.size ELSE dsize
  /\ open' = FALSE /\ file' = Closed
  /\ last' = NoCall
  /\ UNCHANGED <<chain, op, todo, out>>

-----------------------------------------------------------------------------
(* fat_file_read: the loop delivers what the buffer holds of the request and
   seeks on. *)

Returns(call, err, bytes) ==
  [call |-> call, start |-> todo.start, arg |-> todo.arg, err |-> err, bytes |-> bytes]

BeginRead(len) ==
  /\ open /\ op = "none" /\ "READ" \in file.flags
  /\ op' = "read"
  /\ todo' = [start |-> file.offset, arg |-> len, left |-> len, err |-> "NONE"]
  /\ last' = NoCall
  /\ UNCHANGED <<store, chain, dsize, open, file, out>>

(* Mutant: the size does not limit the chunk. *)
ReadChunkPastSize ==
  /\ op = "read" /\ todo.left > 0 /\ file.offset < file.size
  /\ LET idx == file.offset % S
         cnt == byte_min(todo.left, S - idx)
         r   == seek(file, file.offset + cnt)
     IN  /\ out' = out \o [i \in 1 .. cnt |-> file.buf[idx + i - 1]]
         /\ file' = r.file /\ chain' = r.chain /\ store' = r.store
         /\ todo' = [todo EXCEPT !.left = IF r.err = "NONE" THEN @ - cnt ELSE 0,
                                 !.err = r.err]
  /\ UNCHANGED <<dsize, open, op, last>>

(* One turn of the loop. The code converts size - offset to an int, which is what
   it is here as long as the file is shorter than 2^31 bytes. *)
ReadChunk ==
  /\ op = "read" /\ todo.left > 0 /\ file.offset < file.size
  /\ LET idx == file.offset % S
         cnt == byte_min(todo.left, byte_min(S - idx, file.size - file.offset))
         r   == seek(file, file.offset + cnt)
     IN  /\ out' = out \o [i \in 1 .. cnt |-> file.buf[idx + i - 1]]
         /\ file' = r.file /\ chain' = r.chain /\ store' = r.store
         /\ todo' = [todo EXCEPT !.left = IF r.err = "NONE" THEN @ - cnt ELSE 0,
                                 !.err = r.err]
  /\ UNCHANGED <<dsize, open, op, last>>

EndRead ==
  /\ op = "read" /\ (todo.left = 0 \/ file.offset >= file.size)
  /\ op' = "none"
  /\ last' = Returns("read", todo.err, out)
  /\ todo' = NoCall /\ out' = <<>>
  /\ UNCHANGED <<store, chain, dsize, open, file>>

-----------------------------------------------------------------------------
(* fat_file_write. The error of the seek ends the loop but is assigned to a
   variable of the loop's own, so that the call returns FAT_ERR_NONE. *)

BeginWrite(data) ==
  /\ open /\ op = "none" /\ "WRITE" \in file.flags
  /\ op' = "write" /\ todo' = [start |-> file.offset, arg |-> data, left |-> data]
  /\ file' = [file EXCEPT !.modified = TRUE]
  /\ last' = NoCall
  /\ UNCHANGED <<store, chain, dsize, open, out>>

Overlaid(b, idx, cnt, src) ==
  [i \in 0 .. (S - 1) |-> IF i \in idx .. (idx + cnt - 1) THEN src[i - idx + 1] ELSE b[i]]

(* One iteration. An error drops what is left. *)
WriteChunk ==
  /\ op = "write" /\ todo.left # <<>>
  /\ LET idx == file.offset % S
         cnt == byte_min(Len(todo.left), S - idx)
         h   == [file EXCEPT !.buf = Overlaid(file.buf, idx, cnt, todo.left), !.dirty = TRUE]
         r   == seek(h, file.offset + cnt)
     IN  /\ file' = r.file /\ chain' = r.chain /\ store' = r.store
         /\ todo' = [todo EXCEPT !.left = IF r.err = "NONE"
                                            THEN SubSeq(@, cnt + 1, Len(@)) ELSE <<>>]
  /\ UNCHANGED <<dsize, open, op, out, last>>

(* Mutant: the size grows by what was passed. *)
grown_by_length(h) == [h EXCEPT !.size = h.size + Len(todo.arg)]

(* The size grows to the offset. *)
grown(h) == [h EXCEPT !.size = byte_max(h.size, h.offset)]

EndWrite ==
  /\ op = "write" /\ todo.left = <<>>
  /\ file' = grown(file)
  /\ op' = "none"
  /\ last' = Returns("write", "NONE", <<>>)
  /\ todo' = NoCall
  /\ UNCHANGED <<store, chain, dsize, open, out>>

-----------------------------------------------------------------------------
User ==
  \/ \E mode \in Modes : FileOpen(mode)
  \/ \E off \in Offsets : FileSeek(off)
  \/ FileSync \/ FileClose
  \/ \E len \in Lengths : BeginRead(len)
  \/ \E data \in Data : BeginWrite(data)

Loop == ReadChunk \/ EndRead \/ WriteChunk \/ EndWrite

Next == User \/ Loop

Spec == Init /\ [][Next]_vars

-----------------------------------------------------------------------------
(* Properties. *)

(* The size of the file, the bytes a running write has passed included. *)
CurSize == IF ~open THEN dsize
           ELSE IF op = "write" THEN byte_max(file.size, file.offset) ELSE file.size

(* Byte i of the file as a handle sees it: its buffer hides the disk. *)
ByteAt(i) == LET s == (i - 1) \div S
             IN  IF open /\ file.sect = s THEN file.buf[(i - 1) % S] ELSE store[s][(i - 1) % S]

Content == [i \in 1 .. CurSize |-> ByteAt(i)]

(* The variables stay in their types, and the file in its clusters. *)
TypeOK ==
  /\ store \in [SectorIds -> Sector]
  /\ chain \in 0 .. Room
  /\ dsize \in 0 .. (chain * ClustSize) /\ CurSize \in 0 .. (chain * ClustSize)
  /\ open \in BOOLEAN
  /\ file \in [size : Nat, offset : Nat, sect : SectorIds \cup {NoSect},
               clust : 0 .. (Room - 1), buf : Sector,
               dirty : BOOLEAN, modified : BOOLEAN, flags : SUBSET Flags]
  /\ op \in {"none", "read", "write"}
  /\ out \in Seq(Byte)

(* The handle's cluster, sector and buffer are those of its offset, however
   reads, writes and seeks came to it, and the chain reaches that far; a buffer
   that is not dirty holds what the disk holds. *)
SectorAtOffset ==
  open /\ file.size > 0 =>
    /\ file.clust = file.offset \div ClustSize
    /\ file.sect = file.offset \div S
    /\ file.clust < chain
    /\ ~file.dirty => file.buf = store[file.sect]

(* A read delivers the bytes from its start up to its length or the end of the
   file, whatever error the seek after the last of them meets. *)
ReadDelivers ==
  last.call = "read" =>
    last.bytes = SubSeq(Content, last.start + 1, byte_min(last.start + last.arg, CurSize))

(* Whether a call that found the file with bytes in it, writing data at start,
   had the clusters it needed: the seek that ends it included. *)
Fits(start, data) == start + Len(data) < Room * ClustSize

Stored(start, data) ==
  /\ start + Len(data) <= CurSize
  /\ SubSeq(Content, start + 1, start + Len(data)) = data

(* A write to a file that is not empty puts its bytes at the offset, as long
   as the volume has room. *)
WriteStoresWithRoom ==
  last.call = "write" /\ CurSize > 0 /\ Fits(last.start, last.arg) =>
    Stored(last.start, last.arg)

(* The driver's promise as a sequence of bytes. *)
Bytes == INSTANCE ByteFile WITH content <- Content, opened <- open,
                                pos <- IF open THEN file.offset ELSE 0

IsByteFile == Bytes!Spec

(* "It allocates more clusters if the write exceeds the allocated space. It
   return the error code and the number of bytes written"
   (src/src/fs/fat.c:1339): a write that returns FAT_ERR_NONE has stored what
   it was given. *)
WriteStores ==
  last.call = "write" /\ last.err = "NONE" => Stored(last.start, last.arg)

=============================================================================
