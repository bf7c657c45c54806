------------------------------- MODULE Flash -------------------------------
(***************************************************************************)
(* The flash access layer of carlinkit_otalib (flash.rs, nostd/small_fd.rs *)
(* and the backup/flash/sb commands of main.rs).                           *)
(*                                                                         *)
(* The 16 MB of flash are seen by the program as up to four block devices  *)
(* /dev/mtdblock0..3.  A command walks the partitions, compares the image  *)
(* with the page cache block by block, copies the blocks that differ and   *)
(* waits in msync until the kernel has written them.  The kernel rewrites  *)
(* a dirty sector in two steps, an erase and a program, at any moment from *)
(* the copy on; power may fail between any two steps.                      *)
(*                                                                         *)
(* The unit of address is a sector, the smallest unit the MTD driver       *)
(* erases; FLASH_BLOCK_SIZE and the partition sizes are in sectors.        *)
(***************************************************************************)
EXTENDS Integers

CONSTANTS
  FLASH_SIZE,             \* sectors of the 16 MB flash
  FLASH_BLOCK_SIZE,       \* sectors of one 64 KB compare-and-copy block
  ULTRA_NAND_FLASH_SIZE,  \* sectors of the 128 MB NAND
  BRICK_LEN,              \* sectors of the 128 KB that softbrick wipes
  Cell,                   \* contents of a sector
  ZERO,                   \* a sector of zeros
  ERASED,                 \* an erased, not yet programmed sector
  SIGNED,                 \* a sector patched by sign_wic
  EnvBlock,               \* the sectors sign_wic patches
  Images,                 \* images that may be in flash or be flashed
  Devices,                \* hardware the program may find itself on
  Offsets,                \* offsets and lengths other users of the library
  Lengths,                \*   pass to Flash::write and Flash::read
  MaxCommands             \* bound on the commands of a behaviour

Addr  == 0 .. FLASH_SIZE - 1
Parts == 0 .. 3           \* FLASH_PARTITIONS
OFFLINE == -1             \* stat_partition returned Err

ASSUME SizesAssumption ==
  /\ FLASH_SIZE \in Nat \ {0}
  /\ FLASH_BLOCK_SIZE \in Nat \ {0}
  /\ ULTRA_NAND_FLASH_SIZE \in Nat /\ ULTRA_NAND_FLASH_SIZE > FLASH_SIZE
  /\ BRICK_LEN \in 1 .. FLASH_SIZE
  /\ Offsets \subseteq Nat /\ Lengths \subseteq Addr
  /\ MaxCommands \in Nat

ASSUME ContentsAssumption ==
  /\ ZERO \in Cell /\ ERASED \in Cell /\ SIGNED \in Cell
  /\ EnvBlock \subseteq Addr
  /\ Images \subseteq [Addr -> Cell]

ASSUME DevicesAssumption ==
  \A d \in Devices : /\ d.stat \in [Parts -> Int]
                     /\ \A p \in Parts : d.stat[p] >= OFFLINE
                     /\ d.ultra \in BOOLEAN

VARIABLES
  dev,       \* the device: size of each partition and whether it is an Ultra
  disk,      \* what the flash chip holds, by partition and sector
  cache,     \* what the page cache of each mtdblock holds
  dirty,     \* the cached sectors the kernel still has to write
  file,      \* the backup file, in the device's tmpfs; "complete" is history:
             \*   the backup command that wrote it succeeded
  call,      \* the running command and the arguments of write or read
  pc,        \* where the command is
  i, off, written,  \* the partition loop of Flash::write and Flash::read
  pos,       \* the block loop of write_if_different
  ret,       \* how the last command ended
  orig,      \* history: the flash when the last command started
  ncmds      \* history: commands started, bounded by MaxCommands

storage == <<disk, cache, dirty>>
loop    == <<i, off, written, pos>>
vars    == <<dev, storage, file, call, pc, loop, ret, orig, ncmds>>

MinOf(a, b) == IF a <= b THEN a ELSE b

-----------------------------------------------------------------------------
(* Layout detection *)

\* sizes[i] stays 0 when the partition cannot be statted.
SizeOf(p) == IF dev.stat[p] = OFFLINE THEN 0 ELSE dev.stat[p]
TotalSize == SizeOf(0) + SizeOf(1) + SizeOf(2) + SizeOf(3)

LayoutOf ==
  IF dev.ultra /\ TotalSize = ULTRA_NAND_FLASH_SIZE THEN "LegacyUltraNand"
  ELSE IF SizeOf(0) = FLASH_SIZE THEN "Modern"
  ELSE IF TotalSize = FLASH_SIZE /\ \A p \in 0 .. 2 : SizeOf(p) > 0
       THEN IF SizeOf(3) > 0 /\ dev.ultra THEN "LegacyUltraNor" ELSE "Legacy"
  ELSE "Unknown"

\* Flash::size, the size every image and backup file must have.
SizeOfFlash ==
  IF dev.ultra /\ LayoutOf = "LegacyUltraNand" THEN ULTRA_NAND_FLASH_SIZE
                                               ELSE FLASH_SIZE

\* Linear address of the first sector of partition p.
Base(p) == IF p = 0 THEN 0
           ELSE IF p = 1 THEN SizeOf(0)
           ELSE IF p = 2 THEN SizeOf(0) + SizeOf(1)
           ELSE IF p = 3 THEN SizeOf(0) + SizeOf(1) + SizeOf(2)
           ELSE TotalSize

\* The checks both write and read make before they touch a partition.  The
\* Modern layout maps mtdblock0 only; the others need all four partitions.
AccessError(o, n) ==
  IF o + n > FLASH_SIZE THEN "range"
  ELSE IF LayoutOf = "LegacyUltraNand" THEN "nand"
  ELSE IF LayoutOf = "Unknown" THEN "unknown"
  ELSE IF LayoutOf = "Modern" THEN "none"
  ELSE IF \E p \in Parts : dev.stat[p] = OFFLINE THEN "offline"
  ELSE IF o + n > TotalSize THEN "range" ELSE "none"

-----------------------------------------------------------------------------
(* Starting a command *)

Reject(why) ==
  /\ ret' = why
  /\ pc' = "idle"
  /\ UNCHANGED loop

\* Flash::write(o, d[..n]) or Flash::read(o, n) up to the partition loop.
Access(cmd, o, n, d) ==
  /\ call' = [cmd |-> cmd, offset |-> o, len |-> n, data |-> d]
  /\ orig' = cache
  /\ ncmds' = ncmds + 1
  /\ IF AccessError(o, n) # "none" THEN Reject(AccessError(o, n))
     ELSE /\ ret' = "running"
          /\ pc' = "part"
          /\ i' = 0 /\ off' = o /\ written' = 0 /\ pos' = 0

Refuse(cmd, why) ==
  /\ call' = [call EXCEPT !.cmd = cmd]
  /\ orig' = cache
  /\ ncmds' = ncmds + 1
  /\ Reject(why)

Ready == pc = "idle" /\ ncmds < MaxCommands

Blank == [a \in Addr |-> ZERO]
NoFile == [exists |-> FALSE, complete |-> FALSE, data |-> Blank]

\* sign_wic patches the environment blocks of the image.
sign_wic(img) == [a \in Addr |-> IF a \in EnvBlock THEN SIGNED ELSE img[a]]

\* Mutant: an existing backup is overwritten.
Backup_Overwrite ==
  /\ Ready
  /\ file' = [exists |-> TRUE, complete |-> FALSE, data |-> Blank]
  /\ IF SizeOfFlash # FLASH_SIZE THEN Refuse("backup", "size")
     ELSE Access("backup", 0, FLASH_SIZE, call.data)
  /\ UNCHANGED <<dev, storage>>

\* "backup": an existing file is refused; otherwise the file is created with
\* the size of the flash and filled by Flash::backup, which only knows 16 MB.
Backup ==
  /\ Ready
  /\ \/ /\ file.exists
        /\ Refuse("backup", "exists")
        /\ UNCHANGED file
     \/ /\ ~ file.exists
        /\ file' = [exists |-> TRUE, complete |-> FALSE, data |-> Blank]
        /\ IF SizeOfFlash # FLASH_SIZE THEN Refuse("backup", "size")
           ELSE Access("backup", 0, FLASH_SIZE, call.data)
  /\ UNCHANGED <<dev, storage>>

\* The image file must have the size of the flash; n is the size it has.
FlashNosign(img, n) ==
  /\ Ready
  /\ IF n # SizeOfFlash \/ n # FLASH_SIZE THEN Refuse("write", "size")
     ELSE Access("write", 0, FLASH_SIZE, img)
  /\ UNCHANGED <<dev, storage, file>>

\* "flash": on an Ultra nothing is signed.  Elsewhere reading the HWID or
\* signing may fail, before anything has been written.
FlashAutosign(img, n) ==
  /\ Ready
  /\ IF n # SizeOfFlash \/ n # FLASH_SIZE THEN Refuse("write", "size")
     ELSE \/ dev.ultra   /\ Access("write", 0, FLASH_SIZE, img)
          \/ ~ dev.ultra /\ Access("write", 0, FLASH_SIZE, sign_wic(img))
          \/ ~ dev.ultra /\ Refuse("write", "sign")
  /\ UNCHANGED <<dev, storage, file>>

\* "sb": wipe the first 128 KB, only on an Ultra.
Softbrick ==
  /\ Ready
  /\ IF dev.ultra THEN Access("write", 0, BRICK_LEN, Blank)
                  ELSE Refuse("write", "model")
  /\ UNCHANGED <<dev, storage, file>>

\* Any other user of the library's public Flash::write.
LibWrite(o, n, img) ==
  /\ Ready
  /\ Access("write", o, n, img)
  /\ UNCHANGED <<dev, storage, file>>

-----------------------------------------------------------------------------
(* The partition loop *)

ToDo == MinOf(SizeOf(i) - off, call.len - written)

\* What follows the last partition: sync_flash for a write, Ok for a read.
AfterLoop == IF call.cmd = "write" THEN "sync" ELSE "done"

\* Mutant: the skip does not compare off with the size of the partition.
SkipPartition_NoCompare ==
  /\ pc = "part"
  /\ off > 0
  /\ off' = off - SizeOf(i)
  /\ i' = i + 1
  /\ pc' = IF i = 3 THEN AfterLoop ELSE "part"
  /\ UNCHANGED <<dev, storage, file, call, written, pos, ret, orig, ncmds>>

SkipPartition ==
  /\ pc = "part"
  /\ off >= SizeOf(i)
  /\ off' = off - SizeOf(i)
  /\ i' = i + 1
  /\ pc' = IF i = 3 THEN AfterLoop ELSE "part"
  /\ UNCHANGED <<dev, storage, file, call, written, pos, ret, orig, ncmds>>

\* Open and map the partition; either may fail.
OpenPartition ==
  /\ pc = "part"
  /\ off < SizeOf(i)
  /\ \/ pc' = "block" /\ pos' = 0 /\ UNCHANGED ret
     \/ pc' = "idle" /\ ret' = "open" /\ UNCHANGED pos
  /\ UNCHANGED <<dev, storage, file, call, i, off, written, orig, ncmds>>

\* One round of write_if_different: the block is copied, and all of it
\* becomes dirty, only if some of it differs from the mapped flash.
BlockLen == MinOf(ToDo - pos, FLASH_BLOCK_SIZE)
InBlock(o) == o >= off + pos /\ o < off + pos + BlockLen
NewCell(o) == call.data[written + o - off]
\* Mutant: every block is written.
Differs_Always == TRUE

Differs == \E o \in Addr : InBlock(o) /\ cache[i][o] # NewCell(o)

\* Mutant: the position only moves on past the blocks that were copied.
WriteBlock_StuckOnEqual ==
  /\ pc = "block" /\ call.cmd = "write"
  /\ pos < ToDo
  /\ Differs
  /\ cache' = [cache EXCEPT ![i] =
        [o \in Addr |-> IF InBlock(o) THEN NewCell(o) ELSE cache[i][o]]]
  /\ dirty' = dirty \cup {<<i, o>> : o \in {a \in Addr : InBlock(a)}}
  /\ pos' = pos + BlockLen
  /\ UNCHANGED <<dev, disk, file, call, pc, i, off, written, ret, orig, ncmds>>

WriteBlock ==
  /\ pc = "block" /\ call.cmd = "write"
  /\ pos < ToDo
  /\ IF Differs
     THEN /\ cache' = [cache EXCEPT ![i] =
                [o \in Addr |-> IF InBlock(o) THEN NewCell(o) ELSE cache[i][o]]]
          /\ dirty' = dirty \cup {<<i, o>> : o \in {a \in Addr : InBlock(a)}}
     ELSE UNCHANGED <<cache, dirty>>
  /\ pos' = pos + BlockLen
  /\ UNCHANGED <<dev, disk, file, call, pc, i, off, written, ret, orig, ncmds>>

\* Mutant: off is not reset for the next partition.
NextPartition_KeepOff ==
  /\ written' = written + ToDo
  /\ off' = off
  /\ i' = i + 1
  /\ pc' = IF written + ToDo >= call.len \/ i = 3 THEN AfterLoop ELSE "part"

NextPartition ==
  /\ written' = written + ToDo
  /\ off' = 0
  /\ i' = i + 1
  /\ pc' = IF written + ToDo >= call.len \/ i = 3 THEN AfterLoop ELSE "part"

\* Mutant: the partition is left without msync.
Msync_Missing ==
  /\ pc = "block" /\ call.cmd = "write"
  /\ pos >= ToDo
  /\ NextPartition
  /\ UNCHANGED <<dev, storage, file, call, pos, ret, orig, ncmds>>

\* msync returns when no sector of the partition is dirty any more.
Msync ==
  /\ pc = "block" /\ call.cmd = "write"
  /\ pos >= ToDo
  /\ \A o \in Addr : <<i, o>> \notin dirty
  /\ NextPartition
  /\ UNCHANGED <<dev, storage, file, call, pos, ret, orig, ncmds>>

\* msync reports an I/O error.  The command gives up, and closing the block
\* device drops the cached sectors that could not be written.
MsyncFails ==
  /\ pc = "block" /\ call.cmd = "write"
  /\ pos >= ToDo
  /\ \E o \in Addr : <<i, o>> \in dirty
  /\ cache' = [cache EXCEPT ![i] = disk[i]]
  /\ dirty' = {s \in dirty : s[1] # i}
  /\ ret' = "io"
  /\ pc' = "idle"
  /\ UNCHANGED <<dev, disk, file, call, loop, orig, ncmds>>

\* Mutant: every partition is read to the start of the buffer.
ReadPartition_AtStart ==
  /\ pc = "block" /\ call.cmd = "backup"
  /\ file' = [file EXCEPT !.data = [a \in Addr |->
        IF a < ToDo THEN cache[i][a + off] ELSE file.data[a]]]
  /\ NextPartition
  /\ UNCHANGED <<dev, storage, call, pos, ret, orig, ncmds>>

\* Flash::read copies the mapped partition into the caller's buffer.
ReadPartition ==
  /\ pc = "block" /\ call.cmd = "backup"
  /\ file' = [file EXCEPT !.data = [a \in Addr |->
        IF a >= written /\ a < written + ToDo THEN cache[i][a - written + off]
                                              ELSE file.data[a]]]
  /\ NextPartition
  /\ UNCHANGED <<dev, storage, call, pos, ret, orig, ncmds>>

Finish ==
  /\ \/ pc = "done"
     \/ pc = "sync" /\ dirty = {}
  /\ pc' = "idle"
  /\ ret' = "ok"
  /\ file' = [file EXCEPT !.complete = @ \/ call.cmd = "backup"]
  /\ UNCHANGED <<dev, storage, call, loop, orig, ncmds>>

-----------------------------------------------------------------------------
(* The kernel and the power supply *)

\* Writeback rewrites a dirty sector: erase, then program.
Erase(p, o) ==
  /\ <<p, o>> \in dirty
  /\ disk[p][o] # ERASED
  /\ disk' = [disk EXCEPT ![p][o] = ERASED]
  /\ UNCHANGED <<dev, cache, dirty, file, call, pc, loop, ret, orig, ncmds>>

Program(p, o) ==
  /\ <<p, o>> \in dirty
  /\ disk[p][o] = ERASED
  /\ disk' = [disk EXCEPT ![p][o] = cache[p][o]]
  /\ dirty' = dirty \ {<<p, o>>}
  /\ UNCHANGED <<dev, cache, file, call, pc, loop, ret, orig, ncmds>>

\* Power fails: memory, the command and the tmpfs are gone.
PowerLoss ==
  /\ cache' = disk
  /\ dirty' = {}
  /\ file' = NoFile
  /\ pc' = "idle"
  /\ ret' = IF pc = "idle" THEN ret ELSE "lost"
  /\ UNCHANGED <<dev, disk, call, loop, orig, ncmds>>

-----------------------------------------------------------------------------
\* Flash content of partition p when the chip holds the linear image img.
Spread(img) ==
  [p \in Parts |-> [o \in Addr |->
     IF o < SizeOf(p) /\ Base(p) + o \in Addr THEN img[Base(p) + o] ELSE ZERO]]

Init ==
  /\ dev \in Devices
  /\ \E img \in Images : disk = Spread(img)
  /\ cache = disk
  /\ dirty = {}
  /\ file = NoFile
  /\ call = [cmd |-> "none", offset |-> 0, len |-> 0, data |-> Blank]
  /\ pc = "idle"
  /\ i = 0 /\ off = 0 /\ written = 0 /\ pos = 0
  /\ ret = "none"
  /\ orig = disk
  /\ ncmds = 0

Commands ==
  \/ Backup
  \/ Softbrick
  \/ \E img \in Images, n \in {FLASH_SIZE, ULTRA_NAND_FLASH_SIZE} :
       FlashNosign(img, n) \/ FlashAutosign(img, n)
  \/ \E o \in Offsets, n \in Lengths, img \in Images : LibWrite(o, n, img)

Progress == \/ SkipPartition \/ OpenPartition \/ WriteBlock \/ Msync
            \/ ReadPartition \/ Finish

Writeback == \E p \in Parts, o \in Addr : Erase(p, o) \/ Program(p, o)

Next == Commands \/ Progress \/ MsyncFails \/ Writeback \/ PowerLoss

Spec == Init /\ [][Next]_vars

\* The scheduler runs the command and the kernel eventually writes what is
\* dirty.  Nothing obliges the user to give a command, a write to fail or the
\* power to go.
FairSpec == Spec /\ WF_vars(Progress) /\ WF_vars(Writeback)

-----------------------------------------------------------------------------
(* Properties *)

Results == {"none", "running", "ok", "exists", "size", "sign", "model", "range",
            "nand", "unknown", "offline", "open", "io", "lost"}
Content == [Parts -> [Addr -> Cell]]

\* The partition and block loops keep their indices in range, and a command
\* never asks for more than the flash holds.
TypeOK ==
  /\ dev \in Devices
  /\ disk \in Content /\ cache \in Content /\ orig \in Content
  /\ dirty \subseteq Parts \X Addr
  /\ file \in [exists : BOOLEAN, complete : BOOLEAN, data : [Addr -> Cell]]
  /\ call \in [cmd : {"none", "write", "backup"}, offset : Nat,
               len : 0 .. FLASH_SIZE, data : [Addr -> Cell]]
  /\ pc \in {"idle", "part", "block", "sync", "done"}
  /\ i \in 0 .. 4 /\ off \in Nat /\ written \in Nat /\ pos \in Nat
  /\ ret \in Results
  /\ ncmds \in 0 .. MaxCommands

\* Sector o of partition p is sector Base(p) + o of the 16 MB flash.
Real(p, o)  == o < SizeOf(p) /\ Base(p) + o < FLASH_SIZE
InCall(p, o) == /\ Real(p, o)
                /\ Base(p) + o >= call.offset
                /\ Base(p) + o < call.offset + call.len
Wanted(p, o) == call.data[Base(p) + o - call.offset]

\* When Flash::write returns Ok, every sector of the range is in the flash
\* chip, not just in the page cache, whatever partitions it is spread over,
\* and no sector outside the range has changed.
WriteExact ==
  (pc = "idle" /\ ret = "ok" /\ call.cmd = "write") =>
    \A p \in Parts, o \in Addr : Real(p, o) =>
      disk[p][o] = IF InCall(p, o) THEN Wanted(p, o) ELSE orig[p][o]

\* Blocks are counted from the place where the range enters the partition.
SameBlock(p, o1, o2) ==
  LET start == IF call.offset > Base(p) THEN call.offset - Base(p) ELSE 0
  IN  (o1 - start) \div FLASH_BLOCK_SIZE = (o2 - start) \div FLASH_BLOCK_SIZE

\* A block that the image does not change is never erased: losing power while
\* flashing cannot damage a bootloader that is the same in both images.
UnchangedBlocksSafe ==
  \A p \in Parts, o \in Addr :
    disk[p][o] # orig[p][o] =>
      /\ InCall(p, o)
      /\ \E o2 \in Addr : /\ InCall(p, o2) /\ SameBlock(p, o, o2)
                          /\ Wanted(p, o2) # orig[p][o2]

\* Partitions are written strictly in order: wherever the command is stopped,
\* a partition is only disturbed when all of the range before it is durable.
PartitionsInOrder ==
  \A p, q \in Parts : p < q /\ (\E o \in Addr : disk[q][o] # orig[q][o]) =>
    \A o \in Addr : InCall(p, o) => disk[p][o] = Wanted(p, o)

\* When "backup" returns Ok the file that is there holds the flash, sector by
\* sector, until the power goes or another command is given: a file a failed
\* backup left behind is never passed for a good one.
BackupFaithful ==
  (pc = "idle" /\ ret = "ok" /\ call.cmd = "backup" /\ file.exists) =>
    \A p \in Parts, o \in Addr : Real(p, o) => file.data[Base(p) + o] = disk[p][o]

\* Between commands nothing is left in memory only: the next command compares
\* its image with what the chip really holds.
NothingPending == pc = "idle" => dirty = {} /\ cache = disk

\* Every command ends.
CommandsEnd == pc # "idle" ~> pc = "idle"

\* The documentation of FlashLayout::Legacy: mtdblock0, 1 and 2 make up the
\* flash.  A device that layout() recognises as Legacy can be accessed.
RecognisedLayoutOnline == LayoutOf = "Legacy" => ret # "offline"

-----------------------------------------------------------------------------
(* The linear flash this implements *)

\* The sector at linear address a.
SectorAt(a) ==
  CASE a < Base(1) -> disk[0][a]
    [] a >= Base(1) /\ a < Base(2) -> disk[1][a - Base(1)]
    [] a >= Base(2) /\ a < Base(3) -> disk[2][a - Base(2)]
    [] a >= Base(3) /\ a < Base(4) -> disk[3][a - Base(3)]
    [] a >= Base(4) -> ZERO

MemView == [a \in Addr |-> SectorAt(a)]

Linear == INSTANCE LinearFlash WITH
  mem    <- MemView,
  busy   <- pc # "idle",
  res    <- IF pc # "idle" \/ ret = "none" THEN "none"
            ELSE IF ret = "ok" THEN "ok" ELSE "failed",
  want   <- [a \in {a \in Addr : /\ pc # "idle" /\ call.cmd = "write"
                                 /\ a >= call.offset
                                 /\ a < call.offset + call.len}
               |-> call.data[a - call.offset]],
  saved  <- file.complete,
  backup <- IF file.complete THEN file.data ELSE [a \in Addr |-> ERASED]

\* The partitioned, cached flash behaves as a linear one.
LinearSpec == Linear!LSpec

=============================================================================
