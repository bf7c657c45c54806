---------------------------- MODULE FlashProofs ----------------------------
(***************************************************************************)
(* Proofs about module Flash, for every flash size, block size, partition  *)
(* table, image and number of commands.                                    *)
(***************************************************************************)
EXTENDS Flash, TLAPS

-----------------------------------------------------------------------------
(* The inductive invariant *)

\* The loop has covered [offset, offset + written) and stands at sector off of
\* partition i, the sector with linear address offset + written.
LoopInv ==
  /\ pc \in {"part", "block", "sync", "done"} =>
       /\ AccessError(call.offset, call.len) = "none"
       /\ written <= call.len
  /\ pc \in {"part", "block"} =>
       /\ i \in Parts
       /\ call.offset + written = Base(i) + off
  /\ pc = "block" => off < SizeOf(i) /\ pos <= ToDo
  /\ pc \in {"sync", "done"} => written = call.len
  /\ pc = "sync" => call.cmd = "write"
  /\ pc = "done" => call.cmd = "backup"
  /\ pc # "idle" => call.cmd # "none"

\* Only the mapped partition of a running write can be dirty, and what is not
\* dirty is on the chip.
DirtyInv ==
  /\ \A s \in dirty : s[1] = i
  /\ dirty # {} => pc = "block" /\ call.cmd = "write"
  /\ \A p \in Parts, o \in Addr :
       <<p, o>> \notin dirty => disk[p][o] = cache[p][o]

\* How much of the range the cache already holds.
Copied == IF pc = "block" THEN written + pos ELSE written

CacheInv ==
  pc # "idle" =>
    \A p \in Parts, o \in Addr : Real(p, o) =>
      cache[p][o] =
        IF call.cmd = "write" /\ InCall(p, o)
             /\ Base(p) + o < call.offset + Copied
        THEN Wanted(p, o) ELSE orig[p][o]

IInv == TypeOK /\ LoopInv /\ DirtyInv /\ CacheInv /\ WriteExact

-----------------------------------------------------------------------------
(* Partition arithmetic *)

LEMMA SizeType ==
  ASSUME dev \in Devices
  PROVE  /\ \A p \in Parts : SizeOf(p) \in Nat
         /\ TotalSize \in Nat
  <1>1. \A p \in Parts : dev.stat[p] \in Int /\ dev.stat[p] >= OFFLINE
    BY DevicesAssumption
  <1>2. \A p \in Parts : SizeOf(p) \in Nat
    BY <1>1 DEF SizeOf, OFFLINE
  <1> QED BY <1>2 DEF TotalSize, Parts

LEMMA BaseType ==
  ASSUME dev \in Devices
  PROVE  /\ \A p \in Parts : Base(p) \in Nat
         /\ Base(0) = 0
         /\ \A p \in Parts : Base(p + 1) = Base(p) + SizeOf(p)
         /\ \A p \in Parts : Base(p) + SizeOf(p) <= TotalSize
         /\ Base(3) + SizeOf(3) = TotalSize
  BY SizeType DEF Base, TotalSize, Parts

LEMMA BaseOrder ==
  ASSUME dev \in Devices, NEW p \in Parts, NEW q \in Parts, p < q
  PROVE  Base(p) + SizeOf(p) <= Base(q)
  BY SizeType DEF Base, Parts

\* No linear address lies in two partitions.
LEMMA OneHome ==
  ASSUME dev \in Devices, NEW p \in Parts, NEW q \in Parts,
         NEW o1 \in Addr, NEW o2 \in Addr,
         o1 < SizeOf(p), o2 < SizeOf(q), Base(p) + o1 = Base(q) + o2
  PROVE  p = q /\ o1 = o2
  <1>1. SizeOf(p) \in Nat /\ SizeOf(q) \in Nat /\ Base(p) \in Nat /\ Base(q) \in Nat
    BY SizeType, BaseType
  <1>2. o1 \in Nat /\ o2 \in Nat BY SizesAssumption DEF Addr
  <1>3. ~ (p < q) BY <1>1, <1>2, BaseOrder
  <1>4. ~ (q < p) BY <1>1, <1>2, BaseOrder
  <1>5. p = q BY <1>3, <1>4 DEF Parts
  <1> QED BY <1>1, <1>2, <1>5

\* A range that passed the checks ends inside the partitions.
LEMMA AccessFits ==
  ASSUME dev \in Devices, NEW o \in Nat, NEW n \in Nat,
         AccessError(o, n) = "none"
  PROVE  o + n <= TotalSize /\ o + n <= FLASH_SIZE
  <1>1. SizeOf(0) \in Nat /\ SizeOf(0) <= TotalSize
    BY SizeType, BaseType DEF Parts, Base
  <1>2. LayoutOf = "Modern" => SizeOf(0) = FLASH_SIZE
    BY DEF LayoutOf
  <1> QED BY <1>1, <1>2, SizeType, SizesAssumption DEF AccessError

-----------------------------------------------------------------------------
(* Loop arithmetic *)

LEMMA ToDoType ==
  ASSUME TypeOK, LoopInv, pc = "block"
  PROVE  /\ ToDo \in Nat /\ ToDo <= SizeOf(i) - off /\ ToDo <= call.len - written
         /\ SizeOf(i) \in Nat /\ Base(i) \in Nat /\ i \in Parts
         /\ ToDo = SizeOf(i) - off \/ ToDo = call.len - written
  <1>1. /\ i \in Parts /\ SizeOf(i) \in Nat /\ off \in Nat /\ off < SizeOf(i)
        /\ written \in Nat /\ call.len \in Nat /\ written <= call.len
        /\ Base(i) \in Nat
    BY SizeType, BaseType, SizesAssumption DEF TypeOK, LoopInv
  <1> QED BY <1>1 DEF ToDo, MinOf

\* After the last partition, or when the loop breaks, all is covered.
LEMMA LoopEnd ==
  ASSUME TypeOK, LoopInv, pc = "block"
  PROVE  /\ i = 3 => written + ToDo >= call.len
         /\ written + ToDo >= call.len => written + ToDo = call.len
         /\ written + ToDo < call.len =>
              call.offset + written + ToDo = Base(i + 1)
  <1>1. /\ call.offset \in Nat /\ call.len \in Nat /\ written \in Nat /\ off \in Nat
        /\ call.offset + written = Base(i) + off
        /\ written <= call.len
    BY SizesAssumption DEF TypeOK, LoopInv
  <1>2. call.offset + call.len <= TotalSize
    BY <1>1, AccessFits DEF TypeOK, LoopInv
  <1>3. Base(i + 1) = Base(i) + SizeOf(i) /\ Base(3) + SizeOf(3) = TotalSize
    BY BaseType, ToDoType DEF TypeOK
  <1> QED BY <1>1, <1>2, <1>3, ToDoType, SizeType DEF TypeOK

-----------------------------------------------------------------------------
(* Starting a command *)

FileType == [exists : BOOLEAN, complete : BOOLEAN, data : [Addr -> Cell]]

\* The device does not change, and with it the whole geometry.
LEMMA Geometry ==
  ASSUME dev' = dev
  PROVE  /\ \A p \in 0 .. 4 : SizeOf(p)' = SizeOf(p) /\ Base(p)' = Base(p)
         /\ TotalSize' = TotalSize
         /\ \A o, n \in Nat : AccessError(o, n)' = AccessError(o, n)
         /\ \A p \in Parts, o \in Addr : Real(p, o)' = Real(p, o)
  BY DEF SizeOf, Base, TotalSize, AccessError, LayoutOf, Real

LEMMA AccessStep ==
  ASSUME IInv, Ready, NEW cmd \in {"write", "backup"}, NEW o \in Nat,
         NEW n \in 0 .. FLASH_SIZE, NEW d \in [Addr -> Cell],
         Access(cmd, o, n, d), UNCHANGED <<dev, storage>>, file' \in FileType
  PROVE  IInv'
  <1> USE SizesAssumption
  <1>0. pc = "idle" /\ dirty = {} BY DEF IInv, DirtyInv, Ready
  <1>1. /\ TypeOK /\ dirty = {} /\ pc = "idle" /\ n \in Nat
        /\ \A p \in Parts, a \in Addr : disk[p][a] = cache[p][a]
    BY <1>0 DEF IInv, DirtyInv
  <1>2. dev' = dev /\ disk' = disk /\ cache' = cache /\ dirty' = dirty /\ orig' = cache
    BY DEF Access, storage
  <1>3. /\ call'.cmd = cmd /\ call'.offset = o /\ call'.len = n /\ call'.data = d
        /\ call' \in [cmd : {"none", "write", "backup"}, offset : Nat,
                      len : 0 .. FLASH_SIZE, data : [Addr -> Cell]]
    BY DEF Access
  <1>4. ncmds' \in 0 .. MaxCommands
    BY <1>1 DEF Access, Ready, TypeOK
  <1>5. AccessError(call.offset, call.len)' = AccessError(o, n)
    BY <1>2, <1>3 DEF AccessError, LayoutOf, TotalSize, SizeOf
  <1>6. AccessError(o, n) \in Results
    BY DEF AccessError, Results
  <1>7. CASE AccessError(o, n) # "none"
    <2>1. /\ pc' = "idle" /\ ret' = AccessError(o, n) /\ ret' # "ok"
          /\ i' = i /\ off' = off /\ written' = written /\ pos' = pos
      BY <1>7 DEF Access, Reject, loop, AccessError
    <2>2. TypeOK' BY <1>1, <1>2, <1>3, <1>4, <1>6, <2>1 DEF TypeOK, FileType
    <2>3. LoopInv' BY <2>1 DEF LoopInv
    <2>4. DirtyInv' BY <1>1, <1>2 DEF DirtyInv
    <2>5. CacheInv' /\ WriteExact' BY <2>1 DEF CacheInv, WriteExact
    <2> QED BY <2>2, <2>3, <2>4, <2>5 DEF IInv
  <1>8. CASE AccessError(o, n) = "none"
    <2>1. /\ pc' = "part" /\ ret' = "running"
          /\ i' = 0 /\ off' = o /\ written' = 0 /\ pos' = 0
      BY <1>8 DEF Access
    <2>2. TypeOK' BY <1>1, <1>2, <1>3, <1>4, <2>1 DEF TypeOK, FileType, Results
    <2>3. LoopInv'
      <3>1. Base(i)' = 0 BY <2>1 DEF Base
      <3> QED BY <1>3, <1>5, <1>8, <2>1, <3>1 DEF LoopInv, Parts
    <2>4. DirtyInv' BY <1>1, <1>2 DEF DirtyInv
    <2>5. CacheInv'
      <3>1. Copied' = 0 BY <2>1 DEF Copied
      <3>2. ASSUME NEW p \in Parts, NEW a \in Addr
            PROVE  ~ (InCall(p, a) /\ Base(p) + a < call.offset + Copied)'
        <4>1. Base(p)' \in Nat BY <1>1, <1>2, BaseType, Geometry DEF TypeOK, Parts
        <4> QED BY <1>3, <3>1, <4>1 DEF InCall, Addr
      <3> QED BY <1>2, <3>2 DEF CacheInv
    <2>6. WriteExact' BY <2>1 DEF WriteExact
    <2> QED BY <2>2, <2>3, <2>4, <2>5, <2>6 DEF IInv
  <1> QED BY <1>7, <1>8

LEMMA RefuseStep ==
  ASSUME IInv, Ready, NEW cmd \in {"write", "backup"}, NEW why \in Results \ {"ok"},
         Refuse(cmd, why), UNCHANGED <<dev, storage>>, file' \in FileType
  PROVE  IInv'
  <1>0. pc = "idle" /\ dirty = {} BY DEF IInv, DirtyInv, Ready
  <1>1. /\ TypeOK /\ dirty = {} /\ pc = "idle"
        /\ \A p \in Parts, a \in Addr : disk[p][a] = cache[p][a]
    BY <1>0 DEF IInv, DirtyInv
  <1>2. /\ dev' = dev /\ disk' = disk /\ cache' = cache /\ dirty' = dirty
        /\ orig' = cache /\ call' = [call EXCEPT !.cmd = cmd]
        /\ pc' = "idle" /\ ret' = why /\ ncmds' = ncmds + 1
        /\ i' = i /\ off' = off /\ written' = written /\ pos' = pos
    BY DEF Refuse, Reject, storage, loop
  <1>3. TypeOK'
    BY <1>1, <1>2, SizesAssumption DEF TypeOK, FileType, Ready
  <1>4. LoopInv' BY <1>2 DEF LoopInv
  <1>5. DirtyInv' BY <1>1, <1>2 DEF DirtyInv
  <1>6. CacheInv' /\ WriteExact' BY <1>2 DEF CacheInv, WriteExact
  <1> QED BY <1>3, <1>4, <1>5, <1>6 DEF IInv

LEMMA CommandsStep == IInv /\ Commands => IInv'
  <1> SUFFICES ASSUME IInv, Commands PROVE IInv' OBVIOUS
  <1> USE SizesAssumption, ContentsAssumption
  <1>1. Blank \in [Addr -> Cell] BY DEF Blank
  <1>2. \A img \in Images : img \in [Addr -> Cell] /\ sign_wic(img) \in [Addr -> Cell]
    BY DEF sign_wic
  <1>3. call.data \in [Addr -> Cell] /\ file \in FileType
    BY DEF IInv, TypeOK, FileType
  <1>4. FLASH_SIZE \in 0 .. FLASH_SIZE /\ BRICK_LEN \in 0 .. FLASH_SIZE /\ 0 \in Nat
    OBVIOUS
  <1>5. CASE Backup
    <2>1. Ready /\ UNCHANGED <<dev, storage>> BY <1>5 DEF Backup
    <2>2. CASE file.exists
      <3>1. Refuse("backup", "exists") /\ file' \in FileType
        BY <1>3, <1>5, <2>2 DEF Backup
      <3> QED BY <2>1, <3>1, RefuseStep DEF Results
    <2>3. CASE ~ file.exists
      <3>1. file' = [exists |-> TRUE, complete |-> FALSE, data |-> Blank]
        BY <1>5, <2>3 DEF Backup
      <3>2. file' \in FileType BY <1>1, <3>1 DEF FileType
      <3>3. CASE SizeOfFlash # FLASH_SIZE
        <4>1. Refuse("backup", "size") BY <1>5, <2>3, <3>3 DEF Backup
        <4> QED BY <2>1, <3>2, <4>1, RefuseStep DEF Results
      <3>4. CASE SizeOfFlash = FLASH_SIZE
        <4>1. Access("backup", 0, FLASH_SIZE, call.data)
          BY <1>5, <2>3, <3>4 DEF Backup
        <4> QED BY <1>3, <1>4, <2>1, <3>2, <4>1, AccessStep
      <3> QED BY <3>3, <3>4
    <2> QED BY <2>2, <2>3
  <1>6. CASE Softbrick
    <2>1. /\ Ready /\ UNCHANGED <<dev, storage>> /\ file' \in FileType
          /\ \/ Refuse("write", "model") \/ Access("write", 0, BRICK_LEN, Blank)
      BY <1>3, <1>6 DEF Softbrick
    <2> QED BY <1>1, <1>4, <2>1, AccessStep, RefuseStep DEF Results
  <1>7. ASSUME NEW img \in Images, NEW n \in {FLASH_SIZE, ULTRA_NAND_FLASH_SIZE},
               FlashNosign(img, n) \/ FlashAutosign(img, n)
        PROVE  IInv'
    <2>1. /\ Ready /\ UNCHANGED <<dev, storage>> /\ file' \in FileType
          /\ \/ Refuse("write", "size") \/ Refuse("write", "sign")
             \/ Access("write", 0, FLASH_SIZE, img)
             \/ Access("write", 0, FLASH_SIZE, sign_wic(img))
      BY <1>3, <1>7 DEF FlashNosign, FlashAutosign
    <2> QED BY <1>2, <1>4, <2>1, AccessStep, RefuseStep DEF Results
  <1>8. ASSUME NEW o \in Offsets, NEW n \in Lengths, NEW img \in Images,
               LibWrite(o, n, img)
        PROVE  IInv'
    <2>1. o \in Nat /\ n \in 0 .. FLASH_SIZE BY DEF Addr
    <2>2. /\ Ready /\ UNCHANGED <<dev, storage>> /\ file' \in FileType
          /\ Access("write", o, n, img)
      BY <1>3, <1>8 DEF LibWrite
    <2> QED BY <1>2, <2>1, <2>2, AccessStep
  <1> QED BY <1>5, <1>6, <1>7, <1>8 DEF Commands

-----------------------------------------------------------------------------
(* The steps of a running command *)

LEMMA SkipStep == IInv /\ SkipPartition => IInv'
  <1> SUFFICES ASSUME IInv, SkipPartition PROVE IInv' OBVIOUS
  <1> USE SizesAssumption
  <1>1. /\ dev' = dev /\ disk' = disk /\ cache' = cache /\ dirty' = dirty
        /\ file' = file /\ call' = call /\ written' = written /\ pos' = pos
        /\ ret' = ret /\ orig' = orig /\ ncmds' = ncmds
        /\ pc = "part" /\ off >= SizeOf(i) /\ off' = off - SizeOf(i) /\ i' = i + 1
        /\ pc' = IF i = 3 THEN AfterLoop ELSE "part"
    BY DEF SkipPartition, storage
  <1>2. /\ i \in Parts /\ off \in Nat /\ SizeOf(i) \in Nat /\ Base(i) \in Nat
        /\ written \in Nat /\ written <= call.len
        /\ call.len \in Nat /\ call.offset \in Nat
        /\ call.offset + written = Base(i) + off
        /\ Base(i + 1) = Base(i) + SizeOf(i)
        /\ Base(3) + SizeOf(3) = TotalSize /\ TotalSize \in Nat
    BY <1>1, SizeType, BaseType DEF IInv, TypeOK, LoopInv
  <1>3. call.offset + call.len <= TotalSize
    BY <1>1, <1>2, AccessFits DEF IInv, LoopInv, TypeOK
  <1>4. i = 3 => written = call.len
    BY <1>1, <1>2, <1>3
  <1>5. TypeOK'
    BY <1>1, <1>2 DEF IInv, TypeOK, AfterLoop, Parts
  <1>6. LoopInv'
    <2>1. AccessError(call.offset, call.len)' = AccessError(call.offset, call.len)
      BY <1>1 DEF AccessError, LayoutOf, TotalSize, SizeOf
    <2>2. Base(i)' = Base(i + 1)
      BY <1>1 DEF Base, SizeOf, TotalSize
    <2>3. i # 3 => i + 1 \in Parts BY <1>2 DEF Parts
    <2> QED BY <1>1, <1>2, <1>4, <2>1, <2>2, <2>3 DEF IInv, LoopInv, AfterLoop, TypeOK
  <1>7. DirtyInv'
    <2>1. dirty = {} BY <1>1 DEF IInv, DirtyInv
    <2> QED BY <1>1, <2>1 DEF IInv, DirtyInv
  <1>8. CacheInv'
    <2>1. Copied' = Copied BY <1>1 DEF Copied, AfterLoop
    <2>2. \A p \in Parts, o \in Addr :
            /\ Real(p, o)' = Real(p, o) /\ InCall(p, o)' = InCall(p, o)
            /\ Wanted(p, o)' = Wanted(p, o) /\ Base(p)' = Base(p)
      BY <1>1 DEF Real, InCall, Wanted, Base, SizeOf, TotalSize
    <2> QED BY <1>1, <2>1, <2>2 DEF IInv, CacheInv
  <1>9. WriteExact' BY <1>1 DEF WriteExact, AfterLoop
  <1> QED BY <1>5, <1>6, <1>7, <1>8, <1>9 DEF IInv

LEMMA OpenStep == IInv /\ OpenPartition => IInv'
  <1> SUFFICES ASSUME IInv, OpenPartition PROVE IInv' OBVIOUS
  <1> USE SizesAssumption
  <1>1. /\ dev' = dev /\ disk' = disk /\ cache' = cache /\ dirty' = dirty
        /\ file' = file /\ call' = call /\ written' = written
        /\ orig' = orig /\ ncmds' = ncmds /\ i' = i /\ off' = off
        /\ pc = "part" /\ off < SizeOf(i)
        /\ \/ pc' = "block" /\ pos' = 0 /\ ret' = ret
           \/ pc' = "idle" /\ pos' = pos /\ ret' = "open"
    BY DEF OpenPartition, storage
  <1>2. TypeOK' BY <1>1 DEF IInv, TypeOK, Results
  <1>3. /\ i \in Parts /\ off \in Nat /\ SizeOf(i) \in Nat
        /\ written \in Nat /\ call.len \in Nat /\ written <= call.len
    BY <1>1, SizeType DEF IInv, TypeOK, LoopInv
  <1>4. LoopInv'
    <2>1. AccessError(call.offset, call.len)' = AccessError(call.offset, call.len)
      BY <1>1 DEF AccessError, LayoutOf, TotalSize, SizeOf
    <2>2. Base(i)' = Base(i) /\ SizeOf(i)' = SizeOf(i) /\ ToDo' = ToDo
      BY <1>1 DEF Base, SizeOf, TotalSize, ToDo, MinOf
    <2>3. ToDo >= 0 BY <1>1, <1>3 DEF ToDo, MinOf
    <2> QED BY <1>1, <2>1, <2>2, <2>3 DEF IInv, LoopInv
  <1>5. DirtyInv'
    <2>1. dirty = {} BY <1>1 DEF IInv, DirtyInv
    <2> QED BY <1>1, <2>1 DEF IInv, DirtyInv
  <1>6. CacheInv'
    <2>1. pc' # "idle" => Copied' = Copied BY <1>1, <1>3 DEF Copied
    <2>2. \A p \in Parts, o \in Addr :
            /\ Real(p, o)' = Real(p, o) /\ InCall(p, o)' = InCall(p, o)
            /\ Wanted(p, o)' = Wanted(p, o) /\ Base(p)' = Base(p)
      BY <1>1 DEF Real, InCall, Wanted, Base, SizeOf, TotalSize
    <2> QED BY <1>1, <2>1, <2>2 DEF IInv, CacheInv
  <1>7. WriteExact' BY <1>1 DEF WriteExact
  <1> QED BY <1>2, <1>4, <1>5, <1>6, <1>7 DEF IInv

\* The sectors of the block, and no others, get what the call wants there.
LEMMA BlockStep == IInv /\ WriteBlock => IInv'
  <1> SUFFICES ASSUME IInv, WriteBlock PROVE IInv' OBVIOUS
  <1> USE SizesAssumption
  <1>1. /\ dev' = dev /\ disk' = disk /\ file' = file /\ call' = call /\ pc' = pc
        /\ i' = i /\ off' = off /\ written' = written /\ ret' = ret
        /\ orig' = orig /\ ncmds' = ncmds
        /\ pc = "block" /\ call.cmd = "write" /\ pos < ToDo /\ pos' = pos + BlockLen
    BY DEF WriteBlock
  <1>2. /\ ToDo \in Nat /\ ToDo <= SizeOf(i) - off /\ ToDo <= call.len - written
        /\ SizeOf(i) \in Nat /\ Base(i) \in Nat /\ i \in Parts
        /\ off \in Nat /\ written \in Nat /\ pos \in Nat
        /\ call.len \in Nat /\ call.offset \in Nat
        /\ call.offset + written = Base(i) + off
    BY <1>1, ToDoType DEF IInv, TypeOK, LoopInv
  <1>3. BlockLen \in Nat /\ pos + BlockLen <= ToDo
    BY <1>1, <1>2 DEF BlockLen, MinOf
  <1>4. call.offset + call.len <= FLASH_SIZE
    BY <1>1, <1>2, AccessFits DEF IInv, LoopInv, TypeOK
  <1>5. \A p \in Parts, o \in Addr :
          /\ Real(p, o)' = Real(p, o) /\ InCall(p, o)' = InCall(p, o)
          /\ Wanted(p, o)' = Wanted(p, o) /\ Base(p)' = Base(p)
    BY <1>1 DEF Real, InCall, Wanted, Base, SizeOf, TotalSize
  <1>6. ASSUME NEW o \in Addr, InBlock(o)
        PROVE  /\ InCall(i, o) /\ Wanted(i, o) = NewCell(o)
               /\ written + o - off \in Addr
               /\ Base(i) + o < call.offset + written + pos + BlockLen
               /\ Base(i) + o >= call.offset + written + pos
    BY <1>2, <1>3, <1>4, <1>6 DEF InBlock, InCall, Real, Wanted, NewCell, Addr
  <1>7. \A o \in Addr : InBlock(o) => NewCell(o) \in Cell
    BY <1>6 DEF NewCell, IInv, TypeOK
  <1>8. /\ cache' \in Content
        /\ \A p \in Parts, o \in Addr :
             cache'[p][o] = IF p = i /\ InBlock(o) THEN NewCell(o) ELSE cache[p][o]
    <2>1. CASE Differs
      <3>1. cache' = [cache EXCEPT ![i] =
               [o \in Addr |-> IF InBlock(o) THEN NewCell(o) ELSE cache[i][o]]]
        BY <2>1 DEF WriteBlock
      <3> QED BY <1>2, <1>7, <3>1 DEF IInv, TypeOK, Content
    <2>2. CASE ~ Differs
      <3>1. cache' = cache BY <2>2 DEF WriteBlock
      <3>2. \A o \in Addr : InBlock(o) => cache[i][o] = NewCell(o)
        BY <2>2 DEF Differs
      <3> QED BY <3>1, <3>2 DEF IInv, TypeOK
    <2> QED BY <2>1, <2>2
  <1>9. /\ dirty' \subseteq Parts \X Addr /\ dirty \subseteq dirty'
        /\ \A s \in dirty' : s[1] = i
        /\ \A o \in Addr : InBlock(o) /\ cache[i][o] # NewCell(o) => <<i, o>> \in dirty'
    <2>1. \A s \in dirty : s[1] = i BY DEF IInv, DirtyInv
    <2>2. CASE Differs
      <3>1. dirty' = dirty \cup {<<i, o>> : o \in {a \in Addr : InBlock(a)}}
        BY <2>2 DEF WriteBlock
      <3> QED BY <1>2, <2>1, <3>1 DEF IInv, TypeOK
    <2>3. CASE ~ Differs
      BY <2>1, <2>3 DEF WriteBlock, Differs, IInv, TypeOK
    <2> QED BY <2>2, <2>3
  <1>10. TypeOK' BY <1>1, <1>2, <1>3, <1>8, <1>9 DEF IInv, TypeOK
  <1>11. LoopInv'
    <2>1. AccessError(call.offset, call.len)' = AccessError(call.offset, call.len)
      BY <1>1 DEF AccessError, LayoutOf, TotalSize, SizeOf
    <2>2. Base(i)' = Base(i) /\ SizeOf(i)' = SizeOf(i) /\ ToDo' = ToDo
      BY <1>1 DEF Base, SizeOf, TotalSize, ToDo, MinOf
    <2> QED BY <1>1, <1>3, <2>1, <2>2 DEF IInv, LoopInv
  <1>12. DirtyInv'
    <2>1. ASSUME NEW p \in Parts, NEW o \in Addr, <<p, o>> \notin dirty'
          PROVE  disk'[p][o] = cache'[p][o]
      <3>1. disk[p][o] = cache[p][o]
        BY <1>9, <2>1 DEF IInv, DirtyInv
      <3>2. p = i /\ InBlock(o) => cache[p][o] = NewCell(o)
        BY <1>9, <2>1
      <3> QED BY <1>1, <1>8, <3>1, <3>2
    <2> QED BY <1>1, <1>9, <2>1 DEF DirtyInv
  <1>13. CacheInv'
    <2>1. Copied = written + pos /\ Copied' = written + pos + BlockLen
      BY <1>1, <1>2, <1>3 DEF Copied
    <2>2. ASSUME NEW p \in Parts, NEW o \in Addr, Real(p, o)
          PROVE  cache'[p][o] = IF InCall(p, o)
                                     /\ Base(p) + o < call.offset + Copied'
                                THEN Wanted(p, o) ELSE orig[p][o]
      <3>1. Base(p) \in Nat /\ o \in Nat /\ o < SizeOf(p) /\ SizeOf(p) \in Nat
        BY <2>2, SizeType, BaseType DEF IInv, TypeOK, Real, Addr
      <3>2. cache[p][o] = IF InCall(p, o) /\ Base(p) + o < call.offset + Copied
                          THEN Wanted(p, o) ELSE orig[p][o]
        BY <1>1, <2>2 DEF IInv, CacheInv
      <3>3. CASE p = i /\ InBlock(o)
        BY <1>2, <1>3, <1>6, <1>8, <2>1, <3>3
      <3>4. CASE ~ (p = i /\ InBlock(o))
        <4>1. cache'[p][o] = cache[p][o] BY <1>8, <3>4
        <4>2. ~ (/\ Base(p) + o >= call.offset + written + pos
                 /\ Base(p) + o < call.offset + written + pos + BlockLen)
          <5> SUFFICES ASSUME Base(p) + o >= call.offset + written + pos,
                              Base(p) + o < call.offset + written + pos + BlockLen
                       PROVE  FALSE
            OBVIOUS
          <5> DEFINE o2 == Base(p) + o - Base(i)
          <5>1. /\ o2 \in Nat /\ o2 < SizeOf(i)
                /\ o2 >= off + pos /\ o2 < off + pos + BlockLen
                /\ o2 < FLASH_SIZE /\ Base(p) + o = Base(i) + o2
            BY <1>2, <1>3, <1>4, <3>1
          <5>2. o2 \in Addr BY <5>1 DEF Addr
          <5>3. p = i /\ o = o2
            <6> HIDE DEF o2
            <6> QED BY <1>2, <3>1, <5>1, <5>2, OneHome DEF IInv, TypeOK
          <5>4. InBlock(o) BY <5>1, <5>3 DEF InBlock
          <5> QED BY <3>4, <5>3, <5>4
        <4> QED BY <1>2, <1>3, <2>1, <3>1, <3>2, <4>1, <4>2
      <3> QED BY <3>3, <3>4
    <2> QED BY <1>1, <1>5, <2>2 DEF CacheInv
  <1>14. WriteExact' BY <1>1 DEF WriteExact
  <1> QED BY <1>10, <1>11, <1>12, <1>13, <1>14 DEF IInv

\* Leaving partition i, for a write and for a read.
LEMMA AdvanceStep ==
  ASSUME IInv, pc = "block", NextPartition, call.cmd = "write" => pos >= ToDo,
         dirty = {}, file' \in FileType,
         UNCHANGED <<dev, storage, call, pos, ret, orig, ncmds>>
  PROVE  IInv'
  <1> USE SizesAssumption
  <1>1. /\ dev' = dev /\ disk' = disk /\ cache' = cache /\ dirty' = dirty
        /\ call' = call /\ pos' = pos /\ ret' = ret
        /\ orig' = orig /\ ncmds' = ncmds
        /\ written' = written + ToDo /\ off' = 0 /\ i' = i + 1
        /\ pc' = IF written + ToDo >= call.len \/ i = 3 THEN AfterLoop ELSE "part"
    BY DEF NextPartition, storage
  <1>2. /\ ToDo \in Nat /\ ToDo <= call.len - written
        /\ SizeOf(i) \in Nat /\ Base(i) \in Nat /\ i \in Parts
        /\ written \in Nat /\ pos \in Nat /\ call.len \in Nat /\ call.offset \in Nat
        /\ call.cmd \in {"write", "backup"}
    BY ToDoType DEF IInv, TypeOK, LoopInv
  <1>3. /\ i = 3 => written + ToDo >= call.len
        /\ written + ToDo >= call.len => written + ToDo = call.len
        /\ written + ToDo < call.len => call.offset + written + ToDo = Base(i + 1)
    BY LoopEnd DEF IInv
  <1>4. TypeOK'
    BY <1>1, <1>2 DEF IInv, TypeOK, FileType, AfterLoop, Parts
  <1>5. LoopInv'
    <2>1. AccessError(call.offset, call.len)' = AccessError(call.offset, call.len)
      BY <1>1 DEF AccessError, LayoutOf, TotalSize, SizeOf
    <2>2. Base(i)' = Base(i + 1)
      BY <1>1 DEF Base, SizeOf, TotalSize
    <2>3. i # 3 => i + 1 \in Parts BY <1>2 DEF Parts
    <2>4. Base(i + 1) \in Nat BY <1>2, BaseType DEF IInv, TypeOK
    <2>5. CASE pc' = "part"
      <3>1. i # 3 /\ written + ToDo < call.len
        BY <1>1, <1>2, <1>3, <2>5 DEF AfterLoop
      <3> QED BY <1>1, <1>2, <1>3, <2>1, <2>2, <2>3, <2>4, <2>5, <3>1 DEF IInv, LoopInv
    <2>6. CASE pc' = AfterLoop
      <3>1. written' = call.len BY <1>1, <1>2, <1>3, <2>6 DEF AfterLoop
      <3> QED BY <1>1, <1>2, <2>1, <2>6, <3>1 DEF IInv, LoopInv, AfterLoop
    <2> QED BY <1>1, <2>5, <2>6
  <1>6. DirtyInv' BY <1>1 DEF IInv, DirtyInv
  <1>7. CacheInv'
    <2>1. call.cmd = "write" => Copied' = Copied
      <3>1. call.cmd = "write" => pos = ToDo
        BY <1>2 DEF IInv, LoopInv
      <3> QED BY <1>1, <3>1 DEF Copied, AfterLoop
    <2>2. \A p \in Parts, o \in Addr :
            /\ Real(p, o)' = Real(p, o) /\ InCall(p, o)' = InCall(p, o)
            /\ Wanted(p, o)' = Wanted(p, o) /\ Base(p)' = Base(p)
      BY <1>1 DEF Real, InCall, Wanted, Base, SizeOf, TotalSize
    <2> QED BY <1>1, <2>1, <2>2 DEF IInv, CacheInv
  <1>8. WriteExact' BY <1>1 DEF WriteExact, AfterLoop
  <1> QED BY <1>4, <1>5, <1>6, <1>7, <1>8 DEF IInv

LEMMA MsyncStep == IInv /\ Msync => IInv'
  <1> SUFFICES ASSUME IInv, Msync PROVE IInv' OBVIOUS
  <1>1. dirty = {}
    <2>1. \A s \in dirty : s[1] = i /\ s[2] \in Addr /\ s = <<s[1], s[2]>>
      BY DEF IInv, TypeOK, DirtyInv
    <2> QED BY <2>1 DEF Msync
  <1>2. file' \in FileType BY DEF Msync, IInv, TypeOK, FileType
  <1> QED BY <1>1, <1>2, AdvanceStep DEF Msync

LEMMA ReadStep == IInv /\ ReadPartition => IInv'
  <1> SUFFICES ASSUME IInv, ReadPartition PROVE IInv' OBVIOUS
  <1>1. pc = "block" /\ call.cmd = "backup" BY DEF ReadPartition
  <1>2. dirty = {} BY <1>1 DEF IInv, DirtyInv
  <1>3. /\ ToDo \in Nat /\ ToDo <= SizeOf(i) - off /\ ToDo <= call.len - written
        /\ SizeOf(i) \in Nat /\ Base(i) \in Nat /\ i \in Parts
        /\ call.len \in Nat /\ call.offset \in Nat /\ off \in Nat /\ written \in Nat
        /\ call.offset + written = Base(i) + off
        /\ call.offset + call.len <= FLASH_SIZE
    BY <1>1, ToDoType, AccessFits, SizesAssumption DEF IInv, TypeOK, LoopInv
  <1>4. file' \in FileType
    <2>1. \A a \in Addr : a >= written /\ a < written + ToDo => a - written + off \in Addr
      BY <1>3, SizesAssumption DEF Addr
    <2>2. cache[i] \in [Addr -> Cell] /\ file \in FileType
      BY <1>3 DEF IInv, TypeOK, Content, FileType
    <2>3. [a \in Addr |-> IF a >= written /\ a < written + ToDo
                          THEN cache[i][a - written + off] ELSE file.data[a]]
            \in [Addr -> Cell]
      BY <2>1, <2>2 DEF FileType
    <2> QED BY <2>2, <2>3 DEF ReadPartition, FileType
  <1> QED BY <1>1, <1>2, <1>4, AdvanceStep DEF ReadPartition

LEMMA FailStep == IInv /\ MsyncFails => IInv'
  <1> SUFFICES ASSUME IInv, MsyncFails PROVE IInv' OBVIOUS
  <1>1. /\ dev' = dev /\ disk' = disk /\ file' = file /\ call' = call
        /\ i' = i /\ off' = off /\ written' = written /\ pos' = pos
        /\ orig' = orig /\ ncmds' = ncmds /\ pc = "block"
        /\ pc' = "idle" /\ ret' = "io"
        /\ cache' = [cache EXCEPT ![i] = disk[i]]
        /\ dirty' = {s \in dirty : s[1] # i}
    BY DEF MsyncFails, loop
  <1>2. i \in Parts BY <1>1 DEF IInv, LoopInv
  <1>3. dirty' = {} BY <1>1 DEF IInv, DirtyInv
  <1>4. TypeOK' BY <1>1, <1>2, <1>3 DEF IInv, TypeOK, Content, Results
  <1>5. LoopInv' BY <1>1 DEF LoopInv
  <1>6. DirtyInv'
    <2>1. ASSUME NEW p \in Parts, NEW o \in Addr
          PROVE  disk'[p][o] = cache'[p][o]
      <3>1. CASE p = i BY <1>1, <1>2, <3>1 DEF IInv, TypeOK, Content
      <3>2. CASE p # i
        <4>1. <<p, o>> \notin dirty BY <3>2 DEF IInv, DirtyInv
        <4> QED BY <1>1, <1>2, <3>2, <4>1 DEF IInv, DirtyInv, TypeOK, Content
      <3> QED BY <3>1, <3>2
    <2> QED BY <1>3, <2>1 DEF DirtyInv
  <1>7. CacheInv' /\ WriteExact' BY <1>1 DEF CacheInv, WriteExact
  <1> QED BY <1>4, <1>5, <1>6, <1>7 DEF IInv

LEMMA FinishStep == IInv /\ Finish => IInv'
  <1> SUFFICES ASSUME IInv, Finish PROVE IInv' OBVIOUS
  <1>1. /\ dev' = dev /\ disk' = disk /\ cache' = cache /\ dirty' = dirty
        /\ call' = call /\ i' = i /\ off' = off /\ written' = written /\ pos' = pos
        /\ orig' = orig /\ ncmds' = ncmds /\ pc \in {"done", "sync"}
        /\ pc' = "idle" /\ ret' = "ok"
        /\ file' = [file EXCEPT !.complete = @ \/ call.cmd = "backup"]
    BY DEF Finish, storage, loop
  <1>2. dirty = {} BY <1>1 DEF IInv, DirtyInv
  <1>3. file' \in FileType BY <1>1 DEF IInv, TypeOK, FileType
  <1>4. TypeOK' BY <1>1, <1>3 DEF IInv, TypeOK, FileType, Results
  <1>5. LoopInv' /\ CacheInv' BY <1>1 DEF LoopInv, CacheInv
  <1>6. DirtyInv' BY <1>1, <1>2 DEF IInv, DirtyInv
  <1>7. WriteExact'
    <2>1. SUFFICES ASSUME call.cmd = "write", NEW p \in Parts, NEW o \in Addr, Real(p, o)
                   PROVE  disk[p][o] = IF InCall(p, o) THEN Wanted(p, o) ELSE orig[p][o]
      <3>1. \A p \in Parts, o \in Addr :
              /\ Real(p, o)' = Real(p, o) /\ InCall(p, o)' = InCall(p, o)
              /\ Wanted(p, o)' = Wanted(p, o)
        BY <1>1 DEF Real, InCall, Wanted, Base, SizeOf, TotalSize
      <3> QED BY <1>1, <3>1 DEF WriteExact
    <2>2. Copied = call.len BY <1>1 DEF IInv, LoopInv, Copied
    <2>3. disk[p][o] = cache[p][o] BY <1>2, <2>1 DEF IInv, DirtyInv
    <2>4. cache[p][o] = IF InCall(p, o) /\ Base(p) + o < call.offset + Copied
                        THEN Wanted(p, o) ELSE orig[p][o]
      BY <1>1, <2>1 DEF IInv, CacheInv
    <2> QED BY <2>2, <2>3, <2>4 DEF InCall
  <1> QED BY <1>4, <1>5, <1>6, <1>7 DEF IInv

LEMMA ProgressStep == IInv /\ Progress => IInv'
  BY SkipStep, OpenStep, BlockStep, MsyncStep, ReadStep, FinishStep DEF Progress

-----------------------------------------------------------------------------
(* The kernel and the power supply *)

LEMMA WritebackStep == IInv /\ Writeback => IInv'
  <1> SUFFICES ASSUME IInv, NEW p \in Parts, NEW o \in Addr, Erase(p, o) \/ Program(p, o)
               PROVE  IInv'
    BY DEF Writeback
  <1>1. /\ dev' = dev /\ cache' = cache /\ file' = file /\ call' = call /\ pc' = pc
        /\ i' = i /\ off' = off /\ written' = written /\ pos' = pos /\ ret' = ret
        /\ orig' = orig /\ ncmds' = ncmds /\ <<p, o>> \in dirty
    BY DEF Erase, Program, loop
  <1>2. /\ dirty' \subseteq dirty
        /\ dirty' = dirty \/ (dirty' = dirty \ {<<p, o>>} /\ disk'[p][o] = cache[p][o])
        /\ disk' \in Content
        /\ \A q \in Parts, a \in Addr : <<q, a>> # <<p, o>> => disk'[q][a] = disk[q][a]
    <2>1. CASE Erase(p, o)
      BY <2>1, ContentsAssumption DEF Erase, IInv, TypeOK, Content
    <2>2. CASE Program(p, o)
      BY <2>2 DEF Program, IInv, TypeOK, Content
    <2> QED BY <2>1, <2>2
  <1>3. pc = "block" BY <1>1 DEF IInv, DirtyInv
  <1>4. TypeOK' BY <1>1, <1>2 DEF IInv, TypeOK
  <1>5. LoopInv'
    <2>1. AccessError(call.offset, call.len)' = AccessError(call.offset, call.len)
      BY <1>1 DEF AccessError, LayoutOf, TotalSize, SizeOf
    <2>2. Base(i)' = Base(i) /\ SizeOf(i)' = SizeOf(i) /\ ToDo' = ToDo
      BY <1>1 DEF Base, SizeOf, TotalSize, ToDo, MinOf
    <2> QED BY <1>1, <2>1, <2>2 DEF IInv, LoopInv
  <1>6. DirtyInv'
    <2>1. ASSUME NEW q \in Parts, NEW a \in Addr, <<q, a>> \notin dirty'
          PROVE  disk'[q][a] = cache'[q][a]
      <3>1. CASE <<q, a>> = <<p, o>> BY <1>1, <1>2, <2>1, <3>1
      <3>2. CASE <<q, a>> # <<p, o>>
        <4>1. <<q, a>> \notin dirty BY <1>2, <2>1, <3>2
        <4> QED BY <1>1, <1>2, <3>2, <4>1 DEF IInv, DirtyInv
      <3> QED BY <3>1, <3>2
    <2> QED BY <1>1, <1>2, <2>1 DEF IInv, DirtyInv
  <1>7. CacheInv'
    <2>1. Copied' = Copied BY <1>1 DEF Copied
    <2>2. \A q \in Parts, a \in Addr :
            /\ Real(q, a)' = Real(q, a) /\ InCall(q, a)' = InCall(q, a)
            /\ Wanted(q, a)' = Wanted(q, a) /\ Base(q)' = Base(q)
      BY <1>1 DEF Real, InCall, Wanted, Base, SizeOf, TotalSize
    <2> QED BY <1>1, <2>1, <2>2 DEF IInv, CacheInv
  <1>8. WriteExact' BY <1>1, <1>3 DEF WriteExact
  <1> QED BY <1>4, <1>5, <1>6, <1>7, <1>8 DEF IInv

LEMMA PowerLossStep == IInv /\ PowerLoss => IInv'
  <1> SUFFICES ASSUME IInv, PowerLoss PROVE IInv' OBVIOUS
  <1>1. /\ dev' = dev /\ disk' = disk /\ cache' = disk /\ dirty' = {} /\ call' = call
        /\ i' = i /\ off' = off /\ written' = written /\ pos' = pos
        /\ orig' = orig /\ ncmds' = ncmds /\ pc' = "idle" /\ file' = NoFile
        /\ ret' = IF pc = "idle" THEN ret ELSE "lost"
    BY DEF PowerLoss, loop
  <1>2. NoFile \in FileType BY ContentsAssumption DEF NoFile, FileType, Blank
  <1>3. TypeOK' BY <1>1, <1>2 DEF IInv, TypeOK, FileType, Results
  <1>4. LoopInv' /\ CacheInv' BY <1>1 DEF LoopInv, CacheInv
  <1>5. DirtyInv' BY <1>1 DEF DirtyInv
  <1>6. WriteExact'
    <2>1. \A p \in Parts, o \in Addr :
            /\ Real(p, o)' = Real(p, o) /\ InCall(p, o)' = InCall(p, o)
            /\ Wanted(p, o)' = Wanted(p, o)
      BY <1>1 DEF Real, InCall, Wanted, Base, SizeOf, TotalSize
    <2> QED BY <1>1, <2>1 DEF IInv, WriteExact
  <1> QED BY <1>3, <1>4, <1>5, <1>6 DEF IInv

-----------------------------------------------------------------------------
(* The theorems *)

LEMMA InitInv == Init => IInv
  <1> SUFFICES ASSUME Init PROVE IInv OBVIOUS
  <1>1. PICK img \in Images : disk = Spread(img) BY DEF Init
  <1>2. disk \in Content
    BY <1>1, ContentsAssumption DEF Spread, Content
  <1>3. TypeOK
    BY <1>2, SizesAssumption, ContentsAssumption
    DEF Init, TypeOK, NoFile, Blank, Results, Content
  <1>4. LoopInv /\ CacheInv /\ WriteExact
    BY DEF Init, LoopInv, CacheInv, WriteExact
  <1>5. DirtyInv BY DEF Init, DirtyInv
  <1> QED BY <1>3, <1>4, <1>5 DEF IInv

LEMMA StutterInv == IInv /\ UNCHANGED vars => IInv'
  <1> SUFFICES ASSUME IInv, UNCHANGED vars PROVE IInv' OBVIOUS
  <1> USE DEF vars, storage, loop
  <1>1. TypeOK' BY DEF IInv, TypeOK
  <1>2. LoopInv'
    BY DEF IInv, LoopInv, AccessError, LayoutOf, TotalSize, SizeOf, Base, ToDo, MinOf
  <1>3. DirtyInv' BY DEF IInv, DirtyInv
  <1>4. \A q \in Parts, a \in Addr :
          /\ Real(q, a)' = Real(q, a) /\ InCall(q, a)' = InCall(q, a)
          /\ Wanted(q, a)' = Wanted(q, a) /\ Base(q)' = Base(q)
    BY DEF Real, InCall, Wanted, Base, SizeOf, TotalSize
  <1>5. CacheInv' BY <1>4 DEF IInv, CacheInv, Copied
  <1>6. WriteExact' BY <1>4 DEF IInv, WriteExact
  <1> QED BY <1>1, <1>2, <1>3, <1>5, <1>6 DEF IInv

LEMMA Inductive == Spec => []IInv
  <1>1. Init => IInv BY InitInv
  <1>2. IInv /\ [Next]_vars => IInv'
    BY CommandsStep, ProgressStep, FailStep, WritebackStep, PowerLossStep, StutterInv
    DEF Next
  <1> QED BY <1>1, <1>2, PTL DEF Spec

\* The loop counters of Flash::write and Flash::read stay in their types: no
\* subtraction of the partition loop goes below zero.
THEOREM TypeCorrect == Spec => []TypeOK
  BY Inductive, PTL DEF IInv

\* Flash::write returns Ok only when the whole range is durable, and has not
\* touched anything else, on every partition table.
THEOREM WriteIsExact == Spec => []WriteExact
  BY Inductive, PTL DEF IInv

\* However a command ends, no written sector is left in the page cache only.
THEOREM NothingLeftPending == Spec => []NothingPending
  <1>1. IInv => NothingPending
    <2> SUFFICES ASSUME IInv, pc = "idle" PROVE dirty = {} /\ cache = disk
      BY DEF NothingPending
    <2>1. dirty = {} BY DEF IInv, DirtyInv
    <2>2. \A p \in Parts, o \in Addr : disk[p][o] = cache[p][o]
      BY <2>1 DEF IInv, DirtyInv
    <2> QED BY <2>1, <2>2 DEF IInv, TypeOK, Content
  <1> QED BY <1>1, Inductive, PTL
-----------------------------------------------------------------------------
(***************************************************************************)
(* What a write may disturb and in which order, what a backup holds, and   *)
(* that the partitioned, cached flash implements LinearFlash.              *)
(***************************************************************************)

\* The range enters a partition at its start, or it has just begun.
Entry == pc \in {"part", "block"} => written = 0 \/ off = 0

\* Blocks are whole but for the last one of a partition.
Aligned ==
  pc = "block" => pos = ToDo \/ \E k \in Nat : pos = k * FLASH_BLOCK_SIZE

\* The sector is in the range, in a block that the image changes.
Touchable(p, o) ==
  /\ InCall(p, o)
  /\ \E o2 \in Addr : /\ InCall(p, o2) /\ SameBlock(p, o, o2)
                      /\ Wanted(p, o2) # orig[p][o2]

\* Only such sectors are disturbed or about to be.
TouchInv ==
  \A p \in Parts, o \in Addr :
    /\ disk[p][o] # orig[p][o] => Touchable(p, o)
    /\ <<p, o>> \in dirty => Touchable(p, o) /\ Base(p) + o < call.offset + Copied

\* A running backup has copied the flash up to written, to a file of its own.
FileInv ==
  /\ file.complete => file.exists
  /\ pc # "idle" /\ call.cmd = "backup" =>
       /\ file.exists /\ ~ file.complete
       /\ call.offset = 0 /\ call.len = FLASH_SIZE
       /\ \A p \in Parts, o \in Addr : Real(p, o) /\ Base(p) + o < written =>
            file.data[Base(p) + o] = cache[p][o]

JInv == Entry /\ Aligned /\ TouchInv /\ PartitionsInOrder /\ FileInv /\ BackupFaithful

-----------------------------------------------------------------------------
(* Lemmas *)

LEMMA BlockIndex ==
  ASSUME NEW B \in Nat \ {0}, NEW k \in Nat, NEW x \in Nat, k * B <= x, x < k * B + B
  PROVE  x \div B = k
  OBVIOUS

LEMMA NextBlock ==
  ASSUME NEW B \in Nat \ {0}, NEW k \in Nat
  PROVE  k * B + B = (k + 1) * B
  OBVIOUS

LEMMA SameRange ==
  ASSUME dev' = dev, call' = call
  PROVE  \A p \in Parts, o \in Addr :
           /\ Real(p, o)' = Real(p, o) /\ InCall(p, o)' = InCall(p, o)
           /\ Wanted(p, o)' = Wanted(p, o) /\ Base(p)' = Base(p)
           /\ \A o2 \in Addr : SameBlock(p, o, o2)' = SameBlock(p, o, o2)
  BY DEF Real, InCall, Wanted, SameBlock, Base, SizeOf, TotalSize

LEMMA SameTouchable ==
  ASSUME dev' = dev, call' = call, orig' = orig, NEW p \in Parts, NEW o \in Addr
  PROVE  Touchable(p, o)' = Touchable(p, o)
  BY SameRange DEF Touchable

\* A step that leaves the chip and the range alone disturbs nothing.
LEMMA ChipKept ==
  ASSUME JInv, UNCHANGED <<dev, disk, orig, call>>,
         dirty' = {} \/ (dirty' = dirty /\ Copied' = Copied)
  PROVE  TouchInv' /\ PartitionsInOrder'
  <1>1. TouchInv'
    BY SameRange, SameTouchable DEF JInv, TouchInv
  <1>2. PartitionsInOrder'
    BY SameRange DEF JInv, PartitionsInOrder
  <1> QED BY <1>1, <1>2

\* What a command does before it enters the partition loop.
LEMMA CommandCases ==
  ASSUME IInv, Commands
  PROVE  /\ pc = "idle" /\ dirty = {} /\ UNCHANGED <<dev, disk, cache, dirty>> /\ orig' = disk
         /\ \/ file' = file
            \/ ~ file.exists /\ file' = [exists |-> TRUE, complete |-> FALSE, data |-> Blank]
         /\ \/ pc' = "idle" /\ ret' \in Results \ {"ok", "none"}
            \/ /\ pc' = "part" /\ written' = 0
               /\ \/ call'.cmd = "write" /\ file' = file
                  \/ /\ call'.cmd = "backup" /\ call'.offset = 0 /\ call'.len = FLASH_SIZE
                     /\ ~ file.exists /\ file'.exists /\ ~ file'.complete
  <1>1. pc = "idle" /\ dirty = {}
    BY DEF IInv, DirtyInv, Commands, Backup, Softbrick, FlashNosign, FlashAutosign,
           LibWrite, Ready
  <1>2. cache = disk
    BY <1>1 DEF IInv, DirtyInv, TypeOK, Content
  <1>3. UNCHANGED <<dev, disk, cache, dirty>> /\ orig' = cache
    BY DEF Commands, Backup, Softbrick, FlashNosign, FlashAutosign, LibWrite,
           Access, Refuse, storage
  <1>4. ASSUME NEW cmd, NEW why \in Results \ {"ok", "none"}, Refuse(cmd, why)
        PROVE  pc' = "idle" /\ ret' \in Results \ {"ok", "none"}
    BY <1>4 DEF Refuse, Reject
  <1>5. ASSUME NEW cmd, NEW o, NEW n, NEW d, Access(cmd, o, n, d)
        PROVE  \/ pc' = "idle" /\ ret' \in Results \ {"ok", "none"}
               \/ /\ pc' = "part" /\ written' = 0
                  /\ call'.cmd = cmd /\ call'.offset = o /\ call'.len = n
    <2>1. AccessError(o, n) # "none" => AccessError(o, n) \in Results \ {"ok", "none"}
      BY DEF AccessError, Results
    <2> QED BY <1>5, <2>1 DEF Access, Reject
  <1>6. CASE Backup
    <2>1. CASE file.exists
      BY <1>1, <1>2, <1>3, <1>4, <1>6, <2>1 DEF Backup, Results
    <2>2. CASE ~ file.exists
      <3>1. file' = [exists |-> TRUE, complete |-> FALSE, data |-> Blank]
        BY <1>6, <2>2 DEF Backup
      <3>2. Refuse("backup", "size") \/ Access("backup", 0, FLASH_SIZE, call.data)
        BY <1>6, <2>2 DEF Backup
      <3>3. \/ pc' = "idle" /\ ret' \in Results \ {"ok", "none"}
            \/ /\ pc' = "part" /\ written' = 0
               /\ call'.cmd = "backup" /\ call'.offset = 0 /\ call'.len = FLASH_SIZE
        BY <1>4, <1>5, <3>2 DEF Results
      <3> QED BY <1>1, <1>2, <1>3, <2>2, <3>1, <3>3
    <2> QED BY <2>1, <2>2
  <1>7. CASE Softbrick
    <2>1. file' = file /\ (Refuse("write", "model") \/ Access("write", 0, BRICK_LEN, Blank))
      BY <1>7 DEF Softbrick
    <2> QED BY <1>1, <1>2, <1>3, <1>4, <1>5, <2>1 DEF Results
  <1>8. ASSUME NEW img \in Images, NEW n \in {FLASH_SIZE, ULTRA_NAND_FLASH_SIZE},
               FlashNosign(img, n) \/ FlashAutosign(img, n)
        PROVE  file' = file /\ \/ pc' = "idle" /\ ret' \in Results \ {"ok", "none"}
                               \/ pc' = "part" /\ written' = 0 /\ call'.cmd = "write"
    <2>1. /\ file' = file
          /\ \/ Refuse("write", "size") \/ Refuse("write", "sign")
             \/ Access("write", 0, FLASH_SIZE, img)
             \/ Access("write", 0, FLASH_SIZE, sign_wic(img))
      BY <1>8 DEF FlashNosign, FlashAutosign
    <2> QED BY <1>4, <1>5, <2>1 DEF Results
  <1>9. ASSUME NEW o \in Offsets, NEW n \in Lengths, NEW img \in Images, LibWrite(o, n, img)
        PROVE  file' = file /\ \/ pc' = "idle" /\ ret' \in Results \ {"ok", "none"}
                               \/ pc' = "part" /\ written' = 0 /\ call'.cmd = "write"
    BY <1>5, <1>9 DEF LibWrite
  <1> QED BY <1>1, <1>2, <1>3, <1>6, <1>7, <1>8, <1>9 DEF Commands

LEMMA CommandsMore == ASSUME IInv, JInv, Commands PROVE JInv'
  <1>1. TouchInv' /\ PartitionsInOrder'
    BY CommandCases DEF TouchInv, PartitionsInOrder
  <1>2. Entry' /\ Aligned' /\ BackupFaithful'
    BY CommandCases DEF Entry, Aligned, BackupFaithful
  <1>3. FileInv'
    <2>1. file'.complete => file'.exists
      BY CommandCases DEF JInv, FileInv
    <2>2. ASSUME pc' # "idle", call'.cmd = "backup"
          PROVE  /\ file'.exists /\ ~ file'.complete
                 /\ call'.offset = 0 /\ call'.len = FLASH_SIZE
                 /\ \A p \in Parts, o \in Addr : ~ (Base(p)' + o < written')
      <3>1. /\ file'.exists /\ ~ file'.complete
            /\ call'.offset = 0 /\ call'.len = FLASH_SIZE /\ written' = 0
        BY <2>2, CommandCases
      <3>2. \A p \in Parts : Base(p)' = Base(p)
        BY CommandCases, Geometry DEF Parts
      <3>3. \A p \in Parts : Base(p) \in Nat
        BY BaseType DEF IInv, TypeOK
      <3>4. \A p \in Parts, o \in Addr : ~ (Base(p)' + o < 0)
        BY <3>2, <3>3, SizesAssumption DEF Addr
      <3> QED BY <3>1, <3>4
    <2> QED BY <2>1, <2>2 DEF FileInv
  <1> QED BY <1>1, <1>2, <1>3 DEF JInv

-----------------------------------------------------------------------------
(* The steps of a command *)

LEMMA SkipMore == ASSUME IInv, JInv, SkipPartition PROVE JInv'
  <1>1. /\ UNCHANGED <<dev, disk, cache, dirty, file, call, written, orig>>
        /\ pc = "part" /\ pc' \in {"part", "sync", "done"}
        /\ off >= SizeOf(i) /\ off' = off - SizeOf(i)
    BY DEF SkipPartition, storage, AfterLoop
  <1>2. dirty = {} BY <1>1 DEF IInv, DirtyInv
  <1>3. TouchInv' /\ PartitionsInOrder' BY <1>1, <1>2, ChipKept
  <1>4. Entry'
    <2>1. SizeOf(i) \in Nat /\ off \in Nat
      BY <1>1, SizeType DEF IInv, TypeOK, LoopInv
    <2> QED BY <1>1, <2>1 DEF JInv, Entry
  <1>5. Aligned' /\ BackupFaithful' BY <1>1 DEF Aligned, BackupFaithful
  <1>6. FileInv' BY <1>1, SameRange DEF JInv, FileInv
  <1> QED BY <1>3, <1>4, <1>5, <1>6 DEF JInv

LEMMA OpenMore == ASSUME IInv, JInv, OpenPartition PROVE JInv'
  <1>1. /\ UNCHANGED <<dev, disk, cache, dirty, file, call, written, off, orig>>
        /\ pc = "part"
        /\ (pc' = "block" /\ pos' = 0) \/ (pc' = "idle" /\ ret' = "open")
    BY DEF OpenPartition, storage
  <1>2. dirty = {} BY <1>1 DEF IInv, DirtyInv
  <1>3. TouchInv' /\ PartitionsInOrder' BY <1>1, <1>2, ChipKept
  <1>4. Entry' /\ BackupFaithful' BY <1>1 DEF JInv, Entry, BackupFaithful
  <1>5. Aligned'
    <2>1. 0 = 0 * FLASH_BLOCK_SIZE /\ 0 \in Nat BY SizesAssumption
    <2> QED BY <1>1, <2>1 DEF Aligned
  <1>6. FileInv' BY <1>1, SameRange DEF JInv, FileInv
  <1> QED BY <1>3, <1>4, <1>5, <1>6 DEF JInv

LEMMA FailMore == ASSUME IInv, JInv, MsyncFails PROVE JInv'
  <1>1. /\ UNCHANGED <<dev, disk, file, call, orig>>
        /\ pc' = "idle" /\ ret' = "io" /\ dirty' = {}
    BY DEF MsyncFails, IInv, DirtyInv
  <1>2. TouchInv' /\ PartitionsInOrder' BY <1>1, ChipKept
  <1>3. Entry' /\ Aligned' /\ BackupFaithful' BY <1>1 DEF Entry, Aligned, BackupFaithful
  <1>4. FileInv' BY <1>1 DEF JInv, FileInv
  <1> QED BY <1>2, <1>3, <1>4 DEF JInv

LEMMA PowerLossMore == ASSUME IInv, JInv, PowerLoss PROVE JInv'
  <1>1. /\ UNCHANGED <<dev, disk, call, orig>>
        /\ pc' = "idle" /\ dirty' = {} /\ ~ file'.complete /\ ~ file'.exists
    BY DEF PowerLoss, NoFile
  <1>2. TouchInv' /\ PartitionsInOrder' BY <1>1, ChipKept
  <1>3. Entry' /\ Aligned' /\ BackupFaithful' BY <1>1 DEF Entry, Aligned, BackupFaithful
  <1>4. FileInv' BY <1>1 DEF FileInv
  <1> QED BY <1>2, <1>3, <1>4 DEF JInv

LEMMA StutterMore == ASSUME IInv, JInv, UNCHANGED vars PROVE JInv'
  <1>1. UNCHANGED <<dev, disk, cache, dirty, file, call, pc, i, off, written, pos, ret, orig>>
    BY DEF vars, storage, loop
  <1>2. TouchInv' /\ PartitionsInOrder' BY <1>1, ChipKept DEF Copied
  <1>3. ToDo' = ToDo BY <1>1 DEF ToDo, SizeOf, MinOf
  <1>4. Entry' /\ Aligned' BY <1>1, <1>3 DEF JInv, Entry, Aligned
  <1>5. FileInv' /\ BackupFaithful'
    BY <1>1, SameRange DEF JInv, FileInv, BackupFaithful
  <1> QED BY <1>2, <1>4, <1>5 DEF JInv

LEMMA MsyncMore == ASSUME IInv, JInv, Msync PROVE JInv'
  <1>1. /\ UNCHANGED <<dev, disk, cache, dirty, file, call, orig>>
        /\ off' = 0 /\ pc = "block" /\ call.cmd = "write" /\ pc' \in {"part", "sync"}
    BY DEF Msync, NextPartition, storage, AfterLoop
  <1>2. dirty = {}
    <2>1. \A s \in dirty : s[1] = i /\ s[2] \in Addr /\ s = <<s[1], s[2]>>
      BY DEF IInv, TypeOK, DirtyInv
    <2> QED BY <2>1 DEF Msync
  <1>3. TouchInv' /\ PartitionsInOrder' BY <1>1, <1>2, ChipKept
  <1>4. Entry' /\ Aligned' /\ BackupFaithful' BY <1>1 DEF Entry, Aligned, BackupFaithful
  <1>5. FileInv' BY <1>1 DEF JInv, FileInv
  <1> QED BY <1>3, <1>4, <1>5 DEF JInv

LEMMA FinishMore == ASSUME IInv, JInv, Finish PROVE JInv'
  <1>1. /\ UNCHANGED <<dev, disk, cache, dirty, call, orig>>
        /\ pc \in {"sync", "done"} /\ pc' = "idle" /\ file'.data = file.data
        /\ file' = [file EXCEPT !.complete = @ \/ call.cmd = "backup"]
    BY DEF Finish, storage, IInv, TypeOK
  <1>2. dirty = {} BY <1>1 DEF IInv, DirtyInv
  <1>3. TouchInv' /\ PartitionsInOrder' BY <1>1, <1>2, ChipKept
  <1>4. Entry' /\ Aligned' BY <1>1 DEF Entry, Aligned
  <1>5. FileInv'
    <2>1. file.exists => file'.exists
      BY <1>1 DEF IInv, TypeOK
    <2>2. file'.complete => file.complete \/ call.cmd = "backup"
      BY <1>1 DEF IInv, TypeOK
    <2>3. file.complete \/ call.cmd = "backup" => file.exists
      BY <1>1 DEF JInv, FileInv
    <2> QED BY <1>1, <2>1, <2>2, <2>3 DEF FileInv
  <1>6. BackupFaithful'
    <2> SUFFICES ASSUME call.cmd = "backup", NEW p \in Parts, NEW o \in Addr, Real(p, o)
                 PROVE  file.data[Base(p) + o] = disk[p][o]
      BY <1>1, SameRange DEF BackupFaithful
    <2>1. written = FLASH_SIZE BY <1>1 DEF IInv, LoopInv, JInv, FileInv
    <2>2. disk[p][o] = cache[p][o] BY <1>2 DEF IInv, DirtyInv
    <2> QED BY <1>1, <2>1, <2>2 DEF JInv, FileInv, Real
  <1> QED BY <1>3, <1>4, <1>5, <1>6 DEF JInv

LEMMA ReadMore == ASSUME IInv, JInv, ReadPartition PROVE JInv'
  <1> USE SizesAssumption
  <1>1. /\ UNCHANGED <<dev, disk, cache, dirty, call, orig>>
        /\ off' = 0 /\ written' = written + ToDo
        /\ pc = "block" /\ call.cmd = "backup" /\ pc' \in {"part", "done"}
    BY DEF ReadPartition, NextPartition, storage, AfterLoop
  <1>2. dirty = {} BY <1>1 DEF IInv, DirtyInv
  <1>3. TouchInv' /\ PartitionsInOrder' BY <1>1, <1>2, ChipKept
  <1>4. Entry' /\ Aligned' /\ BackupFaithful' BY <1>1 DEF Entry, Aligned, BackupFaithful
  <1>5. /\ file'.exists = file.exists /\ file'.complete = file.complete
        /\ \A a \in Addr : file'.data[a] = IF a >= written /\ a < written + ToDo
                                           THEN cache[i][a - written + off] ELSE file.data[a]
    BY DEF ReadPartition, IInv, TypeOK
  <1>6. /\ ToDo \in Nat /\ ToDo <= SizeOf(i) - off
        /\ SizeOf(i) \in Nat /\ Base(i) \in Nat /\ i \in Parts
        /\ off \in Nat /\ written \in Nat /\ written = Base(i) + off
    BY <1>1, ToDoType DEF IInv, TypeOK, LoopInv, JInv, FileInv
  <1>7. ASSUME NEW p \in Parts, NEW o \in Addr, Real(p, o), Base(p) + o < written + ToDo
        PROVE  file'.data[Base(p) + o] = cache[p][o]
    <2>1. /\ Base(p) \in Nat /\ o \in Nat /\ o < SizeOf(p) /\ SizeOf(p) \in Nat
          /\ Base(p) + o \in Addr
      BY <1>7, SizeType, BaseType DEF IInv, TypeOK, Real, Addr
    <2>2. CASE Base(p) + o < written
      <3>1. file'.data[Base(p) + o] = file.data[Base(p) + o] BY <1>5, <1>6, <2>1, <2>2
      <3> QED BY <1>1, <1>7, <2>2, <3>1 DEF JInv, FileInv
    <2>3. CASE Base(p) + o >= written
      <3> DEFINE o2 == Base(p) + o - Base(i)
      <3>1. /\ o2 \in Nat /\ o2 < SizeOf(i) /\ o2 < FLASH_SIZE
            /\ Base(p) + o = Base(i) + o2 /\ o2 = Base(p) + o - written + off
        BY <1>6, <1>7, <2>1, <2>3 DEF Addr
      <3>2. o2 \in Addr BY <3>1 DEF Addr
      <3>3. file'.data[Base(p) + o] = cache[i][o2] BY <1>5, <1>6, <1>7, <2>1, <2>3, <3>1
      <3>4. p = i /\ o = o2
        <4> HIDE DEF o2
        <4> QED BY <1>6, <2>1, <3>1, <3>2, OneHome DEF IInv, TypeOK
      <3> QED BY <3>3, <3>4
    <2> QED BY <1>6, <2>1, <2>2, <2>3
  <1>8. FileInv'
    <2>1. file.exists /\ ~ file.complete /\ call.offset = 0 /\ call.len = FLASH_SIZE
      BY <1>1 DEF JInv, FileInv
    <2>2. \A p \in Parts, o \in Addr : Real(p, o)' = Real(p, o) /\ Base(p)' = Base(p)
      BY <1>1, SameRange
    <2> QED BY <1>1, <1>5, <1>7, <2>1, <2>2 DEF FileInv
  <1> QED BY <1>3, <1>4, <1>8 DEF JInv

\* A block is copied only if one of its sectors must change.
LEMMA BlockMore == ASSUME IInv, JInv, WriteBlock PROVE JInv'
  <1> USE SizesAssumption
  <1>1. /\ UNCHANGED <<dev, disk, file, call, pc, i, off, written, orig>>
        /\ pc = "block" /\ call.cmd = "write" /\ pos < ToDo /\ pos' = pos + BlockLen
    BY DEF WriteBlock
  <1>2. /\ ToDo \in Nat /\ ToDo <= SizeOf(i) - off /\ ToDo <= call.len - written
        /\ SizeOf(i) \in Nat /\ Base(i) \in Nat /\ i \in Parts
        /\ off \in Nat /\ written \in Nat /\ pos \in Nat
        /\ call.len \in Nat /\ call.offset \in Nat
        /\ call.offset + written = Base(i) + off
        /\ call.offset + call.len <= FLASH_SIZE
    BY <1>1, ToDoType, AccessFits DEF IInv, TypeOK, LoopInv
  <1>3. /\ BlockLen \in Nat /\ pos + BlockLen <= ToDo /\ BlockLen <= FLASH_BLOCK_SIZE
        /\ BlockLen = FLASH_BLOCK_SIZE \/ pos + BlockLen = ToDo
    BY <1>1, <1>2 DEF BlockLen, MinOf
  <1>4. PICK k \in Nat : pos = k * FLASH_BLOCK_SIZE
    BY <1>1, <1>2 DEF JInv, Aligned
  <1>5. Aligned'
    <2>1. ToDo' = ToDo BY <1>1 DEF ToDo, SizeOf, MinOf
    <2>2. CASE pos + BlockLen = ToDo BY <1>1, <2>1, <2>2 DEF Aligned
    <2>3. CASE BlockLen = FLASH_BLOCK_SIZE
      <3>1. pos' = (k + 1) * FLASH_BLOCK_SIZE /\ k + 1 \in Nat
        BY <1>1, <1>4, <2>3, NextBlock
      <3> QED BY <3>1 DEF Aligned
    <2> QED BY <1>3, <2>2, <2>3
  <1>6. Entry' /\ FileInv' /\ BackupFaithful' BY <1>1 DEF JInv, Entry, FileInv, BackupFaithful
  <1>7. PartitionsInOrder' BY <1>1, SameRange DEF JInv, PartitionsInOrder
  <1>8. ASSUME NEW o \in Addr, InBlock(o)
        PROVE  /\ InCall(i, o) /\ Wanted(i, o) = NewCell(o)
               /\ Base(i) + o < call.offset + written + pos + BlockLen
               /\ Base(i) + o >= call.offset + written + pos
               /\ (o - off) \div FLASH_BLOCK_SIZE = k
    <2>1. /\ InCall(i, o) /\ Wanted(i, o) = NewCell(o)
          /\ Base(i) + o < call.offset + written + pos + BlockLen
          /\ Base(i) + o >= call.offset + written + pos
      BY <1>2, <1>3, <1>8 DEF InBlock, InCall, Real, Wanted, NewCell, Addr
    <2>2. /\ o - off \in Nat
          /\ k * FLASH_BLOCK_SIZE <= o - off /\ o - off < k * FLASH_BLOCK_SIZE + FLASH_BLOCK_SIZE
      <3>1. o \in Nat /\ pos <= o - off /\ o - off < pos + FLASH_BLOCK_SIZE
        BY <1>2, <1>3, <1>8 DEF InBlock, Addr
      <3> QED BY <1>2, <1>4, <3>1
    <2> QED BY <2>1, <2>2, BlockIndex
  <1>9. \A o1, o2 \in Addr : InBlock(o1) /\ InBlock(o2) => SameBlock(i, o1, o2)
    <2>1. (IF call.offset > Base(i) THEN call.offset - Base(i) ELSE 0) = off
      BY <1>1, <1>2 DEF JInv, Entry
    <2> QED BY <1>8, <2>1 DEF SameBlock
  <1>10. Copied = written + pos /\ Copied' = written + pos + BlockLen
    BY <1>1, <1>2, <1>3 DEF Copied
  <1>11. TouchInv'
    <2>1. CASE ~ Differs
      <3>1. dirty' = dirty BY <2>1 DEF WriteBlock
      <3>2. ASSUME NEW p \in Parts, NEW o \in Addr, <<p, o>> \in dirty
            PROVE  Base(p) + o < call.offset + Copied'
        <4>1. Base(p) + o < call.offset + Copied BY <3>2 DEF JInv, TouchInv
        <4>2. Base(p) \in Nat /\ o \in Nat BY BaseType DEF IInv, TypeOK, Addr
        <4> QED BY <1>2, <1>3, <1>10, <4>1, <4>2
      <3> QED BY <1>1, <3>1, <3>2, SameRange, SameTouchable DEF JInv, TouchInv
    <2>2. CASE Differs
      <3>1. PICK o2 \in Addr : InBlock(o2) /\ cache[i][o2] # NewCell(o2)
        BY <2>2 DEF Differs
      <3>2. Wanted(i, o2) # orig[i][o2]
        <4>1. ~ (Base(i) + o2 < call.offset + Copied)
          <5>1. o2 \in Nat BY DEF Addr
          <5> QED BY <1>2, <1>8, <1>10, <3>1, <5>1
        <4>2. Real(i, o2) BY <1>8, <3>1 DEF InCall
        <4>3. cache[i][o2] = orig[i][o2] BY <1>1, <1>2, <4>1, <4>2 DEF IInv, CacheInv
        <4> QED BY <1>8, <3>1, <4>3
      <3>3. ASSUME NEW o \in Addr, InBlock(o) PROVE Touchable(i, o)
        BY <1>8, <1>9, <3>1, <3>2, <3>3 DEF Touchable
      <3>4. dirty' = dirty \cup {<<i, o>> : o \in {a \in Addr : InBlock(a)}}
        BY <2>2 DEF WriteBlock
      <3>5. ASSUME NEW p \in Parts, NEW o \in Addr, <<p, o>> \in dirty'
            PROVE  Touchable(p, o) /\ Base(p) + o < call.offset + Copied'
        <4>1. CASE <<p, o>> \in dirty
          <5>1. Touchable(p, o) /\ Base(p) + o < call.offset + Copied
            BY <4>1 DEF JInv, TouchInv
          <5>2. Base(p) \in Nat /\ o \in Nat BY BaseType DEF IInv, TypeOK, Addr
          <5> QED BY <1>2, <1>3, <1>10, <5>1, <5>2
        <4>2. CASE p = i /\ InBlock(o)
          <5>1. o \in Nat BY DEF Addr
          <5> QED BY <1>2, <1>3, <1>8, <1>10, <3>3, <4>2, <5>1
        <4> QED BY <3>4, <3>5, <4>1, <4>2
      <3> QED BY <1>1, <3>5, SameRange, SameTouchable DEF JInv, TouchInv
    <2> QED BY <2>1, <2>2
  <1> QED BY <1>5, <1>6, <1>7, <1>11 DEF JInv

\* The kernel only works on the mapped partition, and all of the range that lies
\* before that partition is durable.
LEMMA WritebackMore == ASSUME IInv, JInv, Writeback PROVE JInv'
  <1> USE SizesAssumption
  <1>1. PICK r \in Parts, w \in Addr : Erase(r, w) \/ Program(r, w)
    BY DEF Writeback
  <1>2. /\ UNCHANGED <<dev, cache, file, call, pc, i, off, written, pos, ret, orig>>
        /\ <<r, w>> \in dirty
    BY <1>1 DEF Erase, Program, loop
  <1>3. /\ dirty' \subseteq dirty
        /\ \A p \in Parts, o \in Addr : <<p, o>> # <<r, w>> => disk'[p][o] = disk[p][o]
    <2>1. CASE Erase(r, w) BY <2>1 DEF Erase, IInv, TypeOK, Content
    <2>2. CASE Program(r, w) BY <2>2 DEF Program, IInv, TypeOK, Content
    <2> QED BY <1>1, <2>1, <2>2
  <1>4. pc = "block" /\ call.cmd = "write" /\ r = i
    BY <1>2 DEF IInv, DirtyInv
  <1>5. Entry' /\ Aligned' /\ FileInv' /\ BackupFaithful'
    <2>1. ToDo' = ToDo BY <1>2 DEF ToDo, SizeOf, MinOf
    <2> QED BY <1>2, <1>4, <2>1 DEF JInv, Entry, Aligned, FileInv, BackupFaithful
  <1>6. Copied' = Copied BY <1>2 DEF Copied
  <1>7. \A p \in Parts, o \in Addr : disk'[p][o] # orig[p][o] => Touchable(p, o)
    BY <1>2, <1>3 DEF JInv, TouchInv
  <1>8. TouchInv'
    BY <1>2, <1>3, <1>6, <1>7, SameRange, SameTouchable DEF JInv, TouchInv
  <1>9. /\ off \in Nat /\ written \in Nat /\ pos \in Nat /\ call.offset \in Nat
        /\ SizeOf(i) \in Nat /\ Base(i) \in Nat /\ i \in Parts
        /\ call.offset + written = Base(i) + off
        /\ pos <= SizeOf(i) - off /\ Copied = written + pos
    <2>1. ToDo \in Nat /\ ToDo <= SizeOf(i) - off /\ pos <= ToDo
      BY <1>4, ToDoType DEF IInv, LoopInv
    <2>2. /\ off \in Nat /\ written \in Nat /\ pos \in Nat /\ call.offset \in Nat
          /\ SizeOf(i) \in Nat /\ Base(i) \in Nat /\ i \in Parts
          /\ call.offset + written = Base(i) + off
      BY <1>4, ToDoType DEF IInv, TypeOK, LoopInv
    <2> QED BY <1>4, <2>1, <2>2 DEF Copied
  <1>10. ASSUME NEW q \in Parts, NEW a \in Addr, i < q PROVE disk'[q][a] = orig[q][a]
    <2> SUFFICES ASSUME disk'[q][a] # orig[q][a] PROVE FALSE OBVIOUS
    <2>1. InCall(q, a) /\ Real(q, a) BY <1>7 DEF Touchable, InCall
    <2>2. <<q, a>> \notin dirty BY <1>9, <1>10 DEF IInv, DirtyInv, Parts
    <2>3. <<q, a>> # <<r, w>> BY <1>2, <2>2
    <2>4. disk'[q][a] = cache[q][a] BY <1>3, <2>2, <2>3 DEF IInv, DirtyInv
    <2>5. Base(i) + SizeOf(i) <= Base(q) BY <1>9, <1>10, BaseOrder DEF IInv, TypeOK
    <2>6. Base(q) \in Nat /\ a \in Nat BY BaseType DEF IInv, TypeOK, Addr
    <2>7. ~ (Base(q) + a < call.offset + Copied) BY <1>9, <2>5, <2>6
    <2>8. cache[q][a] = orig[q][a] BY <1>4, <2>1, <2>7 DEF IInv, CacheInv
    <2> QED BY <2>4, <2>8
  <1>11. ASSUME NEW p \in Parts, NEW o \in Addr, p < i, InCall(p, o)
         PROVE  disk'[p][o] = Wanted(p, o)
    <2>1. <<p, o>> \notin dirty BY <1>9, <1>11 DEF IInv, DirtyInv, Parts
    <2>2. <<p, o>> # <<r, w>> BY <1>2, <2>1
    <2>3. disk'[p][o] = cache[p][o] BY <1>3, <2>1, <2>2 DEF IInv, DirtyInv
    <2>4. Base(p) + SizeOf(p) <= Base(i) BY <1>9, <1>11, BaseOrder DEF IInv, TypeOK
    <2>5. /\ Base(p) \in Nat /\ SizeOf(p) \in Nat /\ o \in Nat /\ o < SizeOf(p) /\ Real(p, o)
      BY <1>11, BaseType, SizeType DEF IInv, TypeOK, Addr, InCall, Real
    <2>6. Base(p) + o < call.offset + Copied BY <1>9, <2>4, <2>5
    <2>7. cache[p][o] = Wanted(p, o) BY <1>4, <1>11, <2>5, <2>6 DEF IInv, CacheInv
    <2> QED BY <2>3, <2>7
  <1>12. PartitionsInOrder'
    <2> SUFFICES ASSUME NEW p \in Parts, NEW q \in Parts, p < q,
                        NEW a \in Addr, disk'[q][a] # orig[q][a],
                        NEW o \in Addr, InCall(p, o)
                 PROVE  disk'[p][o] = Wanted(p, o)
      BY <1>2, SameRange DEF PartitionsInOrder
    <2>1. ~ (i < q) BY <1>10
    <2>2. p < i BY <1>9, <2>1 DEF Parts
    <2> QED BY <1>11, <2>2
  <1> QED BY <1>5, <1>8, <1>12 DEF JInv

LEMMA InitMore == Init => JInv
  <1> SUFFICES ASSUME Init PROVE JInv OBVIOUS
  <1>1. Entry /\ Aligned /\ BackupFaithful BY DEF Init, Entry, Aligned, BackupFaithful
  <1>2. TouchInv /\ PartitionsInOrder BY DEF Init, TouchInv, PartitionsInOrder
  <1>3. FileInv BY DEF Init, FileInv, NoFile
  <1> QED BY <1>1, <1>2, <1>3 DEF JInv

LEMMA NextMore == IInv /\ JInv /\ [Next]_vars => JInv'
  BY CommandsMore, SkipMore, OpenMore, BlockMore, MsyncMore, ReadMore, FinishMore,
     FailMore, WritebackMore, PowerLossMore, StutterMore
  DEF Next, Progress

LEMMA MoreInductive == Spec => []JInv
  <1>1. Spec => []IInv BY Inductive
  <1>2. Init => JInv BY InitMore
  <1>3. IInv /\ JInv /\ [Next]_vars => JInv' BY NextMore
  <1> QED BY <1>1, <1>2, <1>3, PTL DEF Spec

-----------------------------------------------------------------------------
(* The theorems *)

\* write_if_different never lets the kernel erase a sector outside the range, nor
\* one in a block that the image leaves as it was: wherever power is lost, such a
\* block still holds what it held when the command started.
THEOREM UnchangedBlocksAreSafe == Spec => []UnchangedBlocksSafe
  <1>1. JInv => UnchangedBlocksSafe
    BY DEF JInv, TouchInv, Touchable, UnchangedBlocksSafe
  <1> QED BY <1>1, MoreInductive, PTL

\* The msync at the end of each partition of Flash::write orders the partitions:
\* none is disturbed before all of the range that precedes it is on the chip.
THEOREM PartitionsAreOrdered == Spec => []PartitionsInOrder
  BY MoreInductive, PTL DEF JInv

\* A backup that returned Ok holds every sector of the flash, on every partition
\* table, for as long as no other command is given.
THEOREM BackupIsFaithful == Spec => []BackupFaithful
  BY MoreInductive, PTL DEF JInv

-----------------------------------------------------------------------------
(* The linear flash *)

\* The refinement mapping, by name.
BusyView == pc # "idle"
ResView  == IF pc # "idle" \/ ret = "none" THEN "none"
            ELSE IF ret = "ok" THEN "ok" ELSE "failed"
WantView == [a \in {a \in Addr : /\ pc # "idle" /\ call.cmd = "write"
                                 /\ a >= call.offset
                                 /\ a < call.offset + call.len}
               |-> call.data[a - call.offset]]
BackupView == IF file.complete THEN file.data ELSE [a \in Addr |-> ERASED]
NoWant   == [a \in {} |-> ERASED]

LEMMA MemType == ASSUME TypeOK PROVE MemView \in [Addr -> Cell]
  <1> USE SizesAssumption, ContentsAssumption
  <1>1. \A p \in 0 .. 4 : Base(p) \in Nat
    BY BaseType, SizeType DEF TypeOK, Base, Parts
  <1>2. Base(1) <= Base(2) /\ Base(2) <= Base(3) /\ Base(3) <= Base(4)
    BY SizeType DEF TypeOK, Base, TotalSize, Parts
  <1>3. \A p \in Parts : disk[p] \in [Addr -> Cell] BY DEF TypeOK, Content
  <1>4. ASSUME NEW a \in Addr PROVE MemView[a] \in Cell
    <2>1. a \in Nat /\ a < FLASH_SIZE BY DEF Addr
    <2>2. CASE a < Base(1)
      BY <1>1, <1>2, <1>3, <2>1, <2>2 DEF MemView, SectorAt, Parts
    <2>3. CASE a >= Base(1) /\ a < Base(2)
      <3>1. a - Base(1) \in Addr BY <1>1, <2>1, <2>3 DEF Addr
      <3> QED BY <1>1, <1>2, <1>3, <2>1, <2>3, <3>1 DEF MemView, SectorAt, Parts
    <2>4. CASE a >= Base(2) /\ a < Base(3)
      <3>1. a - Base(2) \in Addr BY <1>1, <2>1, <2>4 DEF Addr
      <3> QED BY <1>1, <1>2, <1>3, <2>1, <2>4, <3>1 DEF MemView, SectorAt, Parts
    <2>5. CASE a >= Base(3) /\ a < Base(4)
      <3>1. a - Base(3) \in Addr BY <1>1, <2>1, <2>5 DEF Addr
      <3> QED BY <1>1, <1>2, <1>3, <2>1, <2>5, <3>1 DEF MemView, SectorAt, Parts
    <2>6. CASE a >= Base(4)
      BY <1>1, <1>2, <2>1, <2>6 DEF MemView, SectorAt
    <2> QED BY <1>1, <2>1, <2>2, <2>3, <2>4, <2>5, <2>6
  <1>5. MemView = [a \in Addr |-> MemView[a]] BY DEF MemView
  <1> QED BY <1>4, <1>5

\* A sector of a partition is seen at its linear address.
LEMMA MemAt ==
  ASSUME TypeOK, NEW p \in Parts, NEW o \in Addr, Real(p, o)
  PROVE  Base(p) + o \in Addr /\ MemView[Base(p) + o] = disk[p][o]
  <1> USE SizesAssumption
  <1>1. /\ Base(0) = 0 /\ Base(1) = Base(0) + SizeOf(0) /\ Base(2) = Base(1) + SizeOf(1)
        /\ Base(3) = Base(2) + SizeOf(2) /\ Base(4) = Base(3) + SizeOf(3)
        /\ \A q \in Parts : SizeOf(q) \in Nat /\ Base(q) \in Nat
    BY BaseType, SizeType DEF TypeOK, Base, TotalSize, Parts
  <1>2. /\ SizeOf(0) \in Nat /\ SizeOf(1) \in Nat /\ SizeOf(2) \in Nat /\ SizeOf(3) \in Nat
        /\ o \in Nat /\ o < SizeOf(p) /\ Base(p) + o < FLASH_SIZE
        /\ p = 0 \/ p = 1 \/ p = 2 \/ p = 3
    BY <1>1 DEF Real, Addr, Parts
  <1>3. Base(p) + o \in Addr BY <1>1, <1>2 DEF Addr
  <1>4. CASE p = 0 BY <1>1, <1>2, <1>3, <1>4 DEF MemView, SectorAt
  <1>5. CASE p = 1 BY <1>1, <1>2, <1>3, <1>5 DEF MemView, SectorAt
  <1>6. CASE p = 2 BY <1>1, <1>2, <1>3, <1>6 DEF MemView, SectorAt
  <1>7. CASE p = 3 BY <1>1, <1>2, <1>3, <1>7 DEF MemView, SectorAt
  <1> QED BY <1>2, <1>3, <1>4, <1>5, <1>6, <1>7

\* Every address below the end of the partitions lies in one of them.
LEMMA Home ==
  ASSUME TypeOK, NEW a \in Addr, a < TotalSize
  PROVE  \E p \in Parts, o \in Addr : Real(p, o) /\ Base(p) + o = a
  <1> USE SizesAssumption
  <1>1. /\ Base(0) = 0 /\ Base(1) = Base(0) + SizeOf(0) /\ Base(2) = Base(1) + SizeOf(1)
        /\ Base(3) = Base(2) + SizeOf(2) /\ TotalSize = Base(3) + SizeOf(3)
        /\ \A q \in Parts : SizeOf(q) \in Nat /\ Base(q) \in Nat
    BY BaseType, SizeType DEF TypeOK, Base, TotalSize, Parts
  <1>2. /\ SizeOf(0) \in Nat /\ SizeOf(1) \in Nat /\ SizeOf(2) \in Nat /\ SizeOf(3) \in Nat
        /\ a \in Nat /\ a < FLASH_SIZE /\ 0 \in Parts /\ 1 \in Parts /\ 2 \in Parts /\ 3 \in Parts
    BY <1>1 DEF Addr, Parts
  <1>3. ASSUME NEW p \in Parts, Base(p) <= a, a < Base(p) + SizeOf(p)
        PROVE  \E q \in Parts, o \in Addr : Real(q, o) /\ Base(q) + o = a
    <2>1. /\ a - Base(p) \in Addr /\ a - Base(p) < SizeOf(p)
          /\ Base(p) + (a - Base(p)) = a
      BY <1>1, <1>2, <1>3 DEF Addr
    <2>2. Real(p, a - Base(p)) BY <1>2, <2>1 DEF Real
    <2> QED BY <2>1, <2>2
  <1>4. \E p \in Parts : Base(p) <= a /\ a < Base(p) + SizeOf(p)
    BY <1>1, <1>2
  <1> QED BY <1>3, <1>4

LEMMA MemKept == ASSUME UNCHANGED <<dev, disk>> PROVE MemView' = MemView
  BY DEF MemView, SectorAt, Base, SizeOf, TotalSize

LEMMA NextMemAt ==
  ASSUME TypeOK, dev' = dev, NEW p \in Parts, NEW o \in Addr, Real(p, o)
  PROVE  MemView'[Base(p) + o] = disk'[p][o]
  <1> USE SizesAssumption
  <1>1. /\ Base(0) = 0 /\ Base(1) = Base(0) + SizeOf(0) /\ Base(2) = Base(1) + SizeOf(1)
        /\ Base(3) = Base(2) + SizeOf(2) /\ Base(4) = Base(3) + SizeOf(3)
        /\ \A q \in Parts : SizeOf(q) \in Nat /\ Base(q) \in Nat
    BY BaseType, SizeType DEF TypeOK, Base, TotalSize, Parts
  <1>2. /\ SizeOf(0) \in Nat /\ SizeOf(1) \in Nat /\ SizeOf(2) \in Nat /\ SizeOf(3) \in Nat
        /\ o \in Nat /\ o < SizeOf(p) /\ Base(p) + o < FLASH_SIZE
        /\ p = 0 \/ p = 1 \/ p = 2 \/ p = 3
    BY <1>1 DEF Real, Addr, Parts
  <1>3. Base(p) + o \in Addr BY <1>1, <1>2 DEF Addr
  <1>4. /\ Base(1)' = Base(1) /\ Base(2)' = Base(2) /\ Base(3)' = Base(3)
        /\ Base(4)' = Base(4)
    BY Geometry
  <1>5. CASE p = 0 BY <1>1, <1>2, <1>3, <1>4, <1>5 DEF MemView, SectorAt
  <1>6. CASE p = 1 BY <1>1, <1>2, <1>3, <1>4, <1>6 DEF MemView, SectorAt
  <1>7. CASE p = 2 BY <1>1, <1>2, <1>3, <1>4, <1>7 DEF MemView, SectorAt
  <1>8. CASE p = 3 BY <1>1, <1>2, <1>3, <1>4, <1>8 DEF MemView, SectorAt
  <1> QED BY <1>2, <1>5, <1>6, <1>7, <1>8

\* Writing one sector of a partition writes one sector of the linear flash.
LEMMA MemWrite ==
  ASSUME TypeOK, dev' = dev, NEW p \in Parts, NEW o \in Addr, Real(p, o),
         NEW v, disk' = [disk EXCEPT ![p][o] = v]
  PROVE  MemView' = [MemView EXCEPT ![Base(p) + o] = v]
  <1>1. \A q \in Parts, u \in Addr : disk'[q][u] = IF q = p /\ u = o THEN v ELSE disk[q][u]
    BY DEF TypeOK, Content
  <1>2. Base(p) + o \in Addr BY MemAt
  <1>3. ASSUME NEW a \in Addr
        PROVE  MemView'[a] = IF a = Base(p) + o THEN v ELSE MemView[a]
    <2>1. CASE a < TotalSize
      <3>1. PICK q \in Parts, u \in Addr : Real(q, u) /\ Base(q) + u = a
        BY <2>1, Home
      <3>2. MemView[a] = disk[q][u] BY <3>1, MemAt
      <3>3. MemView'[a] = disk'[q][u] BY <3>1, NextMemAt
      <3>4. a = Base(p) + o => q = p /\ u = o
        BY <3>1, OneHome DEF Real, TypeOK
      <3> QED BY <1>1, <3>1, <3>2, <3>3, <3>4
    <2>2. CASE ~ (a < TotalSize)
      <3>1. /\ Base(4) = TotalSize /\ TotalSize \in Nat
            /\ Base(1) \in Nat /\ Base(1) <= Base(4) /\ Base(2) \in Nat /\ Base(2) <= Base(4)
            /\ Base(3) \in Nat /\ Base(3) <= Base(4)
        BY SizeType DEF TypeOK, Base, TotalSize, Parts
      <3>2. /\ Base(1)' = Base(1) /\ Base(2)' = Base(2) /\ Base(3)' = Base(3)
            /\ Base(4)' = Base(4)
        BY Geometry
      <3>3. a \in Nat /\ o \in Nat BY SizesAssumption DEF Addr
      <3>4. MemView'[a] = ZERO /\ MemView[a] = ZERO
        BY <2>2, <3>1, <3>2, <3>3 DEF MemView, SectorAt
      <3>5. Base(p) + o < TotalSize
        <4>1. Base(p) + SizeOf(p) <= TotalSize /\ Base(p) \in Nat /\ SizeOf(p) \in Nat
          BY BaseType, SizeType DEF TypeOK
        <4> QED BY <3>1, <3>3, <4>1 DEF Real
      <3> QED BY <2>2, <3>4, <3>5
    <2> QED BY <2>1, <2>2
  <1> QED BY <1>2, <1>3 DEF MemView

\* Between commands nothing is wanted.
LEMMA IdleWant == ASSUME pc = "idle" PROVE WantView = NoWant
  <1>1. {a \in Addr : /\ pc # "idle" /\ call.cmd = "write"
                      /\ a >= call.offset /\ a < call.offset + call.len} = {}
    OBVIOUS
  <1> QED BY <1>1 DEF WantView, NoWant

LEMMA NextIdleWant == ASSUME pc' = "idle" PROVE WantView' = NoWant
  <1>1. {a \in Addr : /\ pc' # "idle" /\ call'.cmd = "write"
                      /\ a >= call'.offset /\ a < call'.offset + call'.len} = {}
    OBVIOUS
  <1> QED BY <1>1 DEF WantView, NoWant

LEMMA BackupWant == ASSUME call.cmd = "backup" PROVE WantView = NoWant
  <1>1. {a \in Addr : /\ pc # "idle" /\ call.cmd = "write"
                      /\ a >= call.offset /\ a < call.offset + call.len} = {}
    OBVIOUS
  <1> QED BY <1>1 DEF WantView, NoWant

\* The actions of LinearFlash, over the mapping.
LEMMA ViewBegin ==
  ASSUME ~ BusyView, BusyView', ResView' = "none", DOMAIN WantView' \subseteq Addr,
         \A a \in DOMAIN WantView' : WantView'[a] \in Cell,
         MemView' = MemView, file'.complete = file.complete, BackupView' = BackupView
  PROVE  Linear!Begin
  BY DEF Linear!Begin, BusyView, ResView, WantView, BackupView

LEMMA ViewFail ==
  ASSUME BusyView, ~ BusyView', ResView' = "failed", WantView' = NoWant,
         MemView' = MemView, file'.complete = file.complete, BackupView' = BackupView
  PROVE  Linear!Fail
  BY DEF Linear!Fail, Linear!Nothing, BusyView, ResView, WantView, BackupView, NoWant

LEMMA ViewRefused ==
  ASSUME ~ BusyView, BusyView' = BusyView, ResView' = "failed", WantView' = WantView,
         MemView' = MemView, file'.complete = file.complete, BackupView' = BackupView
  PROVE  Linear!Refused
  BY DEF Linear!Refused, BusyView, ResView, WantView, BackupView

LEMMA ViewDamage ==
  ASSUME BusyView, BusyView' = BusyView, ResView' = ResView, WantView' = WantView,
         NEW a \in DOMAIN WantView, MemView' = [MemView EXCEPT ![a] = ERASED],
         file'.complete = file.complete, BackupView' = BackupView
  PROVE  Linear!Damage
  BY DEF Linear!Damage, BusyView, ResView, WantView, BackupView

LEMMA ViewLand ==
  ASSUME BusyView, BusyView' = BusyView, ResView' = ResView, WantView' = WantView,
         NEW a \in DOMAIN WantView, MemView' = [MemView EXCEPT ![a] = WantView[a]],
         file'.complete = file.complete, BackupView' = BackupView
  PROVE  Linear!Land
  BY DEF Linear!Land, BusyView, ResView, WantView, BackupView

LEMMA ViewWriteDone ==
  ASSUME BusyView, ~ BusyView', ResView' = "ok", WantView' = NoWant,
         \A a \in DOMAIN WantView : MemView[a] = WantView[a],
         MemView' = MemView, file'.complete = file.complete, BackupView' = BackupView
  PROVE  Linear!WriteDone
  BY DEF Linear!WriteDone, Linear!Nothing, BusyView, ResView, WantView, BackupView, NoWant

LEMMA ViewBackupDone ==
  ASSUME BusyView, ~ BusyView', ResView' = "ok", WantView = NoWant, WantView' = NoWant,
         ~ file.complete, file'.complete, BackupView' = MemView, MemView' = MemView
  PROVE  Linear!BackupDone
  BY DEF Linear!BackupDone, Linear!Nothing, BusyView, ResView, WantView, BackupView, NoWant

LEMMA ViewLose ==
  ASSUME ~ BusyView', ResView' = IF BusyView THEN "failed" ELSE ResView, WantView' = NoWant,
         ~ file'.complete, BackupView' = [a \in Addr |-> ERASED], MemView' = MemView
  PROVE  Linear!Lose
  BY DEF Linear!Lose, Linear!Nothing, BusyView, ResView, WantView, BackupView, NoWant

LEMMA ViewStutter ==
  ASSUME BusyView' = BusyView, ResView' = ResView, WantView' = WantView,
         MemView' = MemView, file'.complete = file.complete, BackupView' = BackupView
  PROVE  UNCHANGED Linear!lvars
  BY DEF Linear!lvars, BusyView, ResView, WantView, BackupView

-----------------------------------------------------------------------------
(* Each step is a step of the linear flash, or none *)

LEMMA RefInit == ASSUME Init PROVE Linear!LInit
  <1>1. TypeOK BY InitInv DEF IInv
  <1>2. MemView \in [Addr -> Cell] BY <1>1, MemType
  <1>3. WantView = NoWant BY IdleWant DEF Init
  <1>4. pc = "idle" /\ ret = "none" /\ file.complete = FALSE BY DEF Init, NoFile
  <1> QED BY <1>2, <1>3, <1>4 DEF Linear!LInit, Linear!Nothing, WantView, NoWant

LEMMA RefCommands ==
  ASSUME IInv, JInv, IInv', Commands PROVE Linear!Begin \/ Linear!Refused
  <1> USE SizesAssumption
  <1>1. MemView' = MemView BY CommandCases, MemKept
  <1>2. file.complete => file.exists BY DEF JInv, FileInv
  <1>3. file.complete \in BOOLEAN BY DEF IInv, TypeOK
  <1>4. file' = file \/ (~ file.complete /\ file'.complete = FALSE)
    BY <1>2, CommandCases
  <1>5. file'.complete = file.complete BY <1>3, <1>4
  <1>6. BackupView' = BackupView BY <1>4, <1>5 DEF BackupView
  <1>7. CASE pc' = "idle" /\ ret' \in Results \ {"ok", "none"}
    <2>1. ResView' = "failed" BY <1>7 DEF ResView
    <2>2. WantView' = WantView BY <1>7, CommandCases, IdleWant, NextIdleWant
    <2>3. ~ BusyView /\ BusyView' = BusyView BY <1>7, CommandCases DEF BusyView
    <2> QED BY <1>1, <1>5, <1>6, <2>1, <2>2, <2>3, ViewRefused
  <1>8. CASE pc' = "part"
    <2>1. ~ BusyView /\ BusyView' /\ ResView' = "none"
      BY <1>8, CommandCases DEF BusyView, ResView
    <2>2. DOMAIN WantView' \subseteq Addr BY DEF WantView
    <2>3. ASSUME NEW a \in DOMAIN WantView' PROVE WantView'[a] \in Cell
      <3>1. a \in Addr /\ a >= call'.offset /\ WantView'[a] = call'.data[a - call'.offset]
        BY <2>3 DEF WantView
      <3>2. call'.offset \in Nat /\ call'.data \in [Addr -> Cell] BY DEF IInv, TypeOK
      <3>3. a - call'.offset \in Addr BY <3>1, <3>2 DEF Addr
      <3> QED BY <3>1, <3>2, <3>3
    <2> QED BY <1>1, <1>5, <1>6, <2>1, <2>2, <2>3, ViewBegin
  <1> QED BY <1>7, <1>8, CommandCases

\* While a command runs, what it does to the cache, the loop and an unfinished
\* file is not seen.
LEMMA Unseen ==
  ASSUME UNCHANGED <<dev, disk, call>>, pc # "idle", pc' # "idle",
         file'.complete = file.complete, file' = file \/ ~ file.complete
  PROVE  UNCHANGED Linear!lvars
  <1>1. MemView' = MemView BY MemKept
  <1>2. BusyView' = BusyView /\ ResView' = ResView BY DEF BusyView, ResView
  <1>3. WantView' = WantView BY DEF WantView
  <1>4. BackupView' = BackupView BY DEF BackupView
  <1> QED BY <1>1, <1>2, <1>3, <1>4, ViewStutter

\* A command that gives up has nothing left to write.
LEMMA GivesUp ==
  ASSUME UNCHANGED <<dev, disk, file>>, pc # "idle", pc' = "idle", ret' \in {"open", "io"}
  PROVE  Linear!Fail
  <1>1. MemView' = MemView BY MemKept
  <1>2. BusyView /\ ~ BusyView' /\ ResView' = "failed" BY DEF BusyView, ResView
  <1>3. WantView' = NoWant BY NextIdleWant
  <1>4. BackupView' = BackupView BY DEF BackupView
  <1> QED BY <1>1, <1>2, <1>3, <1>4, ViewFail

LEMMA RefLoop ==
  ASSUME IInv, JInv, SkipPartition \/ OpenPartition \/ WriteBlock \/ Msync \/ ReadPartition
  PROVE  Linear!Fail \/ UNCHANGED Linear!lvars
  <1>1. CASE SkipPartition BY <1>1, Unseen DEF SkipPartition, AfterLoop, storage
  <1>2. CASE OpenPartition
    <2>1. UNCHANGED <<dev, disk, file, call>> /\ pc = "part"
      BY <1>2 DEF OpenPartition, storage
    <2>2. pc' = "block" \/ (pc' = "idle" /\ ret' = "open") BY <1>2 DEF OpenPartition
    <2> QED BY <2>1, <2>2, Unseen, GivesUp
  <1>3. CASE WriteBlock BY <1>3, Unseen DEF WriteBlock
  <1>4. CASE Msync BY <1>4, Unseen DEF Msync, NextPartition, AfterLoop, storage
  <1>5. CASE ReadPartition
    <2>1. UNCHANGED <<dev, disk, call>> /\ pc = "block" /\ pc' # "idle" /\ call.cmd = "backup"
      BY <1>5 DEF ReadPartition, NextPartition, AfterLoop, storage
    <2>2. ~ file.complete BY <2>1 DEF JInv, FileInv
    <2>3. file'.complete = file.complete BY <1>5 DEF ReadPartition, IInv, TypeOK
    <2> QED BY <2>1, <2>2, <2>3, Unseen
  <1> QED BY <1>1, <1>2, <1>3, <1>4, <1>5

\* Ok means that the linear flash holds the range, or the file the linear flash.
LEMMA RefFinish ==
  ASSUME IInv, JInv, Finish PROVE Linear!WriteDone \/ Linear!BackupDone
  <1> USE SizesAssumption
  <1>1. /\ UNCHANGED <<dev, disk, call>> /\ pc \in {"sync", "done"}
        /\ pc' = "idle" /\ ret' = "ok"
        /\ file' = [file EXCEPT !.complete = @ \/ call.cmd = "backup"]
    BY DEF Finish, storage
  <1>2. dirty = {} BY <1>1 DEF IInv, DirtyInv
  <1>3. MemView' = MemView BY <1>1, MemKept
  <1>4. BusyView /\ ~ BusyView' /\ ResView' = "ok" BY <1>1 DEF BusyView, ResView
  <1>5. WantView' = NoWant BY <1>1, NextIdleWant
  <1>6. /\ call.offset \in Nat /\ call.len \in Nat
        /\ call.offset + call.len <= TotalSize /\ TotalSize \in Nat
        /\ written = call.len /\ Copied = call.len
    BY <1>1, AccessFits, SizeType DEF IInv, TypeOK, LoopInv, Copied
  <1>7. CASE call.cmd = "write"
    <2>1. file.complete \in BOOLEAN BY DEF IInv, TypeOK
    <2>2. file'.complete = file.complete /\ file'.data = file.data
      BY <1>1, <1>7, <2>1 DEF IInv, TypeOK
    <2>3. BackupView' = BackupView BY <2>2 DEF BackupView
    <2>4. ASSUME NEW a \in DOMAIN WantView PROVE MemView[a] = WantView[a]
      <3>1. /\ a \in Addr /\ a >= call.offset /\ a < call.offset + call.len
            /\ WantView[a] = call.data[a - call.offset]
        BY <2>4 DEF WantView
      <3>2. a < TotalSize BY <1>6, <3>1 DEF Addr
      <3>3. PICK p \in Parts, o \in Addr : Real(p, o) /\ Base(p) + o = a
        BY <3>1, <3>2, Home DEF IInv
      <3>4. MemView[a] = disk[p][o] BY <3>3, MemAt DEF IInv
      <3>5. disk[p][o] = cache[p][o] BY <1>2 DEF IInv, DirtyInv
      <3>6. InCall(p, o) BY <3>1, <3>3 DEF InCall
      <3>7. cache[p][o] = Wanted(p, o)
        BY <1>1, <1>6, <1>7, <3>1, <3>3, <3>6 DEF IInv, CacheInv
      <3>8. Wanted(p, o) = call.data[a - call.offset]
        <4>1. Base(p) \in Nat /\ o \in Nat BY BaseType DEF IInv, TypeOK, Addr
        <4> QED BY <1>6, <3>3, <4>1 DEF Wanted
      <3> QED BY <3>1, <3>4, <3>5, <3>7, <3>8
    <2> QED BY <1>3, <1>4, <1>5, <2>2, <2>3, <2>4, ViewWriteDone
  <1>8. CASE call.cmd = "backup"
    <2>1. WantView = NoWant BY <1>8, BackupWant
    <2>2. ~ file.complete /\ call.offset = 0 /\ call.len = FLASH_SIZE
      BY <1>1, <1>8 DEF JInv, FileInv
    <2>3. file'.complete = (file.complete \/ call.cmd = "backup") /\ file'.data = file.data
      BY <1>1 DEF IInv, TypeOK
    <2>4. file'.complete BY <1>8, <2>3
    <2>5. ASSUME NEW a \in Addr PROVE file.data[a] = MemView[a]
      <3>1. a \in Nat /\ a < FLASH_SIZE /\ a < TotalSize BY <1>6, <2>2 DEF Addr
      <3>2. PICK p \in Parts, o \in Addr : Real(p, o) /\ Base(p) + o = a
        BY <3>1, Home DEF IInv
      <3>3. MemView[a] = disk[p][o] BY <3>2, MemAt DEF IInv
      <3>4. disk[p][o] = cache[p][o] BY <1>2 DEF IInv, DirtyInv
      <3>5. file.data[a] = cache[p][o]
        BY <1>1, <1>6, <1>8, <2>2, <3>1, <3>2 DEF JInv, FileInv
      <3> QED BY <3>3, <3>4, <3>5
    <2>6. file.data \in [Addr -> Cell] /\ MemView \in [Addr -> Cell]
      BY MemType DEF IInv, TypeOK
    <2>7. file.data = MemView BY <2>5, <2>6
    <2>8. BackupView' = MemView BY <2>3, <2>4, <2>7 DEF BackupView
    <2> QED BY <1>3, <1>4, <1>5, <2>1, <2>2, <2>4, <2>8, ViewBackupDone
  <1> QED BY <1>1, <1>7, <1>8 DEF IInv, LoopInv

\* A dirty sector is in the range of the running write, and the cache holds what
\* is wanted there.
LEMMA RefWriteback ==
  ASSUME IInv, JInv, IInv', Writeback PROVE Linear!Damage \/ Linear!Land
  <1> USE SizesAssumption
  <1>1. PICK p \in Parts, o \in Addr : Erase(p, o) \/ Program(p, o)
    BY DEF Writeback
  <1>2. UNCHANGED <<dev, cache, file, call, pc, ret>> /\ <<p, o>> \in dirty
    BY <1>1 DEF Erase, Program
  <1>3. pc = "block" /\ call.cmd = "write" BY <1>2 DEF IInv, DirtyInv
  <1>4. InCall(p, o) /\ Real(p, o) /\ Base(p) + o < call.offset + Copied
    BY <1>2 DEF JInv, TouchInv, Touchable, InCall
  <1>5. BusyView /\ BusyView' = BusyView /\ ResView' = ResView
    BY <1>2, <1>3 DEF BusyView, ResView
  <1>6. WantView' = WantView BY <1>2 DEF WantView
  <1>7. file'.complete = file.complete /\ BackupView' = BackupView
    BY <1>2 DEF BackupView
  <1>8. PICK a : a = Base(p) + o OBVIOUS
  <1>9. a \in Addr BY <1>4, <1>8, MemAt DEF IInv
  <1>10. a \in DOMAIN WantView BY <1>3, <1>4, <1>8, <1>9 DEF WantView, InCall
  <1>11. WantView[a] = Wanted(p, o)
    <2>1. WantView[a] = call.data[a - call.offset] BY <1>10 DEF WantView
    <2>2. Base(p) \in Nat /\ o \in Nat /\ call.offset \in Nat
      BY BaseType DEF IInv, TypeOK, Addr
    <2>3. Wanted(p, o) = call.data[a - call.offset] BY <1>8, <2>2 DEF Wanted
    <2> QED BY <2>1, <2>3
  <1>12. CASE Erase(p, o)
    <2>1. disk' = [disk EXCEPT ![p][o] = ERASED] BY <1>12 DEF Erase
    <2>2. MemView' = [MemView EXCEPT ![a] = ERASED]
      BY <1>2, <1>4, <1>8, <2>1, MemWrite DEF IInv
    <2> QED BY <1>5, <1>6, <1>7, <1>10, <2>2, ViewDamage
  <1>13. CASE Program(p, o)
    <2>1. disk' = [disk EXCEPT ![p][o] = cache[p][o]] BY <1>13 DEF Program
    <2>2. cache[p][o] = WantView[a]
      BY <1>3, <1>4, <1>11 DEF IInv, CacheInv
    <2>3. MemView' = [MemView EXCEPT ![a] = cache[p][o]]
      BY <1>2, <1>4, <1>8, <2>1, MemWrite DEF IInv
    <2>4. MemView' = [MemView EXCEPT ![a] = WantView[a]] BY <2>2, <2>3, Zenon
    <2> QED BY <1>5, <1>6, <1>7, <1>10, <2>4, ViewLand
  <1> QED BY <1>1, <1>12, <1>13

LEMMA RefPowerLoss == ASSUME PowerLoss PROVE Linear!Lose
  <1>1. /\ UNCHANGED <<dev, disk>> /\ pc' = "idle" /\ file' = NoFile
        /\ ret' = IF pc = "idle" THEN ret ELSE "lost"
    BY DEF PowerLoss
  <1>2. MemView' = MemView BY <1>1, MemKept
  <1>3. ~ BusyView' /\ ResView' = IF BusyView THEN "failed" ELSE ResView
    BY <1>1 DEF BusyView, ResView
  <1>4. WantView' = NoWant BY <1>1, NextIdleWant
  <1>5. ~ file'.complete BY <1>1 DEF NoFile
  <1>6. BackupView' = [a \in Addr |-> ERASED] BY <1>5 DEF BackupView
  <1> QED BY <1>2, <1>3, <1>4, <1>5, <1>6, ViewLose

LEMMA RefStutter == ASSUME UNCHANGED vars PROVE UNCHANGED Linear!lvars
  <1>1. UNCHANGED <<dev, disk, file, call, pc, ret>> BY DEF vars, storage
  <1>2. MemView' = MemView BY <1>1, MemKept
  <1>3. BusyView' = BusyView /\ ResView' = ResView BY <1>1 DEF BusyView, ResView
  <1>4. WantView' = WantView BY <1>1 DEF WantView
  <1>5. BackupView' = BackupView BY <1>1 DEF BackupView
  <1> QED BY <1>1, <1>2, <1>3, <1>4, <1>5, ViewStutter

LEMMA RefNext ==
  ASSUME IInv, JInv, IInv', [Next]_vars PROVE [Linear!LNext]_(Linear!lvars)
  <1>1. CASE Commands BY <1>1, RefCommands DEF Linear!LNext
  <1>2. CASE SkipPartition \/ OpenPartition \/ WriteBlock \/ Msync \/ ReadPartition
    BY <1>2, RefLoop DEF Linear!LNext
  <1>3. CASE Finish BY <1>3, RefFinish DEF Linear!LNext
  <1>4. CASE MsyncFails
    <2>1. UNCHANGED <<dev, disk, file>> /\ pc = "block" /\ pc' = "idle" /\ ret' = "io"
      BY <1>4 DEF MsyncFails
    <2> QED BY <2>1, GivesUp DEF Linear!LNext
  <1>5. CASE Writeback BY <1>5, RefWriteback DEF Linear!LNext
  <1>6. CASE PowerLoss BY <1>6, RefPowerLoss DEF Linear!LNext
  <1>7. CASE UNCHANGED vars BY <1>7, RefStutter
  <1> QED BY <1>1, <1>2, <1>3, <1>4, <1>5, <1>6, <1>7 DEF Next, Progress

\* Whatever the partition table, the page cache and the kernel's order of writing,
\* Flash::write, Flash::backup and a power loss look to a caller like the same
\* operations on one linear flash: LinearFlash with the mapping of module Flash.
THEOREM ImplementsLinearFlash == Spec => LinearSpec
  <1>1. Init => Linear!LInit BY RefInit
  <1>2. IInv /\ JInv /\ IInv' /\ [Next]_vars => [Linear!LNext]_(Linear!lvars)
    BY RefNext
  <1> QED BY <1>1, <1>2, Inductive, MoreInductive, PTL DEF Spec, LinearSpec, Linear!LSpec
=============================================================================
