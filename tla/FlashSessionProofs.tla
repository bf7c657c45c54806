--------------------------- MODULE FlashSessionProofs ---------------------------
(***************************************************************************)
(* What holds of FlashSession for every size of the flash, every number of *)
(* sessions and every set of images.                                       *)
(*                                                                         *)
(* OriginalSafe rests on what is true as long as the host has no complete  *)
(* copy of the device as it came: no flash process has been started, so    *)
(* the flash is untouched (Untouched), and the file that a download would  *)
(* fetch holds what the flash held (BackupInv).  Once there is such a copy *)
(* no session overwrites it (HostInv).                                     *)
(*                                                                         *)
(* SuccessMeansFlashed rests on /tmp/fw.bin: from the end of the upload on *)
(* it is the image of the current session (FwInv), so that every flash     *)
(* process, whichever session started it, writes that image (FlashedInv).  *)
(***************************************************************************)
EXTENDS FlashSession, TLAPS, SequenceTheorems

Steps == {"none", "rm", "backup", "backing_up", "download", "rm_again", "upload",
          "uploading", "remount", "flash", "flashing", "success"}
Cells == Images \cup {Orig, Live, Hole, Bad}
Process == [st : {"none", "start", "create", "copy", "ok", "dead"},
            file : 0 .. MaxSessions, pos : 0 .. Sectors]
Flashes == [1 .. Sectors -> Cells]
Files == Flashes \cup {<<>>}

\* A session that has not got its backup yet, and one that has.
Before == {"rm", "backup", "backing_up", "download"}
After == {"rm_again", "upload", "uploading", "remount", "flash", "flashing", "success"}

HostShape ==
  /\ n \in 0 .. MaxSessions
  /\ step \in Steps
  /\ step # "none" => n # 0
  /\ img \in [Sessions -> Images]
  /\ host \in [Sessions -> Seq(Cells)]

FlashShape ==
  /\ chip \in Flashes
  /\ ro \in BOOLEAN
  /\ fw \in Seq(Images) /\ Len(fw) <= Sectors

FileShape ==
  /\ bfile \in [Sessions -> Files]
  /\ link \in 0 .. MaxSessions
  /\ link # NoSession => bfile[link] \in Flashes

BackupShape ==
  /\ bp \in [Sessions -> Process]
  /\ \A s \in Sessions : bp[s].st = "copy" =>
       /\ bp[s].pos # 0 /\ bp[s].file # NoSession
       /\ bfile[bp[s].file] \in Flashes

ProcessShape ==
  /\ fp \in [Sessions -> Process]
  /\ \A s \in Sessions : fp[s].st = "copy" => fp[s].pos # 0

Shape == HostShape /\ FlashShape /\ FileShape /\ BackupShape /\ ProcessShape

SafeCopy(s) == Len(host[s]) = Sectors /\ \A x \in 1 .. Sectors : Old(host[s][x])
Saved == \E s \in Sessions : SafeCopy(s)

\* The host overwrites no copy: a session has none before its download.
HostInv ==
  /\ \A s \in Sessions : s > n => host[s] = <<>>
  /\ step \in Before => host[n] = <<>>

Untouched ==
  ~Saved =>
    /\ \A x \in 1 .. Sectors : Old(chip[x])
    /\ \A s \in Sessions : ~Running(fp[s])
    /\ step \notin After

\* The file at /tmp/backup.bin is the one that the backup of the session has filled.
BackupInv ==
  /\ step = "download" => bp[n].st = "ok"
  /\ step \in {"backing_up", "download"} =>
       /\ bp[n].st = "copy" =>
            /\ link # NoSession /\ link = bp[n].file
            /\ Saved \/ \A x \in 1 .. bp[n].pos - 1 : Old(bfile[link][x])
       /\ bp[n].st = "ok" =>
            /\ link # NoSession
            /\ Saved \/ \A x \in 1 .. Sectors : Old(bfile[link][x])

FwInv ==
  /\ step \in {"uploading", "remount", "flash", "flashing", "success"} =>
       \A x \in 1 .. Len(fw) : fw[x] = img[n]
  /\ step = "uploading" => Len(fw) < Sectors
  /\ step \in {"remount", "flash", "flashing", "success"} => Len(fw) = Sectors

Flashed(x) == chip[x] = img[n] \/ (x = Persist /\ ~ro)

FlashedInv ==
  /\ step = "flashing" =>
       /\ fp[n].st = "copy" => \A x \in 1 .. fp[n].pos - 1 : Flashed(x)
       /\ fp[n].st = "ok" => \A x \in 1 .. Sectors : Flashed(x)
  /\ step = "success" => \A x \in 1 .. Sectors : Flashed(x)

IInv == Shape /\ HostInv /\ Untouched /\ BackupInv /\ FwInv /\ FlashedInv

-----------------------------------------------------------------------------
(* Operators. *)

LEMMA FlashIsSeq ==
    ASSUME NEW f \in Flashes
    PROVE  f \in Seq(Cells) /\ Len(f) = Sectors
<1>1. f \in Seq(Cells)
  BY SeqDef, SectorsAssumption DEF Flashes
<1>2. QED
  BY <1>1, LenProperties, SectorsAssumption DEF Flashes

\* What a download leaves when the connection breaks.
LEMMA CutIsSeq ==
    ASSUME NEW f \in Flashes, NEW m \in 0 .. Sectors - 1
    PROVE  SubSeq(f, 1, m) \in Seq(Cells)
BY FlashIsSeq, SubSeqProperties, SectorsAssumption

LEMMA StateSet ==
    ASSUME NEW p \in Process, NEW q,
           NEW v \in {"none", "start", "create", "copy", "ok", "dead"}, q = [p EXCEPT !.st = v]
    PROVE  q \in Process /\ q.st = v /\ q.file = p.file /\ q.pos = p.pos
BY DEF Process

LEMMA IdleIsProcess ==
    ASSUME NEW v \in {"none", "start", "create", "copy", "ok", "dead"}
    PROVE  [Idle EXCEPT !.st = v] \in Process /\ [Idle EXCEPT !.st = v].st = v
BY SectorsAssumption, BoundsAssumption DEF Process, Idle, NoSession

LEMMA PosAdvances ==
    ASSUME NEW p \in Process, NEW q, p.pos # Sectors, q = [p EXCEPT !.pos = p.pos + 1]
    PROVE  q \in Process /\ q.st = p.st /\ q.file = p.file /\ q.pos = p.pos + 1
BY SectorsAssumption DEF Process

LEMMA PosStarts ==
    ASSUME NEW p \in Process, NEW q, q = [p EXCEPT !.st = "copy", !.pos = 1]
    PROVE  q \in Process /\ q.st = "copy" /\ q.pos = 1
<1>1. q = [st |-> "copy", file |-> p.file, pos |-> 1]
  BY DEF Process
<1>2. QED BY <1>1, SectorsAssumption DEF Process

LEMMA NoSessionRange == 0 \in 0 .. MaxSessions
BY BoundsAssumption

LEMMA HostKept == ASSUME UNCHANGED host PROVE Saved' <=> Saved
BY DEF Saved, SafeCopy

\* A step is always one of a session that was started.
LEMMA CurrentSession ==
    ASSUME HostShape, step # "none"
    PROVE  n \in Sessions
BY BoundsAssumption DEF HostShape, Sessions

LEMMA InitInv == Init => IInv
<1> SUFFICES ASSUME Init PROVE IInv
  OBVIOUS
<1> USE SectorsAssumption, BoundsAssumption DEF Init
<1>1. FlashShape
  <2>1. chip \in Flashes
    BY DEF Flashes, Cells
  <2>2. fw \in Seq(Images) /\ Len(fw) = 0
    BY EmptySeq
  <2>3. ro \in BOOLEAN
    OBVIOUS
  <2>4. QED BY <2>1, <2>2, <2>3 DEF FlashShape
<1>2. HostShape
  BY EmptySeq DEF HostShape, Steps
<1>3. FileShape
  BY DEF FileShape, NoSession, Files
<1>4. BackupShape /\ ProcessShape
  BY DEF BackupShape, ProcessShape, Process, Idle, NoSession
<1>5. HostInv /\ BackupInv /\ FwInv /\ FlashedInv
  BY DEF HostInv, BackupInv, FwInv, FlashedInv, Before
<1>6. Untouched
  BY DEF Untouched, Old, Running, Idle, After
<1>7. QED BY <1>1, <1>2, <1>3, <1>4, <1>5, <1>6 DEF IInv, Shape

LEMMA StartSessionStep ==
    ASSUME IInv, StartSession
    PROVE  IInv'
<1> USE SectorsAssumption, BoundsAssumption DEF StartSession, device
<1>1. /\ HostShape /\ FlashShape /\ FileShape /\ BackupShape /\ ProcessShape
      /\ HostInv /\ Untouched /\ BackupInv /\ FwInv /\ FlashedInv
  BY DEF IInv, Shape
<1>2. Saved <=> Saved'
  BY HostKept
<1>3. HostShape' /\ FlashShape' /\ FileShape' /\ BackupShape' /\ ProcessShape'
  BY <1>1 DEF HostShape, Steps, Sessions, FlashShape, FileShape, NoSession,
     BackupShape, ProcessShape
<1>4. HostInv' /\ Untouched' /\ BackupInv' /\ FwInv' /\ FlashedInv'
  BY <1>1, <1>2 DEF HostShape, HostInv, Before, Sessions, Untouched, Old, Running,
     After, BackupInv, NoSession, FwInv, FlashedInv, Flashed
<1>5. QED BY <1>3, <1>4 DEF IInv, Shape

LEMMA RemoveBackupStep ==
    ASSUME IInv, RemoveBackup
    PROVE  IInv'
<1> USE SectorsAssumption, BoundsAssumption DEF RemoveBackup, Goto
<1>1. /\ HostShape /\ FlashShape /\ FileShape /\ BackupShape /\ ProcessShape
      /\ HostInv /\ Untouched /\ BackupInv /\ FwInv /\ FlashedInv
  BY DEF IInv, Shape
<1>2. Saved <=> Saved'
  BY HostKept
<1>3. HostShape' /\ FlashShape' /\ BackupShape' /\ ProcessShape'
  BY <1>1 DEF HostShape, Steps, FlashShape, BackupShape, ProcessShape
<1>4. FileShape'
  BY <1>1, NoSessionRange, Zenon DEF FileShape, NoSession
<1>5. HostInv' /\ Untouched' /\ BackupInv' /\ FwInv' /\ FlashedInv'
  BY <1>1, <1>2 DEF HostShape, HostInv, Before, Sessions, Untouched, Old, Running,
     After, BackupInv, NoSession, FwInv, FlashedInv, Flashed
<1>6. QED BY <1>3, <1>4, <1>5 DEF IInv, Shape

LEMMA ExecBackupStep ==
    ASSUME IInv, ExecBackup
    PROVE  IInv'
<1> USE SectorsAssumption, BoundsAssumption DEF ExecBackup, Goto
<1>1. /\ HostShape /\ FlashShape /\ FileShape /\ BackupShape /\ ProcessShape
      /\ HostInv /\ Untouched /\ BackupInv /\ FwInv /\ FlashedInv
  BY DEF IInv, Shape
<1>0. n \in Sessions /\ bp[n] \in Process
  BY <1>1, CurrentSession DEF BackupShape
<1>2. Saved <=> Saved'
  BY HostKept
<1>3. HostShape' /\ FlashShape' /\ FileShape' /\ ProcessShape'
  BY <1>1 DEF HostShape, Steps, FlashShape, FileShape, NoSession, ProcessShape
<1>4. BackupShape'
  <2>1. bp'[n] \in Process /\ bp'[n].st = "start"
    BY <1>0, <1>1, StateSet DEF BackupShape
  <2>2. QED BY <1>0, <1>1, <2>1 DEF BackupShape
<1>5. HostInv' /\ Untouched' /\ FwInv' /\ FlashedInv'
  BY <1>1, <1>2 DEF HostShape, HostInv, Before, Sessions, Untouched, Old, Running,
     After, FwInv, FlashedInv, Flashed
<1>6. BackupInv'
  <2>1. bp'[n'].st = "start"
    BY <1>0, <1>1, StateSet DEF BackupShape
  <2>2. QED BY <2>1 DEF BackupInv
<1>7. QED BY <1>3, <1>4, <1>5, <1>6 DEF IInv, Shape

LEMMA BackupStatusStep ==
    ASSUME IInv, BackupStatus
    PROVE  IInv'
<1> USE SectorsAssumption, BoundsAssumption DEF BackupStatus, device, Goto
<1>1. /\ HostShape /\ FlashShape /\ FileShape /\ BackupShape /\ ProcessShape
      /\ HostInv /\ Untouched /\ BackupInv /\ FwInv /\ FlashedInv
  BY DEF IInv, Shape
<1>2. Saved <=> Saved'
  BY HostKept
<1>3. HostShape' /\ FlashShape' /\ FileShape' /\ BackupShape' /\ ProcessShape'
  BY <1>1 DEF HostShape, Steps, FlashShape, FileShape, NoSession, BackupShape,
     ProcessShape
<1>4. HostInv' /\ Untouched' /\ BackupInv' /\ FwInv' /\ FlashedInv'
  BY <1>1, <1>2 DEF HostShape, HostInv, Before, Sessions, Untouched, Old, Running,
     After, BackupInv, NoSession, FwInv, FlashedInv, Flashed
<1>5. QED BY <1>3, <1>4 DEF IInv, Shape

LEMMA DownloadStep ==
    ASSUME IInv, Download
    PROVE  IInv'
<1> USE SectorsAssumption, BoundsAssumption DEF Download, device, Goto
<1>1. /\ HostShape /\ FlashShape /\ FileShape /\ BackupShape /\ ProcessShape
      /\ HostInv /\ Untouched /\ BackupInv /\ FwInv /\ FlashedInv
  BY DEF IInv, Shape
<1>0. n \in Sessions /\ host[n] = <<>>
  BY <1>1, CurrentSession DEF HostInv, Before
<1>a. \/ UNCHANGED host /\ step' = "none"
      \/ /\ step' = "rm_again" /\ link # NoSession
         /\ host' = [host EXCEPT ![n] = bfile[link]]
         /\ bfile[link] \in Seq(Cells) /\ Len(bfile[link]) = Sectors
  BY <1>1, FlashIsSeq DEF FileShape
<1>b. SafeCopy(n)' \/ Saved \/ step' = "none"
  <2> SUFFICES ASSUME ~Saved, step' # "none" PROVE SafeCopy(n)'
    BY DEF SafeCopy
  <2>1. \A x \in 1 .. Sectors : Old(bfile[link][x])
    BY <1>1 DEF BackupInv
  <2>2. host'[n] = bfile[link] /\ n' = n
    BY <1>0, <1>1, <1>a DEF HostShape
  <2>3. QED BY <1>a, <2>1, <2>2 DEF SafeCopy
<1>2. Saved => Saved'
  <2> SUFFICES ASSUME NEW t \in Sessions, SafeCopy(t) PROVE SafeCopy(t)'
    BY DEF Saved
  <2>1. t # n
    BY <1>0, EmptySeq DEF SafeCopy
  <2>2. QED BY <1>1, <1>a, <2>1 DEF HostShape, SafeCopy
<1>3. FlashShape' /\ FileShape' /\ BackupShape' /\ ProcessShape'
  BY <1>1 DEF FlashShape, FileShape, NoSession, BackupShape, ProcessShape
<1>4. HostShape'
  BY <1>0, <1>1, <1>a DEF HostShape, Steps
<1>5. BackupInv' /\ FwInv' /\ FlashedInv'
  BY <1>1, <1>2 DEF HostShape, BackupInv, NoSession, FwInv, FlashedInv, Flashed
<1>6. HostInv'
  <2>1. \A t \in Sessions : t # n => host'[t] = host[t]
    BY <1>0, <1>1, <1>a DEF HostShape
  <2>2. step' \notin Before /\ n' = n
    BY DEF Before
  <2>3. ASSUME NEW t \in Sessions, t > n
        PROVE  host'[t] = <<>>
    <3>1. t # n
      BY <1>0, <2>3 DEF Sessions
    <3>2. QED BY <1>1, <2>1, <2>3, <3>1 DEF HostInv
  <2>4. QED BY <2>2, <2>3 DEF HostInv
<1>7. Untouched'
  <2>1. SafeCopy(n)' => Saved'
    BY <1>0 DEF Saved, SafeCopy
  <2>2. UNCHANGED <<chip, fp>>
    OBVIOUS
  <2>3. Saved' \/ (step' = "none" /\ ~Saved)
    BY <1>2, <1>b, <2>1
  <2>4. QED BY <1>1, <2>2, <2>3 DEF Untouched, Old, Running, After
<1>8. QED BY <1>3, <1>4, <1>5, <1>6, <1>7 DEF IInv, Shape

LEMMA UploadOpenStep ==
    ASSUME IInv, UploadOpen
    PROVE  IInv'
<1> USE SectorsAssumption, BoundsAssumption DEF UploadOpen, Goto
<1>1. /\ HostShape /\ FlashShape /\ FileShape /\ BackupShape /\ ProcessShape
      /\ HostInv /\ Untouched /\ BackupInv /\ FwInv /\ FlashedInv
  BY DEF IInv, Shape
<1>2. Saved <=> Saved'
  BY HostKept
<1>3. HostShape' /\ FlashShape' /\ FileShape' /\ BackupShape' /\ ProcessShape'
  BY <1>1 DEF HostShape, Steps, FlashShape, FileShape, NoSession, BackupShape,
     ProcessShape
<1>4. HostInv' /\ Untouched' /\ BackupInv' /\ FwInv' /\ FlashedInv'
  BY <1>1, <1>2 DEF HostShape, HostInv, Before, Sessions, Untouched, Old, Running,
     After, BackupInv, NoSession, FwInv, FlashedInv, Flashed
<1>5. QED BY <1>3, <1>4 DEF IInv, Shape

LEMMA UploadBlockStep ==
    ASSUME IInv, UploadBlock
    PROVE  IInv'
<1> USE SectorsAssumption, BoundsAssumption DEF UploadBlock, Goto
<1>1. /\ HostShape /\ FlashShape /\ FileShape /\ BackupShape /\ ProcessShape
      /\ HostInv /\ Untouched /\ BackupInv /\ FwInv /\ FlashedInv
  BY DEF IInv, Shape
<1>0. n \in Sessions /\ img[n] \in Images /\ Len(fw) < Sectors
  BY <1>1, CurrentSession DEF HostShape, FwInv
<1>a. fw' \in Seq(Images) /\ Len(fw') = Len(fw) + 1
  BY <1>0, <1>1, AppendProperties DEF FlashShape
<1>2. Saved <=> Saved'
  BY HostKept
<1>3. HostShape' /\ FileShape' /\ BackupShape' /\ ProcessShape'
  BY <1>1 DEF HostShape, Steps, FileShape, NoSession, BackupShape, ProcessShape
<1>4. FlashShape'
  <2>1. Len(fw') <= Sectors
    BY <1>0, <1>1, <1>a, LenProperties DEF FlashShape
  <2>2. QED BY <1>1, <1>a, <2>1 DEF FlashShape
<1>5. HostInv' /\ Untouched' /\ BackupInv' /\ FwInv' /\ FlashedInv'
  BY <1>1, <1>2 DEF HostShape, HostInv, Before, Sessions, Untouched, Old, Running,
     After, BackupInv, NoSession, FwInv, FlashedInv, Flashed
<1>6. QED BY <1>3, <1>4, <1>5 DEF IInv, Shape

LEMMA RemountStep ==
    ASSUME IInv, Remount
    PROVE  IInv'
<1> USE SectorsAssumption, BoundsAssumption DEF Remount, Goto
<1>1. /\ HostShape /\ FlashShape /\ FileShape /\ BackupShape /\ ProcessShape
      /\ HostInv /\ Untouched /\ BackupInv /\ FwInv /\ FlashedInv
  BY DEF IInv, Shape
<1>2. Saved <=> Saved'
  BY HostKept
<1>3. HostShape' /\ FlashShape' /\ FileShape' /\ BackupShape' /\ ProcessShape'
  BY <1>1 DEF HostShape, Steps, FlashShape, FileShape, NoSession, BackupShape,
     ProcessShape
<1>4. HostInv' /\ Untouched' /\ BackupInv' /\ FwInv' /\ FlashedInv'
  BY <1>1, <1>2 DEF HostShape, HostInv, Before, Sessions, Untouched, Old, Running,
     After, BackupInv, NoSession, FwInv, FlashedInv, Flashed
<1>5. QED BY <1>3, <1>4 DEF IInv, Shape

LEMMA ExecFlashStep ==
    ASSUME IInv, ExecFlash
    PROVE  IInv'
<1> USE SectorsAssumption, BoundsAssumption DEF ExecFlash, Goto
<1>1. /\ HostShape /\ FlashShape /\ FileShape /\ BackupShape /\ ProcessShape
      /\ HostInv /\ Untouched /\ BackupInv /\ FwInv /\ FlashedInv
  BY DEF IInv, Shape
<1>0. n \in Sessions /\ fp[n] \in Process
  BY <1>1, CurrentSession DEF ProcessShape
<1>a. fp'[n] \in Process /\ fp'[n].st = "start"
  BY <1>0, <1>1, StateSet DEF ProcessShape
<1>2. Saved <=> Saved'
  BY HostKept
<1>3. HostShape' /\ FlashShape' /\ FileShape' /\ BackupShape'
  BY <1>1 DEF HostShape, Steps, FlashShape, FileShape, NoSession, BackupShape
<1>4. ProcessShape'
  BY <1>0, <1>1, <1>a DEF ProcessShape
<1>5. HostInv' /\ Untouched' /\ BackupInv' /\ FwInv'
  BY <1>1, <1>2 DEF HostShape, HostInv, Before, Sessions, Untouched, Old, Running,
     After, BackupInv, NoSession, FwInv
<1>6. FlashedInv'
  BY <1>a DEF FlashedInv
<1>7. QED BY <1>3, <1>4, <1>5, <1>6 DEF IInv, Shape

LEMMA FlashStatusStep ==
    ASSUME IInv, FlashStatus
    PROVE  IInv'
<1> USE SectorsAssumption, BoundsAssumption DEF FlashStatus, device, Goto
<1>1. /\ HostShape /\ FlashShape /\ FileShape /\ BackupShape /\ ProcessShape
      /\ HostInv /\ Untouched /\ BackupInv /\ FwInv /\ FlashedInv
  BY DEF IInv, Shape
<1>2. Saved <=> Saved'
  BY HostKept
<1>3. HostShape' /\ FlashShape' /\ FileShape' /\ BackupShape' /\ ProcessShape'
  BY <1>1 DEF HostShape, Steps, FlashShape, FileShape, NoSession, BackupShape,
     ProcessShape
<1>4. HostInv' /\ Untouched' /\ BackupInv' /\ FwInv' /\ FlashedInv'
  BY <1>1, <1>2 DEF HostShape, HostInv, Before, Sessions, Untouched, Old, Running,
     After, BackupInv, NoSession, FwInv, FlashedInv, Flashed
<1>5. QED BY <1>3, <1>4 DEF IInv, Shape

LEMMA FinishStep ==
    ASSUME IInv, Finish
    PROVE  IInv'
<1> USE SectorsAssumption, BoundsAssumption DEF Finish, device, Goto
<1>1. /\ HostShape /\ FlashShape /\ FileShape /\ BackupShape /\ ProcessShape
      /\ HostInv /\ Untouched /\ BackupInv /\ FwInv /\ FlashedInv
  BY DEF IInv, Shape
<1>2. Saved <=> Saved'
  BY HostKept
<1>3. HostShape' /\ FlashShape' /\ FileShape' /\ BackupShape' /\ ProcessShape'
  BY <1>1 DEF HostShape, Steps, FlashShape, FileShape, NoSession, BackupShape,
     ProcessShape
<1>4. HostInv' /\ Untouched' /\ BackupInv' /\ FwInv' /\ FlashedInv'
  BY <1>1, <1>2 DEF HostShape, HostInv, Before, Sessions, Untouched, Old, Running,
     After, BackupInv, NoSession, FwInv, FlashedInv, Flashed
<1>5. QED BY <1>3, <1>4 DEF IInv, Shape

LEMMA BreakStep ==
    ASSUME IInv, Break
    PROVE  IInv'
<1> USE SectorsAssumption, BoundsAssumption DEF Break, device, Goto
<1>1. /\ HostShape /\ FlashShape /\ FileShape /\ BackupShape /\ ProcessShape
      /\ HostInv /\ Untouched /\ BackupInv /\ FwInv /\ FlashedInv
  BY DEF IInv, Shape
<1>0. n \in Sessions
  BY <1>1, CurrentSession
<1>a. \/ UNCHANGED host
      \/ /\ host[n] = <<>>
         /\ \E f \in Seq(Cells) : host' = [host EXCEPT ![n] = f]
  BY <1>1, CutIsSeq DEF HostInv, FileShape, Before
<1>2. Saved => Saved'
  <2> SUFFICES ASSUME NEW t \in Sessions, SafeCopy(t) PROVE SafeCopy(t)'
    BY DEF Saved
  <2>1. host'[t] = host[t]
    <3>1. CASE UNCHANGED host
      BY <3>1
    <3>2. CASE host[n] = <<>> /\ \E f \in Seq(Cells) : host' = [host EXCEPT ![n] = f]
      <4>1. t # n
        BY <3>2, EmptySeq DEF SafeCopy
      <4>2. QED BY <1>1, <3>2, <4>1 DEF HostShape
    <3>3. QED BY <1>a, <3>1, <3>2
  <2>2. QED BY <2>1 DEF SafeCopy
<1>3. FlashShape' /\ FileShape' /\ BackupShape' /\ ProcessShape'
  BY <1>1 DEF FlashShape, FileShape, NoSession, BackupShape, ProcessShape
<1>4. HostShape'
  BY <1>0, <1>1, <1>a DEF HostShape, Steps
<1>5. Untouched' /\ BackupInv' /\ FwInv' /\ FlashedInv'
  BY <1>1, <1>2 DEF Untouched, Old, Running, After, HostShape, BackupInv, NoSession,
     FwInv, FlashedInv, Flashed
<1>6. HostInv'
  <2>1. \A t \in Sessions : t # n => host'[t] = host[t]
    BY <1>0, <1>1, <1>a DEF HostShape
  <2>2. step' \notin Before /\ n' = n
    BY DEF Before
  <2>3. ASSUME NEW t \in Sessions, t > n
        PROVE  host'[t] = <<>>
    <3>1. t # n
      BY <1>0, <2>3 DEF Sessions
    <3>2. QED BY <1>1, <2>1, <2>3, <3>1 DEF HostInv
  <2>4. QED BY <2>2, <2>3 DEF HostInv
<1>7. QED BY <1>3, <1>4, <1>5, <1>6 DEF IInv, Shape

LEMMA PersistWriteStep ==
    ASSUME IInv, PersistWrite
    PROVE  IInv'
<1> USE SectorsAssumption, BoundsAssumption DEF PersistWrite, session
<1>1. /\ HostShape /\ FlashShape /\ FileShape /\ BackupShape /\ ProcessShape
      /\ HostInv /\ Untouched /\ BackupInv /\ FwInv /\ FlashedInv
  BY DEF IInv, Shape
<1>2. Saved <=> Saved'
  BY HostKept
<1>3. HostShape' /\ FileShape' /\ BackupShape' /\ ProcessShape'
  BY <1>1 DEF HostShape, Steps, FileShape, NoSession, BackupShape, ProcessShape
<1>4. FlashShape'
  <2>1. chip' \in Flashes
    BY <1>1 DEF FlashShape, Flashes, Cells
  <2>2. QED BY <1>1, <2>1 DEF FlashShape
<1>5. HostInv' /\ BackupInv' /\ FwInv'
  BY <1>1, <1>2 DEF HostShape, HostInv, Before, Sessions, BackupInv, NoSession, FwInv
<1>6. Untouched'
  BY <1>1, <1>2 DEF FlashShape, Flashes, Untouched, Old, Running, After, Live
<1>7. FlashedInv'
  BY <1>1 DEF FlashShape, Flashes, FlashedInv, Flashed
<1>8. QED BY <1>3, <1>4, <1>5, <1>6, <1>7 DEF IInv, Shape

LEMMA RebootStep ==
    ASSUME IInv, Reboot
    PROVE  IInv'
<1> USE SectorsAssumption, BoundsAssumption DEF Reboot, Boot, Goto
<1>1. /\ HostShape /\ FlashShape /\ FileShape /\ BackupShape /\ ProcessShape
      /\ HostInv /\ Untouched /\ BackupInv /\ FwInv /\ FlashedInv
  BY DEF IInv, Shape
<1>2. Saved <=> Saved'
  BY HostKept
<1>3. HostShape'
  BY <1>1 DEF HostShape, Steps
<1>4. FlashShape'
  <2>1. fw' \in Seq(Images) /\ Len(fw') = 0
    BY EmptySeq
  <2>2. ro' \in BOOLEAN
    OBVIOUS
  <2>3. QED BY <1>1, <2>1, <2>2 DEF FlashShape
<1>5. FileShape'
  BY <1>1, NoSessionRange, Zenon DEF FileShape, NoSession
<1>6. BackupShape'
  BY <1>1, IdleIsProcess DEF BackupShape, Running
<1>7. ProcessShape'
  BY <1>1, IdleIsProcess DEF ProcessShape, Running
<1>8. HostInv' /\ Untouched' /\ BackupInv' /\ FwInv' /\ FlashedInv'
  BY <1>1, <1>2 DEF HostShape, HostInv, Before, Sessions, Untouched, Old, Running,
     After, BackupInv, NoSession, FwInv, FlashedInv, Flashed
<1>9. QED BY <1>3, <1>4, <1>5, <1>6, <1>7, <1>8 DEF IInv, Shape

LEMMA PowerLossStep ==
    ASSUME IInv, PowerLoss
    PROVE  IInv'
<1> USE SectorsAssumption, BoundsAssumption DEF PowerLoss, Boot, Goto
<1>1. /\ HostShape /\ FlashShape /\ FileShape /\ BackupShape /\ ProcessShape
      /\ HostInv /\ Untouched /\ BackupInv /\ FwInv /\ FlashedInv
  BY DEF IInv, Shape
<1>2. Saved <=> Saved'
  BY HostKept
<1>3. HostShape'
  BY <1>1 DEF HostShape, Steps
<1>4. FlashShape'
  <2>1. fw' \in Seq(Images) /\ Len(fw') = 0
    BY EmptySeq
  <2>2. ro' \in BOOLEAN
    OBVIOUS
  <2>3. chip' \in Flashes
    BY <1>1 DEF FlashShape, Flashes, Cells
  <2>4. QED BY <1>1, <2>1, <2>2, <2>3 DEF FlashShape
<1>5. FileShape'
  BY <1>1, NoSessionRange, Zenon DEF FileShape, NoSession
<1>6. BackupShape'
  BY <1>1, IdleIsProcess DEF BackupShape, Running
<1>7. ProcessShape'
  BY <1>1, IdleIsProcess DEF ProcessShape, Running
<1>8. HostInv' /\ BackupInv' /\ FwInv' /\ FlashedInv'
  BY <1>1, <1>2 DEF HostShape, HostInv, Before, Sessions, BackupInv, NoSession, FwInv,
     FlashedInv, Flashed
<1>9. Untouched'
  <2> SUFFICES ASSUME ~Saved PROVE Untouched'
    BY <1>2 DEF Untouched
  <2>1. \A t \in Sessions : fp[t].st # "copy" /\ ~Running(fp[t])
    BY <1>1 DEF Untouched, Running
  <2>2. chip' = [x \in 1 .. Sectors |-> chip[x]]
    BY <2>1
  <2>3. QED BY <1>1, <2>1, <2>2 DEF Untouched, Old, Running, After
<1>10. QED BY <1>3, <1>4, <1>5, <1>6, <1>7, <1>8, <1>9 DEF IInv, Shape

LEMMA BackupCheckStep ==
    ASSUME IInv, NEW s \in Sessions, BackupCheck(s)
    PROVE  IInv'
<1> USE SectorsAssumption, BoundsAssumption DEF BackupCheck, session
<1>1. /\ HostShape /\ FlashShape /\ FileShape /\ BackupShape /\ ProcessShape
      /\ HostInv /\ Untouched /\ BackupInv /\ FwInv /\ FlashedInv
  BY DEF IInv, Shape
<1>0. bp'[s] \in Process /\ bp'[s].st \in {"create", "dead"}
  <2>1. bp[s] \in Process /\ \E v \in {"create", "dead"} : bp'[s] = [bp[s] EXCEPT !.st = v]
    BY <1>1 DEF BackupShape
  <2>2. QED BY <2>1, StateSet
<1>2. Saved <=> Saved'
  BY HostKept
<1>3. HostShape' /\ FlashShape' /\ FileShape' /\ ProcessShape'
  BY <1>1 DEF HostShape, Steps, FlashShape, FileShape, NoSession, ProcessShape
<1>4. BackupShape'
  BY <1>0, <1>1 DEF BackupShape
<1>5. HostInv' /\ Untouched' /\ FwInv' /\ FlashedInv'
  BY <1>1, <1>2 DEF HostShape, HostInv, Before, Sessions, Untouched, Old, Running,
     After, FwInv, FlashedInv, Flashed
<1>6. BackupInv'
  <2>1. CASE n = s
    BY <1>0, <1>1, <2>1 DEF BackupInv
  <2>2. CASE n # s /\ step # "none"
    <3>1. bp'[n] = bp[n]
      BY <1>1, <2>2, CurrentSession DEF BackupShape
    <3>2. QED BY <1>1, <1>2, <3>1 DEF BackupInv
  <2>3. CASE step = "none"
    BY <2>3 DEF BackupInv
  <2>4. QED BY <2>1, <2>2, <2>3
<1>7. QED BY <1>3, <1>4, <1>5, <1>6 DEF IInv, Shape

LEMMA BackupCreateStep ==
    ASSUME IInv, NEW s \in Sessions, BackupCreate(s)
    PROVE  IInv'
<1> USE SectorsAssumption, BoundsAssumption
<1>1. /\ HostShape /\ FlashShape /\ FileShape /\ BackupShape /\ ProcessShape
      /\ HostInv /\ Untouched /\ BackupInv /\ FwInv /\ FlashedInv
  BY DEF IInv, Shape
<1>0. link' \in Sessions /\ bfile'[link'] \in Flashes
      /\ bp'[s] = [st |-> "copy", file |-> link', pos |-> 1]
  <2>1. CASE link = NoSession
    <3>1. [x \in 1 .. Sectors |-> Hole] \in Flashes
      BY DEF Flashes, Cells
    <3>2. QED BY <1>1, <2>1, <3>1 DEF BackupCreate, session, FileShape, BackupShape
  <2>2. CASE link # NoSession
    BY <1>1, <2>2 DEF BackupCreate, session, FileShape, BackupShape, Sessions, NoSession
  <2>3. QED BY <2>1, <2>2
<1>a. bp'[s] \in Process
  BY <1>0 DEF Process, Sessions
<1>b. \A t \in Sessions : bfile[t] \in Flashes => bfile'[t] \in Flashes
  BY <1>0, <1>1 DEF BackupCreate, session, FileShape
<1>c. /\ UNCHANGED <<n, step>> /\ bp[s].st = "create"
      /\ link # NoSession => UNCHANGED <<link, bfile>>
      /\ \A t \in Sessions : t # s => bp'[t] = bp[t]
  BY <1>1 DEF BackupCreate, session, BackupShape
<1>2. Saved <=> Saved'
  BY HostKept DEF BackupCreate, session
<1>3. HostShape' /\ FlashShape' /\ ProcessShape'
  BY <1>1 DEF BackupCreate, session, HostShape, Steps, FlashShape, ProcessShape
<1>4. FileShape'
  <2>1. bfile' \in [Sessions -> Files]
    <3>1. [x \in 1 .. Sectors |-> Hole] \in Files
      BY DEF Flashes, Cells, Files
    <3>2. QED BY <1>1, <3>1 DEF BackupCreate, session, FileShape
  <2>2. QED BY <1>0, <2>1 DEF FileShape, Sessions
<1>5. BackupShape'
  <2>1. bp' \in [Sessions -> Process]
    BY <1>1, <1>a DEF BackupCreate, session, BackupShape
  <2>2. ASSUME NEW t \in Sessions, bp'[t].st = "copy"
        PROVE  bp'[t].pos # 0 /\ bp'[t].file # NoSession /\ bfile'[bp'[t].file] \in Flashes
    <3>1. CASE t = s
      BY <1>0, <3>1 DEF Sessions, NoSession
    <3>2. CASE t # s
      <4>1. bp'[t] = bp[t] /\ bp[t].file \in Sessions
        BY <1>1, <1>c, <2>2, <3>2 DEF BackupShape, Process, Sessions, NoSession
      <4>2. QED BY <1>1, <1>b, <2>2, <4>1 DEF BackupShape
    <3>3. QED BY <3>1, <3>2
  <2>3. QED BY <2>1, <2>2 DEF BackupShape
<1>6. HostInv' /\ Untouched' /\ FwInv' /\ FlashedInv'
  BY <1>1, <1>2 DEF BackupCreate, session, HostShape, HostInv, Before, Sessions,
     Untouched, Old, Running, After, FwInv, FlashedInv, Flashed
<1>7. BackupInv'
  <2>1. CASE n = s
    <3>1. step # "download"
      BY <1>1, <1>c, <2>1 DEF BackupInv
    <3>2. link' # NoSession
      BY <1>0 DEF Sessions, NoSession
    <3>3. \A x \in 1 .. 1 - 1 : Old(bfile'[link'][x])
      OBVIOUS
    <3>4. QED BY <1>0, <1>c, <2>1, <3>1, <3>2, <3>3 DEF BackupInv
  <2>2. CASE n # s /\ step \in {"backing_up", "download"}
    <3>1. n \in Sessions /\ bp'[n] = bp[n]
      BY <1>1, <1>c, <2>2, CurrentSession
    <3>2. bp[n].st \in {"copy", "ok"} => UNCHANGED <<link, bfile>>
      BY <1>1, <1>c, <2>2 DEF BackupInv
    <3>3. QED BY <1>1, <1>2, <1>c, <2>2, <3>1, <3>2 DEF BackupInv
  <2>3. CASE step \notin {"backing_up", "download"}
    BY <1>c, <2>3 DEF BackupInv
  <2>4. QED BY <2>1, <2>2, <2>3
<1>8. QED BY <1>3, <1>4, <1>5, <1>6, <1>7 DEF IInv, Shape

LEMMA BackupCopyStep ==
    ASSUME IInv, NEW s \in Sessions, BackupCopy(s)
    PROVE  IInv'
<1> USE SectorsAssumption, BoundsAssumption
<1>1. /\ HostShape /\ FlashShape /\ FileShape /\ BackupShape /\ ProcessShape
      /\ HostInv /\ Untouched /\ BackupInv /\ FwInv /\ FlashedInv
  BY DEF IInv, Shape
<1>p. PICK p, f : p = bp[s].pos /\ f = bp[s].file
  OBVIOUS
<1>0. /\ f \in Sessions /\ p \in 1 .. Sectors /\ bfile[f] \in Flashes
      /\ bp[s] \in Process /\ bp[s].st = "copy"
  BY <1>1, <1>p DEF BackupCopy, session, BackupShape, Process, Sessions, NoSession
<1>a. /\ bfile'[f] = [bfile[f] EXCEPT ![p] = chip[p]]
      /\ \A t \in Sessions : t # f => bfile'[t] = bfile[t]
  BY <1>0, <1>1, <1>p DEF BackupCopy, session, FileShape
<1>b. bfile'[f] \in Flashes
  BY <1>0, <1>1, <1>a DEF FlashShape, Flashes
<1>d. /\ bp'[s] \in Process
      /\ \/ p = Sectors /\ bp'[s].st = "ok"
         \/ p # Sectors /\ bp'[s].st = "copy" /\ bp'[s].file = f /\ bp'[s].pos = p + 1
  <2>1. CASE p = Sectors
    BY <1>1, <1>p, <2>1, IdleIsProcess DEF BackupCopy, session, BackupShape
  <2>2. CASE p # Sectors
    <3>1. bp'[s] = [bp[s] EXCEPT !.pos = bp[s].pos + 1]
      BY <1>0, <1>1, <1>p, <2>2 DEF BackupCopy, session, BackupShape, Process
    <3>2. QED BY <1>0, <1>p, <2>2, <3>1, PosAdvances
  <2>3. QED BY <2>1, <2>2
<1>e. UNCHANGED <<n, step, link>> /\ \A t \in Sessions : t # s => bp'[t] = bp[t]
  BY <1>1 DEF BackupCopy, session, BackupShape
<1>2. Saved <=> Saved'
  BY HostKept DEF BackupCopy, session
<1>3. HostShape' /\ FlashShape' /\ ProcessShape'
  BY <1>1 DEF BackupCopy, session, HostShape, Steps, FlashShape, ProcessShape
<1>4. FileShape'
  <2>1. bfile' \in [Sessions -> Files]
    BY <1>0, <1>1, <1>p, <1>b DEF BackupCopy, session, FileShape, Files
  <2>2. CASE link = f
    BY <1>1, <1>b, <1>e, <2>1, <2>2 DEF FileShape
  <2>3. CASE link # f
    BY <1>1, <1>a, <1>e, <2>1, <2>3 DEF FileShape, Sessions, NoSession
  <2>4. QED BY <2>2, <2>3
<1>5. BackupShape'
  <2>1. bp' \in [Sessions -> Process]
    BY <1>1, <1>d DEF BackupCopy, session, BackupShape
  <2>2. ASSUME NEW t \in Sessions, bp'[t].st = "copy"
        PROVE  bp'[t].pos # 0 /\ bp'[t].file # NoSession /\ bfile'[bp'[t].file] \in Flashes
    <3>1. CASE t = s
      BY <1>0, <1>b, <1>d, <2>2, <3>1 DEF Sessions, NoSession
    <3>2. CASE t # s
      <4>1. bp'[t] = bp[t] /\ bp[t].file \in Sessions
        BY <1>1, <1>e, <2>2, <3>2 DEF BackupShape, Process, Sessions, NoSession
      <4>2. QED BY <1>1, <1>a, <1>b, <2>2, <4>1 DEF BackupShape
    <3>3. QED BY <3>1, <3>2
  <2>3. QED BY <2>1, <2>2 DEF BackupShape
<1>6. HostInv' /\ Untouched' /\ FwInv' /\ FlashedInv'
  BY <1>1, <1>2 DEF BackupCopy, session, HostShape, HostInv, Before, Sessions,
     Untouched, Old, Running, After, FwInv, FlashedInv, Flashed
<1>7. BackupInv'
  <2> SUFFICES ASSUME step \in {"backing_up", "download"} PROVE BackupInv'
    BY <1>e DEF BackupInv
  <2>1. n \in Sessions
    BY <1>1, CurrentSession
  <2>2. Saved \/ Old(chip[p])
    BY <1>0, <1>1 DEF Untouched
  <2>3. ASSUME link # NoSession
        PROVE  Saved \/ \A x \in 1 .. Sectors :
                 Old(bfile[link][x]) \/ (link = f /\ x = p) => Old(bfile'[link][x])
    <3>1. link \in Sessions /\ bfile[link] \in Flashes
      BY <1>1, <2>3 DEF FileShape, Sessions, NoSession
    <3>2. CASE link = f
      BY <1>0, <1>a, <2>2, <3>1, <3>2 DEF Flashes
    <3>3. CASE link # f
      BY <1>a, <3>1, <3>3
    <3>4. QED BY <3>2, <3>3
  <2>4. CASE n = s
    <3>1. link # NoSession /\ link = f /\ (Saved \/ \A x \in 1 .. p - 1 : Old(bfile[link][x]))
      BY <1>0, <1>1, <1>p, <2>4 DEF BackupInv
    <3>2. Saved \/ \A x \in 1 .. p : Old(bfile'[link][x])
      BY <1>0, <2>3, <3>1
    <3>3. step # "download"
      BY <1>0, <1>1, <2>4 DEF BackupInv
    <3>4. CASE p = Sectors
      BY <1>2, <1>d, <1>e, <2>4, <3>1, <3>2, <3>3, <3>4 DEF BackupInv
    <3>5. CASE p # Sectors
      <4>1. bp'[s].pos - 1 = p
        BY <1>0, <1>d, <3>5
      <4>2. QED BY <1>2, <1>d, <1>e, <2>4, <3>1, <3>2, <3>3, <3>5, <4>1 DEF BackupInv
    <3>6. QED BY <3>4, <3>5
  <2>5. CASE n # s
    <3>1. bp'[n] = bp[n] /\ bp[n].pos \in 0 .. Sectors
      BY <1>1, <1>e, <2>1, <2>5 DEF BackupShape, Process
    <3>2. link # NoSession => (Saved \/ \A x \in 1 .. Sectors : Old(bfile[link][x]) => Old(bfile'[link][x]))
      BY <2>3
    <3>3. QED BY <1>1, <1>2, <1>e, <2>1, <3>1, <3>2 DEF BackupInv
  <2>6. QED BY <2>4, <2>5
<1>8. QED BY <1>3, <1>4, <1>5, <1>6, <1>7 DEF IInv, Shape

LEMMA FlashOpenStep ==
    ASSUME IInv, NEW s \in Sessions, FlashOpen(s)
    PROVE  IInv'
<1> USE SectorsAssumption, BoundsAssumption DEF FlashOpen, session
<1>1. /\ HostShape /\ FlashShape /\ FileShape /\ BackupShape /\ ProcessShape
      /\ HostInv /\ Untouched /\ BackupInv /\ FwInv /\ FlashedInv
  BY DEF IInv, Shape
<1>0. /\ fp'[s] \in Process
      /\ fp'[s].st = "dead" \/ (fp'[s].st = "copy" /\ fp'[s].pos = 1)
  <2>1. fp[s] \in Process
    BY <1>1 DEF ProcessShape
  <2>2. CASE Len(fw) = Sectors
    <3>1. fp'[s] = [fp[s] EXCEPT !.st = "copy", !.pos = 1]
      BY <1>1, <2>2 DEF ProcessShape
    <3>2. QED BY <2>1, <3>1, PosStarts
  <2>3. CASE Len(fw) # Sectors
    <3>1. fp'[s] = [fp[s] EXCEPT !.st = "dead"]
      BY <1>1, <2>3 DEF ProcessShape
    <3>2. QED BY <2>1, <3>1, StateSet
  <2>4. QED BY <2>2, <2>3
<1>2. Saved <=> Saved'
  BY HostKept
<1>3. HostShape' /\ FlashShape' /\ FileShape' /\ BackupShape'
  BY <1>1 DEF HostShape, Steps, FlashShape, FileShape, NoSession, BackupShape
<1>4. ProcessShape'
  BY <1>0, <1>1 DEF ProcessShape
<1>5. HostInv' /\ Untouched' /\ BackupInv' /\ FwInv'
  BY <1>1, <1>2 DEF HostShape, HostInv, Before, Sessions, Untouched, Old, Running,
     After, BackupInv, NoSession, FwInv
<1>6. FlashedInv'
  <2> SUFFICES ASSUME step = "flashing" PROVE FlashedInv'
    BY <1>1 DEF FlashedInv, Flashed
  <2>1. CASE n = s
    BY <1>0, <2>1 DEF FlashedInv
  <2>2. CASE n # s
    <3>1. fp'[n] = fp[n]
      BY <1>1, <2>2, CurrentSession DEF ProcessShape
    <3>2. QED BY <1>1, <3>1 DEF FlashedInv, Flashed
  <2>3. QED BY <2>1, <2>2
<1>7. QED BY <1>3, <1>4, <1>5, <1>6 DEF IInv, Shape

LEMMA FlashSectorStep ==
    ASSUME IInv, NEW s \in Sessions, FlashSector(s)
    PROVE  IInv'
<1> USE SectorsAssumption, BoundsAssumption
<1>1. /\ HostShape /\ FlashShape /\ FileShape /\ BackupShape /\ ProcessShape
      /\ HostInv /\ Untouched /\ BackupInv /\ FwInv /\ FlashedInv
  BY DEF IInv, Shape
<1>p. PICK p : p = fp[s].pos
  OBVIOUS
<1>0. /\ p \in 1 .. Sectors /\ p \in 1 .. Len(fw) /\ fw[p] \in Images
      /\ fp[s] \in Process /\ fp[s].st = "copy"
  <2>1. p \in 1 .. Sectors /\ fp[s] \in Process
    BY <1>1, <1>p DEF FlashSector, session, ProcessShape, Process
  <2>2. p \in 1 .. Len(fw)
    BY <1>1, <1>p, <2>1, LenProperties DEF FlashSector, session, FlashShape
  <2>3. QED BY <1>1, <2>1, <2>2, ElementOfSeq DEF FlashSector, session, FlashShape
<1>b. /\ fp'[s] \in Process
      /\ \/ p = Sectors /\ fp'[s].st = "ok"
         \/ p # Sectors /\ fp'[s].st = "copy" /\ fp'[s].pos = p + 1
  <2>1. CASE p = Sectors
    BY <1>1, <1>p, <2>1, IdleIsProcess DEF FlashSector, session, ProcessShape
  <2>2. CASE p # Sectors
    <3>1. fp'[s] = [fp[s] EXCEPT !.pos = fp[s].pos + 1]
      BY <1>0, <1>1, <1>p, <2>2 DEF FlashSector, session, ProcessShape, Process
    <3>2. QED BY <1>0, <1>p, <2>2, <3>1, PosAdvances
  <2>3. QED BY <2>1, <2>2
<1>c. /\ chip'[p] = fw[p]
      /\ \A x \in 1 .. Sectors : x # p => chip'[x] = chip[x]
  BY <1>0, <1>1, <1>p DEF FlashSector, session, FlashShape, Flashes
<1>d. UNCHANGED <<n, step, img, ro>> /\ \A t \in Sessions : t # s => fp'[t] = fp[t]
  BY <1>1 DEF FlashSector, session, ProcessShape
<1>2. Saved <=> Saved'
  BY HostKept DEF FlashSector, session
<1>3. HostShape' /\ FileShape' /\ BackupShape'
  BY <1>1 DEF FlashSector, session, HostShape, Steps, FileShape, NoSession,
     BackupShape
<1>4. FlashShape'
  <2>1. chip' \in Flashes
    BY <1>0, <1>1, <1>p DEF FlashSector, session, FlashShape, Flashes, Cells
  <2>2. QED BY <1>1, <2>1 DEF FlashSector, session, FlashShape
<1>5. ProcessShape'
  <2>1. fp' \in [Sessions -> Process]
    BY <1>1, <1>b DEF FlashSector, session, ProcessShape
  <2>2. \A t \in Sessions : fp'[t].st = "copy" => fp'[t].pos # 0
    BY <1>0, <1>1, <1>b, <1>d DEF ProcessShape
  <2>3. QED BY <2>1, <2>2 DEF ProcessShape
<1>6. HostInv' /\ BackupInv' /\ FwInv'
  BY <1>1, <1>2 DEF FlashSector, session, HostShape, HostInv, Before, Sessions,
     BackupInv, NoSession, FwInv
<1>7. Untouched'
  <2>1. Saved'
    BY <1>1, <1>2 DEF FlashSector, session, Untouched, Running
  <2>2. QED BY <2>1 DEF Untouched
<1>8. FlashedInv'
  <2> SUFFICES ASSUME step \in {"flashing", "success"} PROVE FlashedInv'
    BY <1>d DEF FlashedInv
  <2>1. n \in Sessions
    BY <1>1, CurrentSession
  <2>2. Flashed(p)'
    BY <1>0, <1>1, <1>c, <1>d DEF FwInv, Flashed
  <2>3. \A x \in 1 .. Sectors : Flashed(x) \/ x = p => Flashed(x)'
    BY <1>c, <1>d, <2>2 DEF Flashed
  <2>4. CASE step = "success"
    BY <1>1, <1>d, <2>3, <2>4 DEF FlashedInv
  <2>5. CASE step = "flashing" /\ n = s
    <3>1. \A x \in 1 .. p : Flashed(x)'
      <4>1. \A x \in 1 .. p - 1 : Flashed(x)
        BY <1>1, <1>p, <2>5 DEF FlashSector, session, FlashedInv
      <4>2. QED BY <1>0, <2>3, <4>1
    <3>2. CASE p = Sectors
      BY <1>b, <1>d, <2>5, <3>1, <3>2 DEF FlashedInv
    <3>3. CASE p # Sectors
      <4>1. fp'[s].pos - 1 = p
        BY <1>0, <1>b, <3>3
      <4>2. QED BY <1>b, <1>d, <2>5, <3>1, <3>3, <4>1 DEF FlashedInv
    <3>4. QED BY <3>2, <3>3
  <2>6. CASE step = "flashing" /\ n # s
    <3>1. fp'[n] = fp[n] /\ fp[n].pos \in 0 .. Sectors
      BY <1>1, <1>d, <2>1, <2>6 DEF ProcessShape, Process
    <3>2. QED BY <1>1, <1>d, <2>3, <2>6, <3>1 DEF FlashedInv
  <2>7. QED BY <2>4, <2>5, <2>6
<1>9. QED BY <1>3, <1>4, <1>5, <1>6, <1>7, <1>8 DEF IInv, Shape

LEMMA FlashBusStep ==
    ASSUME IInv, NEW s \in Sessions, FlashBus(s)
    PROVE  IInv'
<1> USE SectorsAssumption, BoundsAssumption DEF FlashBus, session
<1>1. /\ HostShape /\ FlashShape /\ FileShape /\ BackupShape /\ ProcessShape
      /\ HostInv /\ Untouched /\ BackupInv /\ FwInv /\ FlashedInv
  BY DEF IInv, Shape
<1>0. fp'[s] \in Process /\ fp'[s].st = "dead"
  BY <1>1, IdleIsProcess DEF ProcessShape
<1>2. Saved <=> Saved'
  BY HostKept
<1>3. HostShape' /\ FlashShape' /\ FileShape' /\ BackupShape'
  BY <1>1 DEF HostShape, Steps, FlashShape, FileShape, NoSession, BackupShape
<1>4. ProcessShape'
  BY <1>0, <1>1 DEF ProcessShape
<1>5. HostInv' /\ Untouched' /\ BackupInv' /\ FwInv'
  BY <1>1, <1>2 DEF HostShape, HostInv, Before, Sessions, Untouched, Old, Running,
     After, BackupInv, NoSession, FwInv
<1>6. FlashedInv'
  <2> SUFFICES ASSUME step = "flashing" PROVE FlashedInv'
    BY <1>1 DEF FlashedInv, Flashed
  <2>1. CASE n = s
    BY <1>0, <2>1 DEF FlashedInv
  <2>2. CASE n # s
    <3>1. fp'[n] = fp[n]
      BY <1>1, <2>2, CurrentSession DEF ProcessShape
    <3>2. QED BY <1>1, <3>1 DEF FlashedInv, Flashed
  <2>3. QED BY <2>1, <2>2
<1>7. QED BY <1>3, <1>4, <1>5, <1>6 DEF IInv, Shape

LEMMA DieStep ==
    ASSUME IInv, NEW s \in Sessions, Die(s)
    PROVE  IInv'
<1> USE SectorsAssumption, BoundsAssumption DEF Die, session
<1>1. /\ HostShape /\ FlashShape /\ FileShape /\ BackupShape /\ ProcessShape
      /\ HostInv /\ Untouched /\ BackupInv /\ FwInv /\ FlashedInv
  BY DEF IInv, Shape
<1>0. /\ bp' \in [Sessions -> Process] /\ fp' \in [Sessions -> Process]
      /\ \A t \in Sessions : /\ bp'[t] = bp[t] \/ bp'[t].st = "dead"
                             /\ fp'[t] = fp[t] \/ fp'[t].st = "dead"
  BY <1>1, IdleIsProcess DEF BackupShape, ProcessShape
<1>2. Saved <=> Saved'
  BY HostKept
<1>3. HostShape' /\ FlashShape' /\ FileShape'
  BY <1>1 DEF HostShape, Steps, FlashShape, FileShape, NoSession
<1>4. BackupShape'
  BY <1>0, <1>1 DEF BackupShape
<1>5. ProcessShape'
  BY <1>0, <1>1 DEF ProcessShape
<1>6. HostInv' /\ FwInv'
  BY <1>1, <1>2 DEF HostShape, HostInv, Before, Sessions, FwInv
<1>7. Untouched'
  BY <1>0, <1>1, <1>2 DEF Untouched, Old, Running, After
<1>8. BackupInv'
  <2>1. step # "none" => n \in Sessions
    BY <1>1, CurrentSession
  <2>2. step # "download" \/ bp'[n] = bp[n]
    BY <1>1, <2>1 DEF BackupInv, BackupShape, Running
  <2>3. UNCHANGED <<n, step, link, bfile>>
    OBVIOUS
  <2>4. CASE step = "none"
    BY <2>3, <2>4 DEF BackupInv
  <2>5. CASE step # "none" /\ bp'[n] = bp[n]
    BY <1>1, <1>2, <2>3, <2>5 DEF BackupInv
  <2>6. CASE step # "none" /\ bp'[n].st = "dead"
    BY <2>2, <2>3, <1>1, <2>6 DEF BackupInv
  <2>7. QED BY <1>0, <2>1, <2>4, <2>5, <2>6
<1>9. FlashedInv'
  <2>1. step # "none" => n \in Sessions
    BY <1>1, CurrentSession
  <2>2. QED BY <1>0, <1>1, <2>1 DEF FlashedInv, Flashed
<1>10. QED BY <1>3, <1>4, <1>5, <1>6, <1>7, <1>8, <1>9 DEF IInv, Shape

-----------------------------------------------------------------------------
LEMMA StutterInv == ASSUME IInv, UNCHANGED vars PROVE IInv'
<1>1. UNCHANGED <<chip, ro, bfile, link, fw, bp, fp, n, step, img, host>>
  BY DEF vars, device, session
<1>2. Shape'
  BY <1>1 DEF IInv, Shape, HostShape, FlashShape, FileShape, BackupShape, ProcessShape
<1>3. HostInv' /\ FwInv' /\ FlashedInv'
  BY <1>1 DEF IInv, HostInv, FwInv, FlashedInv, Flashed
<1>4. Untouched' /\ BackupInv'
  BY <1>1, HostKept DEF IInv, Untouched, BackupInv, Running
<1>5. QED BY <1>2, <1>3, <1>4 DEF IInv

LEMMA NextInv == IInv /\ [Next]_vars => IInv'
<1> SUFFICES ASSUME IInv, [Next]_vars PROVE IInv'
  OBVIOUS
<1>1. CASE UNCHANGED vars
  BY <1>1, StutterInv
<1>2. CASE StartSession \/ RemoveBackup \/ ExecBackup \/ BackupStatus \/ Download
  BY <1>2, StartSessionStep, RemoveBackupStep, ExecBackupStep, BackupStatusStep, DownloadStep
<1>3. CASE UploadOpen \/ UploadBlock \/ Remount \/ ExecFlash \/ FlashStatus \/ Finish \/ Break
  BY <1>3, UploadOpenStep, UploadBlockStep, RemountStep, ExecFlashStep, FlashStatusStep,
     FinishStep, BreakStep
<1>4. ASSUME NEW s \in Sessions,
             \/ BackupCheck(s) \/ BackupCreate(s) \/ BackupCopy(s)
             \/ FlashOpen(s) \/ FlashSector(s) \/ FlashBus(s) \/ Die(s)
      PROVE  IInv'
  BY <1>4, BackupCheckStep, BackupCreateStep, BackupCopyStep, FlashOpenStep,
     FlashSectorStep, FlashBusStep, DieStep
<1>5. CASE PersistWrite \/ Reboot \/ PowerLoss
  BY <1>5, PersistWriteStep, RebootStep, PowerLossStep
<1>6. QED BY <1>1, <1>2, <1>3, <1>4, <1>5 DEF Next

(* The strengthened invariant holds of every behaviour of flash.py and the *)
(* processes it leaves on the device.                                      *)
THEOREM Inductive == Spec => []IInv
BY InitInv, NextInv, PTL DEF Spec

(* Every step of flash.py is one of its script, and /tmp/fw.bin never      *)
(* grows beyond the size of the flash.                                     *)
THEOREM TypeCorrect == Spec => []TypeOK
<1>1. IInv => TypeOK
  BY DEF IInv, Shape, HostShape, FlashShape, FileShape, Steps, TypeOK
<1>2. QED BY <1>1, Inductive, PTL

(* Once a sector of the device has changed, the host holds a complete copy *)
(* of the device as it came, for any number of broken sessions, overlapping *)
(* backup and flash processes and power failures (the steps of flash.py).  *)
THEOREM OriginalKept == Spec => []OriginalSafe
<1>1. IInv => OriginalSafe
  BY DEF IInv, Untouched, Saved, SafeCopy, OriginalSafe
<1>2. QED BY <1>1, Inductive, PTL

(* "Flash sequence finished successfully" is printed only when the flash   *)
(* holds the image of this session, whatever the flash processes of broken *)
(* sessions still write (flash.py main, the "flash" command).              *)
THEOREM SuccessIsFlashed == Spec => []SuccessMeansFlashed
<1>1. IInv => SuccessMeansFlashed
  BY DEF IInv, FlashedInv, Flashed, SuccessMeansFlashed
<1>2. QED BY <1>1, Inductive, PTL
=============================================================================
