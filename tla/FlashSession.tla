----------------------------- MODULE FlashSession -----------------------------
(***************************************************************************)
(* A host that flashes a device: the steps of flash.py, which uploader.py  *)
(* carries out over SSH, and the processes they start on the device.       *)
(*                                                                         *)
(* A session backs the flash up, downloads the backup, uploads the image   *)
(* and flashes it.  The connection may break at any moment; the tool then  *)
(* reports a failure and the user may run it again, while the processes of *)
(* the broken session go on on the device, die of a closed pipe, or reboot *)
(* it when they are done.                                                  *)
(*                                                                         *)
(* The two flash.py of the repository (sunxi-flasher, carlinkit-mini-      *)
(* flasher) have the same steps.  The flash is linear here: what lies      *)
(* beneath it is the subject of Flash and LinearFlash.                     *)
(***************************************************************************)
EXTENDS Integers, Sequences

CONSTANTS
  Sectors,      \* number of sectors of the flash
  Persist,      \* the sector of /persist
  Images,       \* firmware images
  MaxSessions,  \* bound: runs of flash.py
  MaxOutages    \* bound: power failures

ASSUME SectorsAssumption == Sectors \in Nat \ {0} /\ Persist \in 1 .. Sectors
ASSUME BoundsAssumption == MaxSessions \in Nat /\ MaxOutages \in Nat

Sessions == 1 .. MaxSessions
NoSession == 0

\* Cells of the flash and of files.
Orig == "orig"   \* as the device came
Live == "live"   \* written by the running system, to /persist
Hole == "hole"   \* a page of a new file that nothing was copied into
Bad == "bad"     \* a sector whose write was cut off
Old(c) == c \in {Orig, Live}
Firmware(i) == [x \in 1 .. Sectors |-> i]

VARIABLES
  chip,     \* the flash
  ro,       \* /persist is mounted read-only
  bfile,    \* [Sessions]: the backup file created by the process of a session
  link,     \* the file /tmp/backup.bin names, NoSession for none
  fw,       \* /tmp/fw.bin
  bp,       \* [Sessions]: backup process: its state, file and position
  fp,       \* [Sessions]: flash process: its state and position
  armed,    \* a flash has ended and its shell is about to reboot
  n,        \* the latest session
  step,     \* its step, "none" when it has ended
  img,      \* [Sessions]: the image given to the tool
  host,     \* [Sessions]: the downloaded backup; <<>> for none
  outages   \* power failures so far

device == <<chip, ro, bfile, link, fw, bp, fp, armed>>
session == <<n, step, img, host>>
vars == <<device, session, outages>>

Idle == [st |-> "none", file |-> NoSession, pos |-> 0]

Init ==
  /\ chip = [x \in 1 .. Sectors |-> Orig]
  /\ ro = FALSE /\ armed = FALSE /\ link = NoSession /\ fw = <<>>
  /\ bfile = [s \in Sessions |-> <<>>]
  /\ bp = [s \in Sessions |-> Idle]
  /\ fp = [s \in Sessions |-> Idle]
  /\ n = 0 /\ step = "none"
  /\ img \in [Sessions -> Images]
  /\ host = [s \in Sessions |-> <<>>]
  /\ outages = 0

-----------------------------------------------------------------------------
(* The host.  run_step goes on only after exit status 0. *)

Goto(s) == step' = s /\ UNCHANGED <<n, img>>

StartSession ==
  /\ step = "none" /\ n < MaxSessions
  /\ n' = n + 1
  /\ step' = "rm"
  /\ UNCHANGED <<device, img, host, outages>>

\* "rm -rf /tmp/backup.bin", before and after the backup: a process that has the
\* file open keeps it.
RemoveBackup ==
  /\ step \in {"rm", "rm_again"}
  /\ link' = NoSession
  /\ Goto(IF step = "rm" THEN "backup" ELSE "upload")
  /\ UNCHANGED <<chip, ro, bfile, fw, bp, fp, armed, host, outages>>

ExecBackup ==
  /\ step = "backup"
  /\ bp' = [bp EXCEPT ![n].st = "start"]
  /\ Goto("backing_up")
  /\ UNCHANGED <<chip, ro, bfile, link, fw, fp, armed, host, outages>>

\* Mutant: the exit status of the backup is not looked at.
BackupStatus_Ignored ==
  /\ step = "backing_up"
  /\ bp[n].st \in {"ok", "dead"} /\ Goto("download")
  /\ UNCHANGED <<device, host, outages>>

BackupStatus ==
  /\ step = "backing_up"
  /\ \/ bp[n].st = "ok" /\ Goto("download")
     \/ bp[n].st = "dead" /\ Goto("none")
  /\ UNCHANGED <<device, host, outages>>

\* sftp.get compares the sizes at the end.
Download ==
  /\ step = "download"
  /\ \/ /\ link # NoSession
        /\ host' = [host EXCEPT ![n] = bfile[link]]
        /\ Goto("rm_again")
     \/ /\ link = NoSession
        /\ Goto("none") /\ UNCHANGED host
  /\ UNCHANGED <<device, outages>>

\* sftp.put empties the file before it sends the first block.
UploadOpen ==
  /\ step = "upload"
  /\ fw' = <<>>
  /\ Goto("uploading")
  /\ UNCHANGED <<chip, ro, bfile, link, bp, fp, armed, host, outages>>

UploadBlock ==
  /\ step = "uploading"
  /\ fw' = Append(fw, img[n])
  /\ Goto(IF Len(fw') = Sectors THEN "remount" ELSE "uploading")
  /\ UNCHANGED <<chip, ro, bfile, link, bp, fp, armed, host, outages>>

\* "mount -o remount,ro /persist || exit 0": a failure does not count.
Remount ==
  /\ step = "remount"
  /\ ro' \in {ro, TRUE}
  /\ Goto("flash")
  /\ UNCHANGED <<chip, bfile, link, fw, bp, fp, armed, host, outages>>

Running(p) == p.st \in {"start", "create", "copy"}

ExecFlash ==
  /\ step = "flash"
  /\ fp' = [fp EXCEPT ![n].st = "start"]
  /\ Goto("flashing")
  /\ UNCHANGED <<chip, ro, bfile, link, fw, bp, armed, host, outages>>

\* Exit status 0 of the last step: "Flash sequence finished successfully".
FlashStatus ==
  /\ step = "flashing"
  /\ \/ fp[n].st = "ok" /\ Goto("success")
     \/ fp[n].st = "dead" /\ Goto("none")
  /\ UNCHANGED <<device, host, outages>>

Finish ==
  /\ step = "success" /\ Goto("none")
  /\ UNCHANGED <<device, host, outages>>

\* The connection breaks: the step fails, and a download leaves what it has.
Break ==
  /\ step \notin {"none", "success"}
  /\ Goto("none")
  /\ IF step = "download" /\ link # NoSession
     THEN \E m \in 0 .. Sectors - 1 : host' = [host EXCEPT ![n] = SubSeq(bfile[link], 1, m)]
     ELSE UNCHANGED host
  /\ UNCHANGED <<device, outages>>

-----------------------------------------------------------------------------
(* "carlinkit_otalib backup": the file must not exist; it is created, sized *)
(* and then filled from the flash.                                          *)

BackupCheck(s) ==
  /\ bp[s].st = "start"
  /\ bp' = [bp EXCEPT ![s].st = IF link = NoSession THEN "create" ELSE "dead"]
  /\ UNCHANGED <<chip, ro, bfile, link, fw, fp, armed, session, outages>>

\* create does not insist on a new file.
BackupCreate(s) ==
  /\ bp[s].st = "create"
  /\ LET f == IF link = NoSession THEN s ELSE link
     IN /\ link' = f
        /\ bp' = [bp EXCEPT ![s] = [st |-> "copy", file |-> f, pos |-> 1]]
        /\ bfile' = IF link = NoSession
                    THEN [bfile EXCEPT ![s] = [x \in 1 .. Sectors |-> Hole]] ELSE bfile
  /\ UNCHANGED <<chip, ro, fw, fp, armed, session, outages>>

BackupCopy(s) ==
  /\ bp[s].st = "copy"
  /\ bfile' = [bfile EXCEPT ![bp[s].file][bp[s].pos] = chip[bp[s].pos]]
  /\ bp' = [bp EXCEPT ![s] = IF @.pos = Sectors THEN [Idle EXCEPT !.st = "ok"]
                                               ELSE [@ EXCEPT !.pos = bp[s].pos + 1]]
  /\ UNCHANGED <<chip, ro, link, fw, fp, armed, session, outages>>

(* "carlinkit_otalib flash": the file must have the size of the flash; its  *)
(* mapping shows what the file holds when a page is read, and a page beyond *)
(* the end is fatal.                                                        *)

FlashOpen(s) ==
  /\ fp[s].st = "start"
  /\ fp' = [fp EXCEPT ![s] = IF Len(fw) = Sectors THEN [@ EXCEPT !.st = "copy", !.pos = 1]
                                                  ELSE [@ EXCEPT !.st = "dead"]]
  /\ UNCHANGED <<chip, ro, bfile, link, fw, bp, armed, session, outages>>

\* Mutant: the image is read into memory when the process starts.
FlashSector_Snapshot(s) ==
  /\ fp[s].st = "copy" /\ fp[s].pos <= Len(fw)
  /\ chip' = [chip EXCEPT ![fp[s].pos] = img[s]]
  /\ fp' = [fp EXCEPT ![s] = IF @.pos = Sectors THEN [Idle EXCEPT !.st = "ok"]
                                               ELSE [@ EXCEPT !.pos = fp[s].pos + 1]]
  /\ armed' = (armed \/ fp[s].pos = Sectors)
  /\ UNCHANGED <<ro, bfile, link, fw, bp, session, outages>>

\* The devices that flash.py is for do not sign, so no page of the private mapping
\* is ever copied.  A sector is copied at one moment: a process is not held up in
\* the middle of it for as long as an upload takes.
FlashSector(s) ==
  /\ fp[s].st = "copy" /\ fp[s].pos <= Len(fw)
  /\ chip' = [chip EXCEPT ![fp[s].pos] = fw[fp[s].pos]]
  /\ fp' = [fp EXCEPT ![s] = IF @.pos = Sectors THEN [Idle EXCEPT !.st = "ok"]
                                               ELSE [@ EXCEPT !.pos = fp[s].pos + 1]]
  /\ armed' = (armed \/ fp[s].pos = Sectors)
  /\ UNCHANGED <<ro, bfile, link, fw, bp, session, outages>>

FlashBus(s) ==
  /\ fp[s].st = "copy" /\ fp[s].pos > Len(fw)
  /\ fp' = [fp EXCEPT ![s] = [Idle EXCEPT !.st = "dead"]]
  /\ UNCHANGED <<chip, ro, bfile, link, fw, bp, armed, session, outages>>

\* A process dies: an error, or its first output after the connection broke.
Die(s) ==
  /\ \/ Running(bp[s]) /\ bp' = [bp EXCEPT ![s] = [Idle EXCEPT !.st = "dead"]] /\ UNCHANGED fp
     \/ Running(fp[s]) /\ fp' = [fp EXCEPT ![s] = [Idle EXCEPT !.st = "dead"]] /\ UNCHANGED bp
  /\ UNCHANGED <<chip, ro, bfile, link, fw, armed, session, outages>>

\* The running system writes to /persist.
PersistWrite ==
  /\ ~ro
  /\ chip' = [chip EXCEPT ![Persist] = Live]
  /\ UNCHANGED <<ro, bfile, link, fw, bp, fp, armed, session, outages>>

\* The device comes up again, without /tmp and without the connection.
Boot ==
  /\ ro' = FALSE /\ armed' = FALSE /\ link' = NoSession /\ fw' = <<>>
  /\ bp' = [s \in Sessions |-> IF Running(bp[s]) THEN [Idle EXCEPT !.st = "dead"] ELSE bp[s]]
  /\ fp' = [s \in Sessions |-> IF Running(fp[s]) THEN [Idle EXCEPT !.st = "dead"] ELSE fp[s]]
  /\ Goto("none")
  /\ UNCHANGED <<bfile, host>>

\* "sleep 2 && reboot", in the background of the shell.
Reboot == armed /\ Boot /\ UNCHANGED <<chip, outages>>

PowerLoss ==
  /\ outages < MaxOutages /\ outages' = outages + 1
  /\ \E torn \in SUBSET { fp[s].pos : s \in { t \in Sessions : fp[t].st = "copy" } } :
       chip' = [x \in 1 .. Sectors |-> IF x \in torn THEN Bad ELSE chip[x]]
  /\ Boot

Next ==
  \/ StartSession \/ RemoveBackup \/ ExecBackup \/ BackupStatus \/ Download
  \/ UploadOpen \/ UploadBlock \/ Remount \/ ExecFlash \/ FlashStatus \/ Finish \/ Break
  \/ \E s \in Sessions :
       \/ BackupCheck(s) \/ BackupCreate(s) \/ BackupCopy(s)
       \/ FlashOpen(s) \/ FlashSector(s) \/ FlashBus(s) \/ Die(s)
  \/ PersistWrite \/ Reboot \/ PowerLoss

Spec == Init /\ [][Next]_vars

-----------------------------------------------------------------------------
TypeOK ==
  /\ step \in {"none", "rm", "backup", "backing_up", "download", "rm_again", "upload",
               "uploading", "remount", "flash", "flashing", "success"}
  /\ n \in 0 .. MaxSessions /\ link \in 0 .. MaxSessions
  /\ Len(fw) <= Sectors

\* Whatever breaks, and however many sessions and device processes overlap: once
\* a sector of the device no longer holds what it came with, the host has a
\* complete copy of the device as it came (the order of the steps in flash.py, the
\* exit status each of them waits for, and "cannot backup: file already exists").
OriginalSafe ==
  (\E x \in 1 .. Sectors : ~Old(chip[x])) =>
    \E s \in Sessions : /\ Len(host[s]) = Sectors
                        /\ \A x \in 1 .. Sectors : Old(host[s][x])

\* When the tool reports success the flash holds the image it was given, even if
\* flash processes of broken sessions, started for other images, still write beside
\* its own: they copy from the file that the new upload has replaced.  Only /persist
\* may differ, when it could not be made read-only (flash.py main, _stream_exec, the
\* "flash" command and its mapping of /tmp/fw.bin).
SuccessMeansFlashed ==
  step = "success" =>
    \A x \in 1 .. Sectors : chip[x] = img[n] \/ (x = Persist /\ ~ro)
=============================================================================
