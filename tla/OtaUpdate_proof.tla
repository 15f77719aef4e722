-------------------------- MODULE OtaUpdate_proof --------------------------
(***************************************************************************)
(* Proofs about OtaUpdate, for every set of versions and archives and any  *)
(* number of uploads and power losses.                                     *)
(***************************************************************************)
EXTENDS OtaUpdate, TLAPS

\* The script runs only on a device that is up; the boot tries three slots.
Phases ==
  /\ pc # "off" <=> phase = "up"
  /\ phase = "img" => try <= LastSlot
  /\ phase = "up" => idx = running[IMG]
  /\ phase = "dead" => boot.base[SCR] \notin Versions

Inv == TypeOK /\ Phases

USE OtaAssumption DEF Archive, Content, Absent, Partial, Parts, SCR, BIN, IMG, LastSlot

\* A device fresh from deploy-emmc.sh satisfies Inv.
LEMMA InitInv == Init => Inv
<1> SUFFICES ASSUME Init
             PROVE  Inv
  OBVIOUS
<1> USE DEF Init
<1>1. [c \in Parts |-> Deployed] \in [Parts -> Content] /\ NoManifest \in [Parts -> Content]
  BY DEF NoManifest
<1>2. boot \in FileSystem /\ disk \in FileSystem
  BY <1>1 DEF FileSystem, NoManifest
<1>3. ldc \in LdcState
  BY <1>1 DEF LdcState, NoManifest
<1>4. prev \in [Parts -> Content]
  BY <1>1
<1>5. running \in [{BIN, IMG} -> 0..LastSlot]
  OBVIOUS
<1>6. todo \in SUBSET Parts /\ cur \in Parts /\ elf \in BOOLEAN /\ done \in BOOLEAN
  OBVIOUS
<1>7. outages \in 0..MaxOutages /\ uploads \in 0..MaxUploads /\ faults \in 0..2
  OBVIOUS
<1>8. TypeOK
  BY <1>2, <1>3, <1>4, <1>5, <1>6, <1>7 DEF TypeOK
<1>9. Phases
  BY DEF Phases
<1>10. QED
  BY <1>8, <1>9 DEF Inv

(***************************************************************************)
(* What can be on /ldc after tar or a power loss is a state of /ldc.       *)
(***************************************************************************)
LEMMA UnpackedType ==
  ASSUME ldc \in LdcState, NEW p \in ldc.tars
  PROVE  Unpacked(p) \in LdcState
<1>1. p \in Archive
  BY DEF LdcState
<1>2. QED
  BY <1>1 DEF LdcState, Unpacked, Manifest

LEMMA HalfUnpackedType ==
  ASSUME ldc \in LdcState, NEW p \in ldc.tars
  PROVE  HalfUnpacked(p) \subseteq LdcState
<1>1. p \in Archive
  BY DEF LdcState
<1>2. Mixed(ldc.new, Unpacked(p).new) \subseteq [Parts -> Content]
  BY DEF Mixed
<1>3. \A f \in [Parts -> Content], c \in p.parts : [f EXCEPT ![c] = Partial] \in [Parts -> Content]
  BY <1>1
<1>4. NoManifest \in [Parts -> Versions \cup {Absent}] /\ Manifest(p) \in [Parts -> Versions \cup {Absent}]
  BY <1>1 DEF NoManifest, Manifest
<1> DEFINE some == Mixed(ldc.new, Unpacked(p).new)
           cut  == {[f EXCEPT ![c] = Partial] : f \in some, c \in p.parts}
           manifests == {ldc, [ldc EXCEPT !.hasJson = TRUE, !.json = NoManifest],
                              [ldc EXCEPT !.hasJson = TRUE, !.json = Manifest(p)]}
<1>5. some \cup cut \subseteq [Parts -> Content]
  BY <1>2, <1>3
<1>6. manifests \subseteq LdcState
  BY <1>4 DEF LdcState
<1>7. \A l \in LdcState, n \in [Parts -> Content] : [l EXCEPT !.new = n] \in LdcState
  BY DEF LdcState
<1>8. HalfUnpacked(p) = {[l EXCEPT !.new = n] : l \in manifests, n \in some \cup cut}
  BY DEF HalfUnpacked
<1> HIDE DEF some, cut, manifests
<1>9. QED
  BY <1>5, <1>6, <1>7, <1>8

LEMMA LdcSurvivorsType ==
  ASSUME ldc \in LdcState
  PROVE  LdcSurvivors \subseteq LdcState
<1>1. CASE pc = "untar"
  BY <1>1, HalfUnpackedType DEF LdcSurvivors
<1>2. CASE pc = "rm"
  <2>1. NoManifest \in [Parts -> Content]
    BY DEF NoManifest
  <2> DEFINE left == {ldc, [ldc EXCEPT !.tars = {}]}
             some == Mixed(ldc.new, NoManifest)
  <2>2. some \subseteq [Parts -> Content]
    BY DEF Mixed
  <2>3. left \subseteq LdcState
    BY DEF LdcState
  <2>4. \A l \in LdcState, n \in [Parts -> Content] : [l EXCEPT !.new = n] \in LdcState
    BY DEF LdcState
  <2>5. LdcSurvivors = {[l EXCEPT !.new = n] : l \in left, n \in some}
    BY <1>2 DEF LdcSurvivors
  <2> HIDE DEF left, some
  <2>6. QED
    BY <2>2, <2>3, <2>4, <2>5
<1>3. CASE pc # "untar" /\ pc # "rm"
  BY <1>3 DEF LdcSurvivors
<1>4. QED
  BY <1>1, <1>2, <1>3

\* After a part comes another part or the read-only remount of step 7.
LEMMA NextPartType ==
  ASSUME cur \in Parts, NextPart
  PROVE  /\ cur' \in Parts
         /\ pc' \in {"mv", "remountro"}
  BY DEF NextPart

\* `mv base bak' changes the two names of the current part and nothing else.
LEMMA MovedFile ==
  ASSUME boot \in FileSystem, cur \in Parts, Backup, boot.base[cur] # Absent
  PROVE  /\ boot'.base = [boot.base EXCEPT ![cur] = Absent]
         /\ boot'.bak = [boot.bak EXCEPT ![cur] = boot.base[cur]]
<1>1. boot' = [boot EXCEPT !.bak[cur] = boot.base[cur], !.base[cur] = Absent]
  BY DEF Backup
<1>2. QED
  BY <1>1 DEF FileSystem

\* Every step of the boot, of the scripts and of the operator keeps Inv.
LEMMA StepInv ==
  ASSUME Inv, [Next]_vars
  PROVE  Inv'
<1> USE DEF Inv, TypeOK, Phases, FileSystem, bootVars, history
<1>1. CASE BootRom
  BY <1>1 DEF BootRom
<1>2. CASE LoadScript
  BY <1>2 DEF LoadScript
<1>3. CASE TryImage
  <2>1. InSlot(boot, IMG, 2) = Deployed
    BY DEF InSlot
  <2>2. QED
    BY <1>3, <2>1 DEF TryImage, NotedSlot
<1>4. CASE Autostart
  BY <1>4 DEF Autostart, CountTars, LdcState
<1>5. CASE RunByHand
  BY <1>5 DEF RunByHand, CountTars, LdcState
<1>6. CASE Upload
  BY <1>6 DEF Upload, LdcState
<1>7. CASE Reboot
  BY <1>7 DEF Reboot
<1>8. CASE Untar
  BY <1>8, UnpackedType, HalfUnpackedType DEF Untar
<1>9. CASE Check
  BY <1>9 DEF Check, Differs
<1>10. CASE Remount
  BY <1>10 DEF Remount
<1>11. CASE Skip
  BY <1>11, NextPartType DEF Skip
<1>12. CASE Backup
  <2>1. [boot EXCEPT !.bak[cur] = boot.base[cur], !.base[cur] = Absent] \in FileSystem
    OBVIOUS
  <2>2. boot' \in FileSystem
    BY <1>12, <2>1 DEF Backup
  <2>3. QED
    BY <1>12, <2>2 DEF Backup
<1>13. CASE SyncBackup
  BY <1>13 DEF SyncBackup
<1>14. CASE CopyBegin
  BY <1>14 DEF CopyBegin
<1>15. CASE CopyEnd
  BY <1>15 DEF CopyEnd, LdcState
<1>16. CASE CopyFails
  BY <1>16, NextPartType DEF CopyFails, AddFault
<1>17. CASE SyncCopy
  BY <1>17, NextPartType DEF SyncCopy
<1>18. CASE RemountRo
  BY <1>18 DEF RemountRo
<1>19. CASE Cleanup
  BY <1>19 DEF Cleanup, LdcState, NoManifest
<1>20. CASE RetireElf
  <2>1. elf' \in BOOLEAN /\ done' \in BOOLEAN
    BY <1>20 DEF RetireElf
  <2>2. faults' \in 0..2
    BY <1>20 DEF RetireElf
  <2>3. QED
    BY <1>20, <2>1, <2>2 DEF RetireElf
<1>21. CASE PowerLoss
  <2>1. Survivors \subseteq FileSystem
    BY DEF Survivors
  <2>2. ldc' \in LdcState
    BY <1>21, LdcSurvivorsType DEF PowerLoss
  <2>3. disk' \in FileSystem /\ boot' \in FileSystem
    BY <1>21, <2>1 DEF PowerLoss
  <2>4. faults' \in 0..2
    BY <1>21 DEF PowerLoss, AddFault
  <2>5. elf' \in BOOLEAN
    BY <1>21 DEF PowerLoss
  <2>6. QED
    BY <1>21, <2>2, <2>3, <2>4, <2>5 DEF PowerLoss
<1>22. CASE UNCHANGED vars
  BY <1>22 DEF vars, LdcState
<1>23. QED
  BY <1>1, <1>2, <1>3, <1>4, <1>5, <1>6, <1>7, <1>8, <1>9, <1>10, <1>11, <1>12,
     <1>13, <1>14, <1>15, <1>16, <1>17, <1>18, <1>19, <1>20, <1>21, <1>22
     DEF Next, Booting, Script

-----------------------------------------------------------------------------
(***************************************************************************)
(* What is copied was compared with the manifest, and a whole image that   *)
(* is not yet on the eMMC is the one the script has just copied.           *)
(***************************************************************************)
Window == {"mvsync", "cp", "copying", "cpsync"}

Compared ==
  /\ pc \in {"remount", "mv"} \cup Window =>
       \A c \in todo : ldc.new[c] \in Versions /\ ldc.json[c] = ldc.new[c]
  /\ pc \in Window => cur \in todo
  /\ pc = "cpsync" => boot.base[cur] = ldc.new[cur]

Unsynced ==
  \A c \in Parts : boot.base[c] \in Versions /\ disk.base[c] # boot.base[c] =>
    pc = "cpsync" /\ c = cur /\ boot.base[c] = ldc.new[c]

(***************************************************************************)
(* What one failure leaves: every part starts from its file or, when the   *)
(* file is gone, from the backup of what was there before the update.      *)
(***************************************************************************)
Kept(fs, c) == fs.bak[c] = prev[c] /\ prev[c] \in Versions

After(c) == CASE c = SCR -> {BIN, IMG} [] c = BIN -> {IMG} [] c = IMG -> {}

NoFault ==
  faults = 0 =>
    /\ \A c \in Parts : c # cur \/ pc \notin Window =>
         boot.base[c] \in Versions /\ disk.base[c] \in Versions
    /\ pc \in Window => Kept(boot, cur)
    /\ pc = "mvsync" => disk.base[cur] \in Versions
    /\ pc \in Window \ {"mvsync"} => Kept(disk, cur)
    /\ pc = "remount" => prev = boot.base
    /\ pc = "mv" => prev[cur] = boot.base[cur]
    /\ pc \in {"mv"} \cup Window => \A c \in After(cur) : prev[c] = boot.base[c]

OneFault ==
  faults = 1 =>
    \A c \in Parts : c # cur \/ pc \notin Window =>
      /\ boot.base[c] \in Versions \/ Kept(boot, c)
      /\ disk.base[c] \in Versions \/ Kept(disk, c)

Remounted == pc \in {"rm", "elf"} => disk = boot

\* Slot s of part c was tried after all the slots before it.
FellBack(c, s) ==
  /\ s >= 1 => boot.base[c] \notin Versions
  /\ s = 2 => boot.bak[c] \notin Versions

Boots ==
  /\ phase \in {"uboot", "img"} \/ pc = "autostart" => FellBack(BIN, running[BIN])
  /\ phase = "img" => FellBack(IMG, try)
  /\ pc = "autostart" => FellBack(IMG, running[IMG])

InstallInv == Compared /\ Unsynced
FaultInv == NoFault /\ OneFault /\ Remounted /\ Boots

\* Nothing is being installed at first, and the eMMC holds what /boot shows.
LEMMA InstallInit == Init => InstallInv
  BY DEF Init, InstallInv, Compared, Unsynced, Window

\* Only a part whose sum was compared (step 2) is copied, and only the copy just
\* made is ahead of the eMMC.
LEMMA InstallStep ==
  ASSUME Inv, InstallInv, [Next]_vars
  PROVE  InstallInv'
<1> USE DEF Inv, TypeOK, Phases, FileSystem, bootVars, history, InstallInv, Compared, Unsynced, Window
<1>1. CASE BootRom
  BY <1>1 DEF BootRom
<1>2. CASE LoadScript
  BY <1>2 DEF LoadScript
<1>3. CASE TryImage
  BY <1>3 DEF TryImage
<1>4. CASE Autostart
  BY <1>4 DEF Autostart, CountTars
<1>5. CASE RunByHand
  BY <1>5 DEF RunByHand, CountTars
<1>6. CASE Upload
  BY <1>6 DEF Upload
<1>7. CASE Reboot
  BY <1>7 DEF Reboot
<1>8. CASE Untar
  BY <1>8 DEF Untar
<1>9. CASE Check
  <2>1. \A c \in Differs : SumsMatch => ldc.new[c] \in Versions /\ ldc.json[c] = ldc.new[c]
    BY DEF Differs, SumsMatch, LdcState
  <2>2. QED
    BY <1>9, <2>1 DEF Check
<1>10. CASE Remount
  BY <1>10 DEF Remount
<1>11. CASE Skip
  BY <1>11, NextPartType DEF Skip
<1>12. CASE Backup
  <2>1. \A c \in Parts : boot'.base[c] \in Versions => boot'.base[c] = boot.base[c]
    <3>1. CASE boot.base[cur] = Absent
      BY <1>12, <3>1 DEF Backup
    <3>2. CASE boot.base[cur] # Absent
      BY <1>12, <3>2, MovedFile
    <3>3. QED
      BY <3>1, <3>2
  <2>2. QED
    BY <1>12, <2>1 DEF Backup
<1>13. CASE SyncBackup
  BY <1>13 DEF SyncBackup
<1>14. CASE CopyBegin
  <2>1. \A c \in Parts : boot'.base[c] \in Versions => boot'.base[c] = boot.base[c]
    BY <1>14 DEF CopyBegin
  <2>2. QED
    BY <1>14, <2>1 DEF CopyBegin
<1>15. CASE CopyEnd
  <2>1. boot'.base[cur] = ldc.new[cur] /\ \A c \in Parts \ {cur} : boot'.base[c] = boot.base[c]
    BY <1>15 DEF CopyEnd
  <2>2. QED
    BY <1>15, <2>1 DEF CopyEnd
<1>16. CASE CopyFails
  BY <1>16, NextPartType DEF CopyFails
<1>17. CASE SyncCopy
  BY <1>17, NextPartType DEF SyncCopy
<1>18. CASE RemountRo
  BY <1>18 DEF RemountRo
<1>19. CASE Cleanup
  BY <1>19 DEF Cleanup
<1>20. CASE RetireElf
  BY <1>20 DEF RetireElf
<1>21. CASE PowerLoss
  BY <1>21 DEF PowerLoss
<1>22. CASE UNCHANGED vars
  BY <1>22 DEF vars
<1>23. QED
  BY <1>1, <1>2, <1>3, <1>4, <1>5, <1>6, <1>7, <1>8, <1>9, <1>10, <1>11, <1>12,
     <1>13, <1>14, <1>15, <1>16, <1>17, <1>18, <1>19, <1>20, <1>21, <1>22
     DEF Next, Booting, Script

(***************************************************************************)
(* A step brings a whole image to the eMMC only by a sync, and a sync      *)
(* writes what was compared.                                               *)
(***************************************************************************)
LEMMA InstallAction ==
  ASSUME Inv, InstallInv, [Next]_vars,
         NEW c \in Parts, disk'.base[c] # disk.base[c], disk'.base[c] \in Versions
  PROVE  disk'.base[c] = ldc.json[c]
<1> USE DEF Inv, TypeOK, Phases, FileSystem, bootVars, history, InstallInv, Compared, Unsynced, Window
<1>1. CASE disk' = boot
  BY <1>1
<1>2. CASE disk' = disk
  BY <1>2
<1>3. CASE PowerLoss
  <2>1. disk' \in {disk, boot} \/ disk' = [boot EXCEPT !.base[cur] = Partial]
    BY <1>3 DEF PowerLoss, Survivors
  <2>2. CASE disk' = [boot EXCEPT !.base[cur] = Partial]
    <3>1. c # cur /\ disk'.base[c] = boot.base[c]
      BY <2>2
    <3>2. QED
      BY <3>1
  <2>3. QED
    BY <1>1, <1>2, <2>1, <2>2
<1>4. QED
  BY <1>1, <1>2, <1>3
     DEF Next, Booting, Script, vars, BootRom, LoadScript, TryImage, Upload, Reboot, Autostart,
         RunByHand, Untar, Check, Remount, Skip, Backup, SyncBackup, CopyBegin, CopyEnd,
         CopyFails, SyncCopy, RemountRo, Cleanup, RetireElf

\* VerifiedInstall for every set of versions and archives, every number of
\* uploads and power losses.
THEOREM VerifiedInstallation == Spec => VerifiedInstall
<1>1. Inv /\ InstallInv /\ [Next]_vars =>
        [\A c \in Parts :
           disk'.base[c] # disk.base[c] /\ disk'.base[c] \in Versions
             => disk'.base[c] = ldc.json[c]]_vars
  BY InstallAction
<1>2. Spec => [](Inv /\ InstallInv)
  BY InitInv, StepInv, InstallInit, InstallStep, PTL DEF Spec
<1>3. QED
  BY <1>1, <1>2, PTL DEF Spec, VerifiedInstall

-----------------------------------------------------------------------------
\* A fresh device has no failure behind it.
LEMMA FaultInit == Init => FaultInv
<1> SUFFICES ASSUME Init
             PROVE  FaultInv
  OBVIOUS
<1>1. pc \notin Window /\ pc = "off" /\ phase = "off" /\ faults = 0
  BY DEF Init, Window
<1>2. \A c \in Parts : boot.base[c] \in Versions /\ disk.base[c] \in Versions
  BY DEF Init
<1>3. QED
  BY <1>1, <1>2 DEF FaultInv, NoFault, OneFault, Remounted, Boots, Window

(***************************************************************************)
(* The steps that touch /boot or count a failure.                          *)
(***************************************************************************)
LEMMA FaultStep ==
  ASSUME Inv, InstallInv, FaultInv, [Next]_vars
  PROVE  NoFault' /\ OneFault' /\ Remounted'
<1> USE DEF Inv, TypeOK, Phases, FileSystem, bootVars, history, FaultInv, NoFault, OneFault,
            Remounted, Window, Kept, After
<1>1. CASE BootRom
  BY <1>1 DEF BootRom
<1>2. CASE LoadScript
  BY <1>2 DEF LoadScript
<1>3. CASE TryImage
  BY <1>3 DEF TryImage
<1>4. CASE Autostart
  BY <1>4 DEF Autostart, CountTars
<1>5. CASE RunByHand
  BY <1>5 DEF RunByHand, CountTars
<1>6. CASE Upload
  BY <1>6 DEF Upload
<1>7. CASE Reboot
  BY <1>7 DEF Reboot
<1>8. CASE Untar
  BY <1>8 DEF Untar
<1>9. CASE Check
  BY <1>9 DEF Check
<1>10. CASE Remount
  BY <1>10 DEF Remount
<1>11. CASE Skip
  BY <1>11 DEF Skip, NextPart
<1>12. CASE Backup
  <2>1. CASE boot.base[cur] = Absent
    BY <1>12, <2>1 DEF Backup
  <2>2. CASE boot.base[cur] # Absent
    BY <1>12, <2>2, MovedFile DEF Backup
  <2>3. QED
    BY <2>1, <2>2
<1>13. CASE SyncBackup
  BY <1>13 DEF SyncBackup
<1>14. CASE CopyBegin
  <2>1. boot'.bak = boot.bak /\ \A c \in Parts \ {cur} : boot'.base[c] = boot.base[c]
    BY <1>14 DEF CopyBegin
  <2>2. QED
    BY <1>14, <2>1 DEF CopyBegin
<1>15. CASE CopyEnd
  <2>1. boot'.bak = boot.bak /\ \A c \in Parts \ {cur} : boot'.base[c] = boot.base[c]
    BY <1>15 DEF CopyEnd
  <2>2. QED
    BY <1>15, <2>1 DEF CopyEnd
<1>16. CASE CopyFails
  <2>1. pc = "copying" /\ pc' \in {"mv", "remountro"} /\ boot' = boot /\ disk' = disk /\ prev' = prev
    BY <1>16 DEF CopyFails, NextPart
  <2>2. faults' # 0 /\ (faults' = 1 => faults = 0)
    BY <1>16 DEF CopyFails, AddFault
  <2>3. QED
    BY <2>1, <2>2
<1>17. CASE SyncCopy
  <2>1. boot.base[cur] \in Versions
    BY <1>17 DEF SyncCopy, InstallInv, Compared
  <2>2. QED
    BY <1>17, <2>1 DEF SyncCopy, NextPart
<1>18. CASE RemountRo
  BY <1>18 DEF RemountRo
<1>19. CASE Cleanup
  BY <1>19 DEF Cleanup
<1>20. CASE RetireElf
  BY <1>20 DEF RetireElf, Whole
<1>21. CASE PowerLoss
  <2>1. pc' = "off" /\ boot' = disk' /\ prev' = prev
    BY <1>21 DEF PowerLoss
  <2>2. CASE Whole(disk')
    BY <1>21, <2>1, <2>2 DEF PowerLoss, Whole
  <2>3. CASE ~Whole(disk')
    <3>1. faults' # 0 /\ (faults' = 1 => faults = 0)
      BY <1>21, <2>3 DEF PowerLoss, AddFault
    <3>2. ASSUME faults = 0, NEW c \in Parts
          PROVE  disk'.base[c] \in Versions \/ Kept(disk', c)
      <4>1. \/ disk' \in {disk, boot}
            \/ pc = "cpsync" /\ disk' = [boot EXCEPT !.base[cur] = Partial]
        BY <1>21, <3>2 DEF PowerLoss, Survivors, InstallInv, Unsynced
      <4>2. CASE disk' \in {disk, boot}
        BY <3>2, <4>2
      <4>3. CASE pc = "cpsync" /\ disk' = [boot EXCEPT !.base[cur] = Partial]
        <5>1. disk'.bak = boot.bak /\ \A d \in Parts \ {cur} : disk'.base[d] = boot.base[d]
          BY <4>3
        <5>2. QED
          BY <3>2, <4>3, <5>1
      <4>4. QED
        BY <4>1, <4>2, <4>3
    <3>3. QED
      BY <2>1, <3>1, <3>2
  <2>4. QED
    BY <2>2, <2>3
<1>22. CASE UNCHANGED vars
  BY <1>22 DEF vars
<1>23. QED
  BY <1>1, <1>2, <1>3, <1>4, <1>5, <1>6, <1>7, <1>8, <1>9, <1>10, <1>11, <1>12,
     <1>13, <1>14, <1>15, <1>16, <1>17, <1>18, <1>19, <1>20, <1>21, <1>22
     DEF Next, Booting, Script

(***************************************************************************)
(* The steps that choose a slot.                                           *)
(***************************************************************************)
LEMMA BootsStep ==
  ASSUME Inv, FaultInv, [Next]_vars
  PROVE  Boots'
<1> USE DEF Inv, TypeOK, Phases, FileSystem, bootVars, FaultInv, Boots, FellBack
<1>1. CASE BootRom
  <2>1. PICK s \in 0..LastSlot :
          /\ running' = [running EXCEPT ![BIN] = s]
          /\ \A t \in 0..(s - 1) : InSlot(disk, BIN, t) \notin Versions
    BY <1>1 DEF BootRom
  <2>2. InSlot(disk, BIN, 0) = disk.base[BIN] /\ InSlot(disk, BIN, 1) = disk.bak[BIN]
    BY DEF InSlot
  <2>3. /\ s >= 1 => disk.base[BIN] \notin Versions
        /\ s = 2 => disk.bak[BIN] \notin Versions
    BY <2>1, <2>2
  <2>4. QED
    BY <1>1, <2>1, <2>3 DEF BootRom
<1>2. CASE LoadScript
  BY <1>2 DEF LoadScript
<1>3. CASE TryImage
  <2>1. InSlot(boot, IMG, 0) = boot.base[IMG] /\ InSlot(boot, IMG, 1) = boot.bak[IMG]
    BY DEF InSlot
  <2>2. boot' = boot /\ running'[BIN] = running[BIN] /\ phase = "img" /\ try \in 0..LastSlot
    BY <1>3 DEF TryImage
  <2>3. CASE InSlot(boot, IMG, try) \in Versions
    BY <1>3, <2>2, <2>3 DEF TryImage
  <2>4. CASE InSlot(boot, IMG, try) \notin Versions
    BY <1>3, <2>1, <2>2, <2>4 DEF TryImage
  <2>5. QED
    BY <2>3, <2>4
<1>4. CASE PowerLoss \/ Reboot
  BY <1>4 DEF PowerLoss, Reboot
<1>5. CASE Script \/ RunByHand \/ Upload
  <2>1. phase = "up" /\ phase' = "up" /\ pc' # "autostart"
    BY <1>5, NextPartType
       DEF Script, Autostart, CountTars, RunByHand, Upload, Untar, Check, Remount, Skip, Backup,
           SyncBackup, CopyBegin, CopyEnd, CopyFails, SyncCopy, RemountRo, Cleanup, RetireElf
  <2>2. QED
    BY <2>1
<1>6. CASE UNCHANGED vars
  BY <1>6 DEF vars
<1>7. QED
  BY <1>1, <1>2, <1>3, <1>4, <1>5, <1>6 DEF Next, Booting

\* The inductive invariant.
IInv == Inv /\ InstallInv /\ FaultInv

\* The inductive invariant holds in every reachable state, for every set of
\* versions and archives and every number of uploads and power losses.
THEOREM Invariants == Spec => []IInv
<1>1. Init => IInv
  BY InitInv, InstallInit, FaultInit DEF IInv
<1>2. IInv /\ [Next]_vars => IInv'
  BY StepInv, InstallStep, FaultStep, BootsStep DEF IInv, FaultInv
<1>3. QED
  BY <1>1, <1>2, PTL DEF Spec

\* Type correctness of the boot, of the file systems and of the script's state.
THEOREM TypeCorrect == Spec => []TypeOK
<1>1. IInv => TypeOK
  BY DEF IInv, Inv
<1>2. QED
  BY <1>1, Invariants, PTL

\* The boot stops at the U-Boot prompt only for want of a boot.scr: the copies
\* made at deployment always start.
THEOREM FallbackBoots == Spec => []DeadOnlyWithoutScript
<1>1. IInv => DeadOnlyWithoutScript
  BY DEF IInv, Inv, Phases, DeadOnlyWithoutScript
<1>2. QED
  BY <1>1, Invariants, PTL

\* The index the state message reports is that of the image that runs.
THEOREM HonestBootIndex == Spec => []BootIndexHonest
<1>1. IInv => BootIndexHonest
  BY DEF IInv, Inv, Phases, BootIndexHonest
<1>2. QED
  BY <1>1, Invariants, PTL

\* No boot falls back further than there were failures, and after one failure it
\* starts what /boot held before that update.
THEOREM OneFaultRecovers == Spec => []OneFaultKeepsPrevious
<1>1. IInv => OneFaultKeepsPrevious
  <2> USE DEF IInv, Inv, TypeOK, FaultInv, Window
  <2>1. SUFFICES ASSUME IInv, pc = "autostart", NEW c \in {BIN, IMG}
                 PROVE  /\ running[c] <= faults
                        /\ running[c] = 1 /\ faults = 1 => boot.bak[c] = prev[c]
    BY DEF OneFaultKeepsPrevious
  <2>2. FellBack(c, running[c]) /\ running[c] \in 0..2 /\ faults \in 0..2
    BY <2>1 DEF Boots
  <2>3. faults = 0 => boot.base[c] \in Versions
    BY <2>1 DEF NoFault
  <2>4. faults = 1 => boot.base[c] \in Versions \/ Kept(boot, c)
    BY <2>1 DEF OneFault
  <2>5. QED
    BY <2>2, <2>3, <2>4 DEF FellBack, Kept
<1>2. QED
  BY <1>1, Invariants, PTL

-----------------------------------------------------------------------------
(***************************************************************************)
(* "all done", for archives that arrived whole and copies that do not      *)
(* fail; ota_hidden shows that it needs the second hypothesis.             *)
(***************************************************************************)
NoBadFiles == ~CpMayFail /\ \A p \in Packages : p.whole

Listed == \A c \in Parts : ldc.json[c] # Absent => ldc.new[c] = ldc.json[c]
Installed(c) == ldc.new[c] # Absent => boot.base[c] = ldc.new[c]
Reported == \A c \in Parts : ldc.json[c] # Absent => boot.base[c] = ldc.json[c]

\* How far the installation of the listed parts has come.
DoneInv ==
  /\ pc \in {"check", "remount", "mv", "remountro", "rm"} \cup Window => Listed
  /\ pc \in {"remount", "mv"} \cup Window => \A c \in Parts \ todo : Installed(c)
  /\ pc \in {"mv"} \cup Window => \A c \in Parts \ (After(cur) \cup {cur}) : Installed(c)
  /\ pc \in {"remountro", "rm"} => \A c \in Parts : Installed(c)
  /\ pc = "elf" => Reported
  /\ done => Reported /\ disk = boot /\ pc \in {"off", "autostart", "idle"}

\* The part just dealt with is installed, so all up to it are.
LEMMA PartDone ==
  ASSUME Inv, DoneInv, pc \in {"mv"} \cup Window, NextPart, Installed(cur),
         UNCHANGED <<boot, ldc, todo, done>>
  PROVE  DoneInv'
<1> USE DEF Inv, TypeOK
<1>1. ~done /\ ~done' /\ Listed'
  BY DEF DoneInv, Listed, Window
<1>2. \A c \in Parts : Installed(c)' <=> Installed(c)
  BY DEF Installed
<1>3. \A c \in Parts \ After(cur) : Installed(c)
  BY DEF DoneInv
<1>4. \/ pc' = "mv" /\ Parts \ (After(cur') \cup {cur'}) = Parts \ After(cur)
      \/ pc' = "remountro" /\ After(cur) = {}
  <2>1. CASE cur = SCR
    <3>1. pc' = "mv" /\ cur' = BIN
      BY <2>1 DEF NextPart
    <3> QED
      BY <2>1, <3>1 DEF After
  <2>2. CASE cur = BIN
    <3>1. pc' = "mv" /\ cur' = IMG
      BY <2>2 DEF NextPart
    <3> QED
      BY <2>2, <3>1 DEF After
  <2>3. CASE cur = IMG
    BY <2>3 DEF NextPart, After
  <2>4. QED
    BY <2>1, <2>2, <2>3
<1>5. \A c \in Parts \ todo : Installed(c)
  BY DEF DoneInv
<1> HIDE DEF Inv, TypeOK
<1>6. QED
  BY <1>1, <1>2, <1>3, <1>4, <1>5 DEF DoneInv, Window

\* A step of the script installs no part but the current one, and forgets none.
LEMMA DoneStep ==
  ASSUME NoBadFiles, Inv, InstallInv, FaultInv, DoneInv, [Next]_vars
  PROVE  DoneInv'
<1> USE DEF Inv, TypeOK, Phases, FileSystem, bootVars, history
<1>1. CASE BootRom
  BY <1>1 DEF BootRom, DoneInv, Reported, Window
<1>2. CASE LoadScript
  BY <1>2 DEF LoadScript, DoneInv, Reported, Window
<1>3. CASE TryImage
  BY <1>3 DEF TryImage, DoneInv, Reported, Window
<1>4. CASE Autostart
  BY <1>4 DEF Autostart, CountTars, DoneInv, Window
<1>5. CASE RunByHand
  BY <1>5 DEF RunByHand, CountTars, DoneInv, Window
<1>6. CASE Upload
  BY <1>6 DEF Upload, DoneInv, Reported, Window
<1>7. CASE Reboot
  BY <1>7 DEF Reboot, DoneInv, Reported, Window
<1>8. CASE Untar
  <2>1. PICK p \in ldc.tars : ldc' = Unpacked(p)
    BY <1>8 DEF Untar, NoBadFiles, LdcState
  <2>2. p \in Archive /\ pc' = "check" /\ ~done'
    BY <1>8 DEF Untar, DoneInv, LdcState
  <2>3. Listed'
    BY <2>1, <2>2 DEF Unpacked, Manifest, Listed, LdcState
  <2> QED
    BY <2>2, <2>3 DEF DoneInv, Window
<1>9. CASE Check
  <2>1. Listed /\ ~done
    BY <1>9 DEF Check, DoneInv
  <2>2. Listed' /\ ~done' /\ pc' \in {"remount", "idle"}
    BY <1>9, <2>1 DEF Check, Listed
  <2>3. pc' = "remount" => todo' = Differs /\ UNCHANGED <<boot, ldc>>
    BY <1>9 DEF Check
  <2>4. pc' = "remount" => \A c \in Parts \ todo' : Installed(c)'
    BY <2>3 DEF Differs, Installed
  <2> QED
    BY <2>2, <2>4 DEF DoneInv, Window
<1>10. CASE Remount
  <2>1. After(SCR) \cup {SCR} = Parts
    BY DEF After
  <2> QED
    BY <1>10, <2>1 DEF Remount, DoneInv, Installed, Listed, Window
<1>11. CASE Skip
  <2>1. Installed(cur)
    BY <1>11 DEF Skip, DoneInv
  <2> QED
    BY <1>11, <2>1, PartDone DEF Skip
<1>12. CASE Backup
  <2>1. /\ pc = "mv" /\ pc' \in {"cp", "mvsync"} /\ cur \in todo
        /\ \A c \in Parts \ {cur} : boot'.base[c] = boot.base[c]
        /\ UNCHANGED <<ldc, todo, cur, done>>
    BY <1>12, MovedFile DEF Backup
  <2>2. \A c \in Parts \ {cur} : Installed(c)' <=> Installed(c)
    BY <2>1 DEF Installed
  <2> QED
    BY <2>1, <2>2 DEF DoneInv, Listed, Window
<1>13. CASE SyncBackup
  BY <1>13 DEF SyncBackup, DoneInv, Listed, Installed, Window
<1>14. CASE CopyBegin \/ CopyEnd
  <2>1. /\ pc \in {"cp", "copying"} /\ pc' \in {"copying", "cpsync"} /\ cur \in todo
        /\ \A c \in Parts \ {cur} : boot'.base[c] = boot.base[c]
        /\ UNCHANGED <<ldc, todo, cur, done>>
    BY <1>14 DEF CopyBegin, CopyEnd, InstallInv, Compared, Window
  <2>2. \A c \in Parts \ {cur} : Installed(c)' <=> Installed(c)
    BY <2>1 DEF Installed
  <2> QED
    BY <2>1, <2>2 DEF DoneInv, Listed, Window
<1>16. CASE CopyFails
  BY <1>16 DEF CopyFails, NoBadFiles
<1>17. CASE SyncCopy
  <2>1. Installed(cur)
    BY <1>17 DEF SyncCopy, InstallInv, Compared, Installed
  <2> QED
    BY <1>17, <2>1, PartDone DEF SyncCopy, Window
<1>18. CASE RemountRo
  BY <1>18 DEF RemountRo, DoneInv, Listed, Installed, Window
<1>19. CASE Cleanup
  <2>1. Reported
    BY <1>19 DEF Cleanup, DoneInv, Listed, Installed, Reported
  <2>2. ldc'.json = ldc.json /\ boot' = boot
    BY <1>19 DEF Cleanup, LdcState
  <2> QED
    BY <1>19, <2>1, <2>2 DEF Cleanup, DoneInv, Reported, Window
<1>20. CASE RetireElf
  <2>1. Reported' /\ disk' = boot' /\ pc' = "idle"
    BY <1>20 DEF RetireElf, DoneInv, Reported, FaultInv, Remounted
  <2> QED
    BY <2>1 DEF DoneInv, Window
<1>21. CASE PowerLoss
  <2>1. pc' = "off" /\ done' = done
    BY <1>21 DEF PowerLoss
  <2>2. CASE done
    <3>1. disk = boot /\ pc \notin {"untar", "rm"} /\ Reported
      BY <2>2 DEF DoneInv
    <3>2. Survivors = {boot} /\ LdcSurvivors = {ldc}
      <4>1. ~(boot.base[cur] \in Versions /\ disk.base[cur] # boot.base[cur])
        BY <3>1
      <4>2. Survivors = {disk, boot} \cup {}
        BY <4>1 DEF Survivors
      <4>3. LdcSurvivors = {ldc}
        <5>1. pc # "untar" /\ pc # "rm"
          BY <3>1
        <5>2. QED
          BY <5>1 DEF LdcSurvivors
      <4>4. QED
        BY <3>1, <4>2, <4>3
    <3>3. disk' = boot /\ boot' = boot /\ ldc' = ldc
      BY <1>21, <3>2 DEF PowerLoss
    <3> QED
      BY <2>1, <3>1, <3>3 DEF DoneInv, Reported, Window
  <2> QED
    BY <2>1, <2>2 DEF DoneInv, Window
<1>22. CASE UNCHANGED vars
  BY <1>22 DEF vars, DoneInv, Listed, Installed, Reported, Window
<1>23. QED
  BY <1>1, <1>2, <1>3, <1>4, <1>5, <1>6, <1>7, <1>8, <1>9, <1>10, <1>11, <1>12,
     <1>13, <1>14, <1>16, <1>17, <1>18, <1>19, <1>20, <1>21, <1>22
     DEF Next, Booting, Script

\* When copies do not fail and no archive is cut, "all done" (ota-update.sh:181) is true:
\* every part of the manifest is installed, whatever the power losses, older leftovers in
\* /ldc and reruns of the script.
THEOREM DoneIsTrue ==
  ASSUME NoBadFiles
  PROVE  Spec => []DoneMeansInstalled
<1>1. Init => DoneInv
  BY DEF Init, DoneInv, Window
<1>2. DoneInv => DoneMeansInstalled
  BY DEF DoneInv, DoneMeansInstalled, Reported
<1>3. IInv /\ DoneInv /\ [Next]_vars => DoneInv'
  BY DoneStep DEF IInv
<1>4. QED
  BY <1>1, <1>2, <1>3, Invariants, PTL DEF Spec
=============================================================================
