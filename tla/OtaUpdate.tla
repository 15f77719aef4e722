----------------------------- MODULE OtaUpdate -----------------------------
(***************************************************************************)
(* Firmware update over the eMMC boot partition and the boot that follows: *)
(* tools/ota-update.sh, the step of autostart that runs it, the U-Boot     *)
(* script boot.cmd.default.initrd that falls back from image.ub to         *)
(* image0001.ub and image0002.ub, and the BootROM's search for        *)
(* BOOT.BIN (external).                                                    *)
(*                                                                         *)
(* A file is abstracted to what it holds: nothing, part of an image, or a  *)
(* whole image of some version.  An MD5 sum tells these apart, so          *)
(* comparing sums is comparing contents.                                   *)
(***************************************************************************)
EXTENDS Naturals, FiniteSets

CONSTANTS
  Versions,    \* the firmware versions that exist
  Deployed,    \* the version deploy-emmc.sh put on the device
  Packages,    \* the archives an operator may upload
  MaxUploads,  \* bound: how many archives are uploaded
  MaxOutages,  \* bound: how many times power is lost
  CpMayFail    \* whether cp may hit an I/O error or a full partition

Absent  == "absent"
Partial == "partial"
Content == Versions \cup {Absent, Partial}

SCR == "boot.scr"
BIN == "BOOT.BIN"
IMG == "image.ub"
Parts == {SCR, BIN, IMG}

(***************************************************************************)
(* An archive: the version it carries, the parts it has, and whether it    *)
(* arrived whole (a cut upload makes tar stop half way).                   *)
(***************************************************************************)
Archive == [ver : Versions, parts : SUBSET Parts, whole : BOOLEAN]

ASSUME OtaAssumption ==
  /\ Deployed \in Versions
  /\ Absent \notin Versions /\ Partial \notin Versions
  /\ Packages \subseteq Archive
  /\ MaxUploads \in Nat /\ MaxOutages \in Nat
  /\ CpMayFail \in BOOLEAN

VARIABLES
  phase,    \* "off", "uboot", "img", "up", or "dead" (left at the U-Boot prompt)
  try,      \* the image slot the boot script tries next
  idx,      \* the byte 0x80020006 of the state BRAM
  running,  \* the slot BOOT.BIN and image.ub were started from
  boot,     \* /boot as the running kernel sees it
  disk,     \* /boot as it is on the eMMC
  ldc,      \* /ldc: the uploaded archives, what was unpacked, shub_ota.json
  elf,      \* whether /data/sensorhub.elf exists
  pc,       \* where ota-update.sh is; "idle" when it is not running
  cur,      \* the part it is updating
  todo,     \* the parts whose sums differ, as found in step 2
  done,     \* history: the last run printed "all done"
  outages,  \* bound counter: power losses so far
  uploads,  \* bound counter: uploads so far
  faults,   \* history: failures (at most 2 counted) since /boot was last whole
  prev      \* history: the contents of /boot before the first of them

bootVars == <<phase, try, idx, running>>
history  == <<outages, uploads, faults, prev>>
vars == <<bootVars, boot, disk, ldc, elf, pc, cur, todo, done, history>>

Whole(fs) == \A c \in Parts : fs.base[c] \in Versions

(***************************************************************************)
(* The three files a part can be started from: slot 0 is the file itself,  *)
(* slot 1 the backup the last update made, slot 2 the copy made at         *)
(* deployment, which no update touches.                                    *)
(***************************************************************************)
LastSlotNoOrigin == 1  \* mutant: the script has no third attempt
LastSlot == 2
InSlot(fs, c, s) ==
  CASE s = 0 -> fs.base[c]
    [] s = 1 -> fs.bak[c]
    [] s = 2 -> Deployed
    [] OTHER -> Absent

NoManifest == [c \in Parts |-> Absent]

Init ==
  /\ phase = "off" /\ try = 0 /\ idx = 0
  /\ running = [c \in {BIN, IMG} |-> 0]
  /\ boot = [base |-> [c \in Parts |-> Deployed], bak |-> [c \in Parts |-> Absent]]
  /\ disk = boot
  /\ ldc = [tars |-> {}, new |-> NoManifest, hasJson |-> FALSE, json |-> NoManifest]
  /\ elf \in BOOLEAN
  /\ pc = "off" /\ cur = SCR /\ todo = {} /\ done = FALSE
  /\ outages = 0 /\ uploads = 0 /\ faults = 0
  /\ prev = boot.base

-----------------------------------------------------------------------------
(* Booting. *)

\* The BootROM takes the first BOOT.BIN whose header is good (multiboot).
BootRom ==
  /\ phase = "off"
  /\ \E s \in 0..LastSlot :
       /\ InSlot(disk, BIN, s) \in Versions
       /\ \A t \in 0..(s - 1) : InSlot(disk, BIN, t) \notin Versions
       /\ running' = [running EXCEPT ![BIN] = s]
  /\ phase' = "uboot"
  /\ boot' = disk
  /\ UNCHANGED <<try, idx, disk, ldc, elf, pc, cur, todo, done, history>>

\* U-Boot looks for boot.scr, and for no other script, and runs it.
LoadScript ==
  /\ phase = "uboot"
  /\ phase' = IF boot.base[SCR] \in Versions THEN "img" ELSE "dead"
  /\ try' = 0
  /\ UNCHANGED <<idx, running, boot, disk, ldc, elf, pc, cur, todo, done, history>>

\* mutant: the block of the backup does not write the byte
NotedOnceOnly(image) == IF image = Absent \/ try = 1 THEN idx ELSE try

NotedFromOne(image) == IF image = Absent THEN idx ELSE try + 1  \* mutant: slots from 1

NotedSlot(image) == IF image = Absent THEN idx ELSE try

\* One `if test -e' block of the script: note the slot, load it, bootm, which
\* comes back when the image is not good.
TryImage ==
  /\ phase = "img"
  /\ LET image == InSlot(boot, IMG, try)
         starts == image \in Versions
     IN /\ idx' = NotedSlot(image)
        /\ running' = IF starts THEN [running EXCEPT ![IMG] = try] ELSE running
        /\ phase' = IF starts THEN "up" ELSE IF try < LastSlot THEN "img" ELSE "dead"
        /\ pc' = IF starts THEN "autostart" ELSE pc
        /\ try' = try + 1
  /\ UNCHANGED <<boot, disk, ldc, elf, cur, todo, done, history>>

-----------------------------------------------------------------------------
(* What happens around the script. *)

\* The operator copies an archive to /ldc.
Upload ==
  /\ phase = "up" /\ pc = "idle" /\ uploads < MaxUploads
  /\ \E p \in Packages : ldc' = [ldc EXCEPT !.tars = @ \cup {p}]
  /\ uploads' = uploads + 1
  /\ UNCHANGED <<bootVars, boot, disk, elf, pc, cur, todo, done, outages, faults, prev>>

Reboot ==
  /\ phase = "up" /\ pc = "idle"
  /\ phase' = "off" /\ pc' = "off"
  /\ disk' = boot
  /\ UNCHANGED <<try, idx, running, boot, ldc, elf, cur, todo, done, history>>

OnlyOneTar == \E p \in ldc.tars : ldc.tars = {p}

\* Step 1.1 of the script: with exactly one archive go on, otherwise delete.
CountTars ==
  IF OnlyOneTar
  THEN pc' = "untar" /\ UNCHANGED ldc
  ELSE pc' = "idle" /\ ldc' = [ldc EXCEPT !.tars = {}]

\* Step 9 of autostart: `[ -f ... ]' is true for one archive only.
Autostart ==
  /\ phase = "up" /\ pc = "autostart"
  /\ IF OnlyOneTar THEN CountTars ELSE pc' = "idle" /\ UNCHANGED ldc
  /\ done' = FALSE
  /\ UNCHANGED <<bootVars, boot, disk, elf, cur, todo, history>>

RunByHand ==
  /\ phase = "up" /\ pc = "idle" /\ ldc.tars # {}
  /\ CountTars
  /\ done' = FALSE
  /\ UNCHANGED <<bootVars, boot, disk, elf, cur, todo, history>>

-----------------------------------------------------------------------------
(* ota-update.sh. *)

Manifest(p) == [c \in Parts |-> IF c \in p.parts THEN p.ver ELSE Absent]

\* /ldc after archive p was unpacked: every member replaces its old file.
Unpacked(p) ==
  [ldc EXCEPT !.new = [c \in Parts |-> IF c \in p.parts THEN p.ver ELSE @[c]],
              !.hasJson = TRUE, !.json = Manifest(p)]

Mixed(f, g) == {h \in [Parts -> Content] : \A c \in Parts : h[c] \in {f[c], g[c]}}

\* /ldc when unpacking p stopped somewhere: some members are there and one may
\* be cut; a cut shub_ota.json gives jq nothing to print.
HalfUnpacked(p) ==
  LET some == Mixed(ldc.new, Unpacked(p).new)
      cut  == {[f EXCEPT ![c] = Partial] : f \in some, c \in p.parts}
      manifests == {ldc, [ldc EXCEPT !.hasJson = TRUE, !.json = NoManifest],
                         [ldc EXCEPT !.hasJson = TRUE, !.json = Manifest(p)]}
  IN {[l EXCEPT !.new = n] : l \in manifests, n \in some \cup cut}

\* `tar && sync': when tar fails, set -e does not stop the script, because
\* tar is not the last command of the list.
Untar ==
  /\ pc = "untar"
  /\ \E p \in ldc.tars : ldc' \in IF p.whole THEN {Unpacked(p)} ELSE HalfUnpacked(p)
  /\ pc' = "check"
  /\ UNCHANGED <<bootVars, boot, disk, elf, cur, todo, done, history>>

SumsUnchecked == TRUE  \* mutant: the sums are printed, not compared

\* Step 2: every unpacked part must have the sum that shub_ota.json gives it.
SumsMatch == \A c \in Parts : ldc.new[c] # Absent => ldc.json[c] = ldc.new[c]

\* mutant: a part whose base file is missing is taken for unchanged
DiffersIfThere ==
  {c \in Parts : ldc.new[c] # Absent /\ boot.base[c] \notin {Absent, ldc.new[c]}}

Differs == {c \in Parts : ldc.new[c] # Absent /\ boot.base[c] # ldc.new[c]}

Check ==
  /\ pc = "check"
  /\ IF ldc.hasJson /\ SumsMatch
     THEN /\ pc' = "remount"
          /\ todo' = Differs
          /\ prev' = IF faults = 0 THEN boot.base ELSE prev
     ELSE pc' = "idle" /\ UNCHANGED <<todo, prev>>
  /\ UNCHANGED <<bootVars, boot, disk, ldc, elf, cur, done, outages, uploads, faults>>

\* Step 3: umount, then mount read-write; a busy /boot ends the script (set -e).
Remount ==
  /\ pc = "remount"
  /\ pc' \in {"mv", "idle"}
  /\ cur' = SCR
  /\ UNCHANGED <<bootVars, boot, disk, ldc, elf, todo, done, history>>

\* Steps 4, 5 and 6 take the parts in this order, then comes step 7.
NextPart ==
  CASE cur = SCR -> pc' = "mv" /\ cur' = BIN
    [] cur = BIN -> pc' = "mv" /\ cur' = IMG
    [] cur = IMG -> pc' = "remountro" /\ UNCHANGED cur

\* The sums are the same: skip.
Skip ==
  /\ pc = "mv" /\ cur \notin todo
  /\ NextPart
  /\ UNCHANGED <<bootVars, boot, disk, ldc, elf, todo, done, history>>

\* mutant: the new file is copied over the old one
NoBackup ==
  /\ pc = "mv" /\ cur \in todo
  /\ pc' = "cp"
  /\ UNCHANGED <<bootVars, boot, disk, ldc, elf, cur, todo, done, history>>

\* mutant: the script stops when mv fails
BackupOrExit ==
  /\ pc = "mv" /\ cur \in todo
  /\ IF boot.base[cur] = Absent
     THEN pc' = "idle" /\ UNCHANGED boot
     ELSE /\ boot' = [boot EXCEPT !.bak[cur] = boot.base[cur], !.base[cur] = Absent]
          /\ pc' = "mvsync"
  /\ UNCHANGED <<bootVars, disk, ldc, elf, cur, todo, done, history>>

\* `mv base bak && sync': mv fails when the file is not there, and that
\* neither syncs nor stops the script.
Backup ==
  /\ pc = "mv" /\ cur \in todo
  /\ IF boot.base[cur] = Absent
     THEN pc' = "cp" /\ UNCHANGED boot
     ELSE /\ boot' = [boot EXCEPT !.bak[cur] = boot.base[cur], !.base[cur] = Absent]
          /\ pc' = "mvsync"
  /\ UNCHANGED <<bootVars, disk, ldc, elf, cur, todo, done, history>>

SyncBackup ==
  /\ pc = "mvsync"
  /\ disk' = boot
  /\ pc' = "cp"
  /\ UNCHANGED <<bootVars, boot, ldc, elf, cur, todo, done, history>>

CopyBegin ==
  /\ pc = "cp"
  /\ boot' = [boot EXCEPT !.base[cur] = Partial]
  /\ pc' = "copying"
  /\ UNCHANGED <<bootVars, disk, ldc, elf, cur, todo, done, history>>

CopyEnd ==
  /\ pc = "copying"
  /\ boot' = [boot EXCEPT !.base[cur] = ldc.new[cur]]
  /\ pc' = "cpsync"
  /\ UNCHANGED <<bootVars, disk, ldc, elf, cur, todo, done, history>>

AddFault == faults' = IF faults < 2 THEN faults + 1 ELSE faults

\* cp fails: `cp && sync' again hides it, and the script goes on.
CopyFails ==
  /\ pc = "copying" /\ CpMayFail
  /\ NextPart
  /\ AddFault
  /\ UNCHANGED <<bootVars, boot, disk, ldc, elf, todo, done, outages, uploads, prev>>

SyncCopy ==
  /\ pc = "cpsync"
  /\ disk' = boot
  /\ NextPart
  /\ UNCHANGED <<bootVars, boot, ldc, elf, todo, done, history>>

\* Step 7: umount writes back what is left, then mount read-only; a busy /boot
\* ends the script here too.
RemountRo ==
  /\ pc = "remountro"
  /\ \/ disk' = boot /\ pc' = "rm"
     \/ UNCHANGED disk /\ pc' = "idle"
  /\ UNCHANGED <<bootVars, boot, ldc, elf, cur, todo, done, history>>

\* Step 8: delete the archive and the unpacked parts, but not shub_ota.json.
Cleanup ==
  /\ pc = "rm"
  /\ ldc' = [ldc EXCEPT !.tars = {}, !.new = NoManifest]
  /\ pc' = "elf"
  /\ UNCHANGED <<bootVars, boot, disk, elf, cur, todo, done, history>>

\* Step 9: put a user's R5 firmware aside; then "all done".
RetireElf ==
  /\ pc = "elf"
  /\ elf' = FALSE
  /\ pc' = "idle"
  /\ done' = TRUE
  /\ faults' = IF Whole(boot) THEN 0 ELSE faults
  /\ UNCHANGED <<bootVars, boot, disk, ldc, cur, todo, outages, uploads, prev>>

-----------------------------------------------------------------------------
(* Power loss. *)

\* What can be on /boot: all that was not synced is lost, none of it is, or
\* the file being copied is cut.
Survivors ==
  {disk, boot} \cup
  (IF boot.base[cur] \in Versions /\ disk.base[cur] # boot.base[cur]
   THEN {[boot EXCEPT !.base[cur] = Partial]} ELSE {})

\* What can be on /ldc when the loss hits tar or rm.
LdcSurvivors ==
  CASE pc = "untar" -> UNION {HalfUnpacked(p) : p \in ldc.tars}
    [] pc = "rm" ->
         { [l EXCEPT !.new = n] :
             l \in {ldc, [ldc EXCEPT !.tars = {}]}, n \in Mixed(ldc.new, NoManifest) }
    [] OTHER -> {ldc}

PowerLoss ==
  /\ phase = "up" /\ outages < MaxOutages
  /\ outages' = outages + 1
  /\ disk' \in Survivors
  /\ boot' = disk'
  /\ ldc' \in LdcSurvivors
  /\ elf' \in IF pc = "elf" THEN {elf, FALSE} ELSE {elf}
  /\ phase' = "off" /\ pc' = "off"
  /\ IF Whole(disk') THEN UNCHANGED faults ELSE AddFault
  /\ UNCHANGED <<try, idx, running, cur, todo, done, uploads, prev>>

-----------------------------------------------------------------------------
Booting == BootRom \/ LoadScript \/ TryImage
Script ==
  \/ Autostart \/ Untar \/ Check \/ Remount \/ Skip \/ Backup \/ SyncBackup
  \/ CopyBegin \/ CopyEnd \/ CopyFails \/ SyncCopy \/ RemountRo \/ Cleanup \/ RetireElf

Next == Booting \/ Script \/ RunByHand \/ Upload \/ Reboot \/ PowerLoss

Spec == Init /\ [][Next]_vars

(***************************************************************************)
(* The device boots and runs its scripts; the operator reboots it now and  *)
(* then; and /boot is not busy at every attempt to unmount it.             *)
(***************************************************************************)
Fairness ==
  /\ WF_vars(Booting) /\ WF_vars(Script) /\ WF_vars(Reboot)
  /\ SF_vars(Remount /\ pc' = "mv")
  /\ SF_vars(RemountRo /\ pc' = "rm")

LiveSpec == Spec /\ Fairness
-----------------------------------------------------------------------------
FileSystem == [base : [Parts -> Content], bak : [Parts -> Content]]
LdcState == [tars : SUBSET Packages, new : [Parts -> Content],
             hasJson : BOOLEAN, json : [Parts -> Versions \cup {Absent}]]

\* The kinds of values the state of OtaUpdate takes.
TypeOK ==
  /\ phase \in {"off", "uboot", "img", "up", "dead"}
  /\ try \in 0..(LastSlot + 1) /\ idx \in 0..LastSlot
  /\ running \in [{BIN, IMG} -> 0..LastSlot]
  /\ boot \in FileSystem /\ disk \in FileSystem
  /\ ldc \in LdcState /\ elf \in BOOLEAN
  /\ pc \in {"off", "autostart", "idle", "untar", "check", "remount", "mv", "mvsync",
             "cp", "copying", "cpsync", "remountro", "rm", "elf"}
  /\ cur \in Parts /\ todo \in SUBSET Parts /\ done \in BOOLEAN
  /\ outages \in 0..MaxOutages /\ uploads \in 0..MaxUploads
  /\ faults \in 0..2 /\ prev \in [Parts -> Content]

(***************************************************************************)
(* Whatever the power losses and failed copies, the boot stops at the      *)
(* U-Boot prompt only when boot.scr itself is missing or cut: BOOT.BIN and *)
(* image.ub always have a slot left to start from (boot.cmd lines 27-42).  *)
(***************************************************************************)
DeadOnlyWithoutScript == phase = "dead" => boot.base[SCR] \notin Versions

(***************************************************************************)
(* The slot a boot falls back to is at most the number of failures since   *)
(* /boot was last whole, and after one failure the backup it starts is     *)
(* what /boot held before that update: moving before copying keeps it.     *)
(***************************************************************************)
OneFaultKeepsPrevious ==
  pc = "autostart" =>
    \A c \in {BIN, IMG} :
      /\ running[c] <= faults
      /\ running[c] = 1 /\ faults = 1 => boot.bak[c] = prev[c]

(***************************************************************************)
(* The byte the boot script leaves at 0x80020006 for the state message     *)
(* names the image that really runs, also after failed attempts.           *)
(***************************************************************************)
BootIndexHonest == phase = "up" => idx = running[IMG]

(***************************************************************************)
(* A whole image reaches the eMMC as image.ub, BOOT.BIN or boot.scr only   *)
(* with the sum the current shub_ota.json gives it, whatever earlier runs, *)
(* cut archives and power losses left in /ldc.                             *)
(***************************************************************************)
VerifiedInstall ==
  [][\A c \in Parts :
       disk'.base[c] # disk.base[c] /\ disk'.base[c] \in Versions
         => disk'.base[c] = ldc.json[c]]_vars

(***************************************************************************)
(* "all done, valid after next reboot" (ota-update.sh:181): every part the *)
(* manifest lists is installed.                                            *)
(***************************************************************************)
DoneMeansInstalled ==
  done => \A c \in Parts : ldc.json[c] # Absent => boot.base[c] = ldc.json[c]

(***************************************************************************)
(* "ota file image.ub broken" (ota-update.sh:69, 82, 94): the script       *)
(* refuses an archive only when it did not arrive whole.                   *)
(***************************************************************************)
RefusedIsBroken ==
  [][pc = "check" /\ pc' = "idle" => \E p \in ldc.tars : ~p.whole]_vars

\* Parts of an earlier archive that this one does not replace: the new shub_ota.json
\* has no sum for them, and nothing but the end of an update removes them.
Leftover(p) == {c \in Parts \ p.parts : ldc.new[c] # Absent}

(***************************************************************************)
(* A whole archive without a boot.scr is installed in the end and deleted, *)
(* wherever the power losses hit and however often the script is rerun.    *)
(* Two exceptions: a second archive beside it has both deleted, and a part *)
(* that an interrupted update of an earlier archive left behind has it     *)
(* refused at every boot (RefusedIsBroken).                                *)
(***************************************************************************)
EventuallyInstalled ==
  \A p \in Packages :
    ldc.tars = {p} /\ p.whole /\ SCR \notin p.parts /\ Leftover(p) = {}
      ~> \/ ldc.tars = {} /\ \A c \in p.parts : boot.base[c] = p.ver
         \/ \E q \in ldc.tars : q # p
=============================================================================
