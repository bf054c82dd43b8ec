----------------------------- MODULE BootFlash -----------------------------
(***************************************************************************)
(* The boot flash memory and the software that writes it                   *)
(* (software/src/bootFlash.c).                                             *)
(*                                                                         *)
(* The memory is an array of cells.  Erasing works on sectors; programming *)
(* can only clear bits, so that a cell programmed twice without an erase   *)
(* between holds garbage, unless it is programmed with what it holds.  A   *)
(* write that starts at the beginning of a sector erases the sector first. *)
(* Sectors are of one size below a boundary and of another above it.       *)
(*                                                                         *)
(* External: the chip and its driver (spiflash), which may fail at either  *)
(* of the two steps of a write.                                            *)
(***************************************************************************)
EXTENDS Integers, Sequences

CONSTANTS
  FlashSize,       (* BOOT_FLASH_SIZE, in cells                             *)
  LoSectorCount,   (* BOOT_FLASH_LO_SECTOR_COUNT                            *)
  LoSectorSize,    (* BOOT_FLASH_LO_SECTOR_SIZE                             *)
  HiSectorSize,    (* BOOT_FLASH_HI_SECTOR_SIZE                             *)
  WpSectorSize,    (* BOOT_FLASH_WP_SECTOR_SIZE: unit of write protection   *)
  BP, TBPROT,      (* Write protection bits of the status registers         *)
  Erased, Garbage, (* Contents of a cell                                    *)
  Contents         (* What cells are programmed with                        *)

ASSUME SizesAssumption ==
  /\ FlashSize \in Nat /\ LoSectorCount \in Nat
  /\ LoSectorSize \in Nat \ {0} /\ HiSectorSize \in Nat \ {0}
  /\ WpSectorSize \in Nat
  /\ BP \in 0 .. 7 /\ TBPROT \in {0, 1}
ASSUME ContentsAssumption ==
  Erased # Garbage /\ Erased \notin Contents /\ Garbage \notin Contents

Cells == 0 .. FlashSize - 1

VARIABLE flash

FlashTypeOK == flash \in [Cells -> Contents \cup {Erased, Garbage}]

-----------------------------------------------------------------------------

(* spiFlashWPAddress, called by bootFlashInit: the protected cells are at  *)
(* the top of the memory, or at the bottom.                                *)
wp_size  == IF BP = 0 THEN 0 ELSE WpSectorSize * 2 ^ (BP - 1)
wp_start == IF BP = 0 \/ TBPROT = 1 THEN 0 ELSE FlashSize - wp_size
wp_end   == wp_start + wp_size

(* Faulty variant: the first protected cell is not. *)
ProtectedAfterFirst(a) == wp_start < a /\ a < wp_end
Protected(a) == wp_start <= a /\ a < wp_end

spiFlashIsWriteOk(address, length) ==
  \/ wp_size = 0
  \/ /\ ~Protected(address)
     /\ ~(address <= wp_start /\ address + length > wp_end)

sectorSize(address) ==
  IF address < LoSectorCount * LoSectorSize THEN LoSectorSize ELSE HiSectorSize

EraseSize(address) == sectorSize(address)

(* The memory after the erase that a write at this address begins with. *)
AfterErase(address) ==
  [a \in Cells |->
     IF address % sectorSize(address) = 0
        /\ address <= a /\ a < address + EraseSize(address)
     THEN Erased ELSE flash[a]]

Program(old, new) == IF old \in {Erased, new} THEN new ELSE Garbage

(* ... and after the data has been programmed. *)
AfterWrite(address, data) ==
  [a \in Cells |->
     IF address <= a /\ a < address + Len(data)
     THEN Program(AfterErase(address)[a], data[a - address + 1])
     ELSE AfterErase(address)[a]]

(* The value returned: chip says whether the chip does what it is told. *)
WriteOk(address, data, chip) == spiFlashIsWriteOk(address, Len(data)) /\ chip

bootFlashWrite(address, data, chip) ==
  IF ~spiFlashIsWriteOk(address, Len(data)) THEN UNCHANGED flash
  ELSE IF chip THEN flash' = AfterWrite(address, data)
  ELSE flash' \in {flash, AfterErase(address)}

bootFlashRead(address, length) ==
  [i \in 1 .. length |-> flash[address + i - 1]]
=============================================================================
