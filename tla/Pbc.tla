-------------------------------- MODULE Pbc --------------------------------
(***************************************************************************)
(* The peripheral bus controller (pbc.rs) and the SPI flash behind it      *)
(* (spi_flash.rs).  The firmware has two ways to the flash, a command FIFO *)
(* and a DMA engine; the operator has four more (load, dump, erase,        *)
(* write), and saving.  A flash cell is the set of its bits that are 1:    *)
(* programming is intersection, erasing is CellBits.                       *)
(*                                                                         *)
(* The two FIFO words are only ever read by the command that follows them, *)
(* so a command carries its own bytes: an opcode, an address (three bytes) *)
(* or NoAddr, and data.  SPI_CONFIG and the addresses of the DMA engine    *)
(* are stored and read back, and are part of the command here too.         *)
(***************************************************************************)
EXTENDS Integers, Sequences, FiniteSets

CONSTANTS FlashSize, SectorSize, BlockSize, CellBits,
          PpTicks, SeTicks, BeTicks, CeTicks,   \* busy_ticks after each operation
          SpiBusyTicks,                         \* SPI_BUSY_TICKS
          NoAddr,
          FileLengths,                          \* lengths of the image files that are loaded
          MaxFlashOps                           \* bound of the instance

ASSUME PbcAssumption ==
    /\ FlashSize \in Nat \ {0} /\ SectorSize \in Nat \ {0} /\ BlockSize \in Nat \ {0}
    /\ FlashSize % SectorSize = 0 /\ FlashSize % BlockSize = 0
    /\ {PpTicks, SeTicks, BeTicks, CeTicks, SpiBusyTicks, MaxFlashOps} \subseteq Nat
    /\ NoAddr \notin Nat
    /\ FileLengths \subseteq 0 .. FlashSize

FlashAddr == 0 .. FlashSize - 1
Cell == SUBSET CellBits
Image == [FlashAddr -> Cell]

VARIABLES
    flash,        \* SpiFlash.data
    status,       \* SpiFlash.status: WEL and the protection bits
    busy_ticks,   \* SpiFlash.busy_ticks
    dirty,        \* SpiFlash.dirty
    baseline,     \* SpiFlash.baseline
    aai_addr,     \* SpiFlash.aai_addr, or NoAddr
    spi_control,  \* bit 6 only: the FIFO addresses the optics, not the flash
    spi_command, spi_rx, spi_busy_counter,
    dma_busy_counter, pending_ops,
    saved,        \* history: the image last loaded or handed to a save
    flash_ops     \* commands issued so far

flash_vars == <<flash, status, busy_ticks, dirty, baseline, aai_addr>>
pbc_vars == <<flash_vars, spi_control, spi_command, spi_rx, spi_busy_counter,
              dma_busy_counter, pending_ops, saved, flash_ops>>

WIP == 0
WEL == 1
Protection == 2    \* stands for the bits 2..7 that WRSR may set
Manufacturer == {8}
DeviceId == {9}

Blank == [a \in FlashAddr |-> CellBits]

pbc_Init ==
    /\ flash = Blank /\ status = {} /\ busy_ticks = 0 /\ dirty = FALSE
    /\ baseline = Blank /\ aai_addr = NoAddr
    /\ spi_control = FALSE /\ spi_command = 0 /\ spi_rx = <<>> /\ spi_busy_counter = 0
    /\ dma_busy_counter = 0 /\ pending_ops = <<>>
    /\ saved = Blank /\ flash_ops = 0

(* SpiFlash::read_status *)
read_status == IF busy_ticks > 0 THEN status \cup {WIP} ELSE status \ {WIP}

(* The cells [addr, addr + Len(bytes)) take an AND with the bytes, modulo  *)
(* the size of the device.                                                 *)
Programmed(addr, bytes) ==
    [a \in FlashAddr |->
        LET at == {i \in 1 .. Len(bytes) : (addr + i - 1) % FlashSize = a}
        IN  {b \in flash[a] : \A i \in at : b \in bytes[i]}]

Erased(addr, size) ==
    [a \in FlashAddr |-> IF a \div size = addr \div size THEN CellBits ELSE flash[a]]

(* CMD_READ, dma_read: the bytes from addr on, wrapping.                   *)
(* At most two are ever asked for.                                         *)
ReadOut(addr, n) == SubSeq(<<flash[addr % FlashSize], flash[(addr + 1) % FlashSize]>>, 1, n)

-----------------------------------------------------------------------------
(* SpiFlash::execute_fifo_command, one disjunct per opcode.  A command is  *)
(* [op, addr, data]; lengths count the address as the three bytes it is.   *)

TxLen(c) == 1 + (IF c.addr = NoAddr THEN 0 ELSE 3) + Len(c.data)
HasAddr(c) == c.addr # NoAddr
InFlash(c) == HasAddr(c) /\ c.addr < FlashSize    \* an erase beyond the end is ignored

Answer(c) ==
    CASE c.op = "RDID" -> <<Manufacturer, {}>>
      [] c.op = "REMS" -> IF HasAddr(c) /\ c.addr % 2 = 1 THEN <<DeviceId, Manufacturer>>
                                                         ELSE <<Manufacturer, DeviceId>>
      [] c.op = "RDSR" -> <<read_status, {}>>
      [] c.op = "READ" /\ HasAddr(c) -> ReadOut(c.addr, 2)
      [] c.op = "FAST_READ" /\ TxLen(c) >= 5 /\ HasAddr(c) -> ReadOut(c.addr, 2)
      [] OTHER -> <<{}, {}>>

Unprotected == WEL \in status

WriteEnable(c) ==
    \/ /\ c.op = "WREN" /\ status' = status \cup {WEL} /\ UNCHANGED aai_addr
    \/ /\ c.op = "WRDI" /\ status' = status \ {WEL} /\ aai_addr' = NoAddr

WriteStatus(c) ==
    /\ c.op = "WRSR"
    /\ IF Unprotected /\ TxLen(c) >= 2
         THEN \E bits \in SUBSET {Protection} : status' = (status \cap {WIP}) \cup bits
         ELSE status' = status \ {WEL}

(* PP, SE, BE, CE: each needs WEL, takes it down and keeps the chip busy.  *)
Modify(c, ok, after, ticks) ==
    /\ status' = status \ {WEL}
    /\ IF Unprotected /\ ok
         THEN flash' = after /\ dirty' = TRUE /\ busy_ticks' = ticks
         ELSE UNCHANGED <<flash, dirty, busy_ticks>>

Program(c) ==
    \/ c.op = "PP" /\ Modify(c, HasAddr(c), Programmed(c.addr, c.data), PpTicks)
    \/ c.op = "SE" /\ Modify(c, InFlash(c), Erased(c.addr, SectorSize), SeTicks)
    \/ c.op = "BE" /\ Modify(c, InFlash(c), Erased(c.addr, BlockSize), BeTicks)
    \/ c.op = "CE" /\ Modify(c, TRUE, Blank, CeTicks)

(* CMD_CP: auto-address-increment.  Six bytes open a run at an address,    *)
(* three bytes continue it where it stands; WEL stays up.                  *)
ContinuousProgram(c) ==
    /\ c.op = "CP"
    /\ LET start == IF HasAddr(c) THEN c.addr % FlashSize ELSE aai_addr
       IN  IF Unprotected /\ Len(c.data) = 2 /\ start # NoAddr
             THEN /\ flash' = Programmed(start, c.data)
                  /\ aai_addr' = (start + 2) % FlashSize
                  /\ dirty' = TRUE
             ELSE UNCHANGED <<flash, aai_addr, dirty>>

FlashCommand(c) ==
    \/ WriteEnable(c) /\ UNCHANGED <<flash, busy_ticks, dirty>>
    \/ WriteStatus(c) /\ UNCHANGED <<flash, busy_ticks, dirty, aai_addr>>
    \/ Program(c) /\ UNCHANGED aai_addr
    \/ ContinuousProgram(c) /\ UNCHANGED <<status, busy_ticks>>
    \/ /\ c.op \in {"RDID", "REMS", "RDSR", "READ", "FAST_READ", "other"}
       /\ UNCHANGED <<flash, status, busy_ticks, dirty, aai_addr>>

-----------------------------------------------------------------------------
(* The registers (read_reg_word, write_reg_word).                          *)

Ops == {"WREN", "WRDI", "WRSR", "PP", "SE", "BE", "CE", "CP", "RDID", "REMS",
        "RDSR", "READ", "FAST_READ", "other"}

(* Data is at most two bytes of the FIFO; a length beyond the FIFO's end   *)
(* reads zeros there, the third element of the last kind.                  *)
Payloads == {<<>>} \cup [1 .. 1 -> Cell] \cup [1 .. 2 -> Cell]
            \cup {<<d, d, {}>> : d \in Cell}

Driving == flash_ops < MaxFlashOps /\ pending_ops = <<>>

(* A write to SPI_STATUS with bit 0: execute_fifo_command.  The command    *)
(* byte is kept and read back, whatever its target.                        *)
StartCommand ==
    /\ Driving
    /\ \E op \in Ops, addr \in (0 .. FlashSize) \cup {NoAddr}, data \in Payloads :
          LET c == [op |-> op, addr |-> addr, data |-> data]
          IN  IF spi_control
                THEN \* pending_spi_serdes, completed by the bank: SerDes::spi_command answers 0xFF
                     /\ spi_rx' = <<CellBits, CellBits>>
                     /\ UNCHANGED <<flash, status, busy_ticks, dirty, aai_addr>>
                ELSE FlashCommand(c) /\ spi_rx' = Answer(c)
    /\ spi_command' = 1 /\ spi_busy_counter' = SpiBusyTicks
    /\ flash_ops' = flash_ops + 1
    /\ UNCHANGED <<baseline, spi_control, dma_busy_counter, pending_ops, saved>>

(* The command of zero bytes: an answer of zeros, and busy all the same.   *)
StartEmpty ==
    /\ Driving /\ ~spi_control
    /\ spi_rx' = <<{}, {}>> /\ spi_command' = 1 /\ spi_busy_counter' = SpiBusyTicks
    /\ flash_ops' = flash_ops + 1
    /\ UNCHANGED <<flash_vars, spi_control, dma_busy_counter, pending_ops, saved>>

WriteControl ==
    /\ Driving /\ spi_control' \in BOOLEAN
    /\ UNCHANGED <<flash_vars, spi_command, spi_rx, spi_busy_counter,
                   dma_busy_counter, pending_ops, saved, flash_ops>>

(* A poll of SPI_STATUS or DMA_CTRL reports busy and counts down.          *)
PollSpi == /\ spi_busy_counter > 0
           /\ spi_busy_counter' = spi_busy_counter - 1
           /\ UNCHANGED <<flash_vars, spi_control, spi_command, spi_rx,
                          dma_busy_counter, pending_ops, saved, flash_ops>>

PollDma == /\ dma_busy_counter > 0
           /\ dma_busy_counter' = dma_busy_counter - 1
           /\ UNCHANGED <<flash_vars, spi_control, spi_command, spi_rx,
                          spi_busy_counter, pending_ops, saved, flash_ops>>

(* execute_dma: the transfer itself is left to the CPU thread, which does  *)
(* it when it has let go of the bank.  A memory address outside SRAM and   *)
(* its DCCM alias drops the transfer.                                      *)
StartDma ==
    /\ Driving
    /\ \E a \in FlashAddr, n \in 0 .. 2, toflash, mapped \in BOOLEAN :
          pending_ops' = IF ~mapped THEN <<>>
                         ELSE IF toflash THEN <<[kind |-> "FlashWrite", addr |-> a, len |-> n]>>
                         ELSE <<[kind |-> "SramWrite", bytes |-> ReadOut(a, n)]>>
    /\ dma_busy_counter' = SpiBusyTicks
    /\ flash_ops' = flash_ops + 1
    /\ UNCHANGED <<flash_vars, spi_control, spi_command, spi_rx, spi_busy_counter, saved>>

(* A slip: the DMA path that forgets the flag.                           *)
DrainSilently ==
    /\ pending_ops # <<>>
    /\ pending_ops' = Tail(pending_ops)
    /\ LET op == Head(pending_ops)
       IN  IF op.kind = "FlashWrite"
             THEN \E bytes \in [1 .. op.len -> Cell] : flash' = Programmed(op.addr, bytes)
             ELSE UNCHANGED flash
    /\ UNCHANGED <<status, dirty, busy_ticks, baseline, aai_addr, spi_control, spi_command,
                   spi_rx, spi_busy_counter, dma_busy_counter, saved, flash_ops>>

(* Memory::drain_datapath and Pbc::complete_flash_write.  The bytes come   *)
(* from SRAM, and are any.                                                 *)
DrainDma ==
    /\ pending_ops # <<>>
    /\ pending_ops' = Tail(pending_ops)
    /\ LET op == Head(pending_ops)
       IN  IF op.kind = "FlashWrite"
             THEN /\ \E bytes \in [1 .. op.len -> Cell] : flash' = Programmed(op.addr, bytes)
                  /\ status' = status \ {WEL}
                  /\ dirty' = TRUE
             ELSE UNCHANGED <<flash, status, dirty>>
    /\ UNCHANGED <<busy_ticks, baseline, aai_addr, spi_control, spi_command, spi_rx,
                   spi_busy_counter, dma_busy_counter, saved, flash_ops>>

Down(n) == IF n > 0 THEN n - 1 ELSE 0

(* Pbc::tick, SpiFlash::tick *)
pbc_tick ==
    /\ busy_ticks' = Down(busy_ticks)
    /\ spi_busy_counter' = Down(spi_busy_counter)
    /\ dma_busy_counter' = Down(dma_busy_counter)
    /\ UNCHANGED <<flash, status, dirty, baseline, aai_addr, spi_control, spi_command,
                   spi_rx, pending_ops, saved, flash_ops>>

(* Pbc::reset_cold, SpiFlash::reset_volatile: the image, its flag and its  *)
(* baseline stay; so does the command word.                                *)
pbc_reset ==
    /\ status' = {} /\ busy_ticks' = 0 /\ aai_addr' = NoAddr
    /\ spi_control' = FALSE /\ spi_rx' = <<>> /\ spi_busy_counter' = 0
    /\ dma_busy_counter' = 0 /\ pending_ops' = <<>>
    /\ UNCHANGED <<flash, dirty, baseline, spi_command, saved, flash_ops>>

-----------------------------------------------------------------------------
(* The operator, under the bank's lock.                                    *)

(* A file of n bytes replaces the first n and leaves the rest as it was.    *)
(* Its bytes are zero up to the k-th and blank from there on.              *)
Loaded(img, n, k) ==
    [a \in FlashAddr |-> IF a >= n THEN img[a] ELSE IF a < k THEN {} ELSE CellBits]

rest == <<status, busy_ticks, aai_addr, spi_control, spi_command, spi_rx,
          spi_busy_counter, dma_busy_counter, pending_ops, flash_ops>>

(* PbcEvent::LoadFlashFromFile: the image is replaced, the baseline is not.*)
LoadFlashFromFile ==
    /\ \E n \in FileLengths : \E k \in 0 .. n :
          /\ flash' = Loaded(flash, n, k)
          /\ saved' = Loaded(saved, n, k)
    /\ dirty' = FALSE
    /\ UNCHANGED <<rest, baseline>>

(* CpuWorker::load_firmware, which also captures the baseline.             *)
LoadFirmware ==
    /\ pending_ops = <<>>
    /\ \E n \in FileLengths : \E k \in 0 .. n :
          /\ flash' = Loaded(flash, n, k)
          /\ saved' = Loaded(saved, n, k)
          /\ baseline' = Loaded(flash, n, k)
    /\ dirty' = FALSE
    /\ UNCHANGED rest

EraseSector ==
    /\ \E a \in FlashAddr : flash' = Erased(a, SectorSize)
    /\ dirty' = TRUE
    /\ UNCHANGED <<rest, baseline, saved>>

(* The write_flash tool: any bytes, ones included.                         *)
WriteFlash ==
    /\ \E a \in FlashAddr, v \in Cell : flash' = [flash EXCEPT ![a] = v]
    /\ dirty' = TRUE
    /\ UNCHANGED <<rest, baseline, saved>>

(* persist_flash: the image is copied and the flag cleared in one hold of  *)
(* the lock; the file is written after it.                                 *)
PersistFlash ==
    /\ saved' = flash /\ baseline' = flash /\ dirty' = FALSE
    /\ UNCHANGED <<rest, flash>>

pbc_Next ==
    \/ StartCommand \/ StartEmpty \/ WriteControl \/ PollSpi \/ PollDma
    \/ StartDma \/ DrainDma \/ pbc_tick \/ pbc_reset
    \/ LoadFlashFromFile \/ LoadFirmware \/ EraseSector \/ WriteFlash \/ PersistFlash

-----------------------------------------------------------------------------
(* An image that differs from the one last loaded or saved is flagged, on  *)
(* whichever of the seven paths it changed: Persist and the exit of the    *)
(* command-line emulator write the file only for a dirty flash.  (This is  *)
(* so for image files of the flash's own size: a shorter one clears the    *)
(* flag and leaves modified bytes behind its end.)                         *)
UnsavedIsDirty == flash # saved => dirty

(* What is so for image files of any length: where every file reaches, a   *)
(* cell that differs is flagged.                                           *)
Covered(a) == \A n \in FileLengths : a < n
FlashInv ==
    /\ flash \in Image /\ saved \in Image
    /\ \A a \in FlashAddr : Covered(a) /\ flash[a] # saved[a] => dirty
=============================================================================
