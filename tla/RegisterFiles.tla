--------------------------- MODULE RegisterFiles ---------------------------
(***************************************************************************)
(* The blocks that keep words for the firmware and little else.            *)
(*                                                                         *)
(*   lanes   the residual stores (default_store.rs, sysreg_shim.rs):       *)
(*           words accessed as words, halves and bytes, big-endian         *)
(*   filter  the filter table behind a command word (mac_filter.rs)        *)
(*   banks   the MPCP tables behind a selector (mpcp.rs)                   *)
(*   ivt     the interrupt vectors stored past the cache (nco.rs)          *)
(*   timer   the counter that moves when it is read (timer.rs)             *)
(*   tssync  the timestamp lock (mpcp_tssync.rs and the bank's tick)       *)
(*   alarms  the alarms an operator forces (alarm_events.rs)               *)
(*                                                                         *)
(* One block is looked at at a time: `file` names it, `cell` is its state  *)
(* and `told` what the accesses so far should have left there, kept        *)
(* without the block's own arithmetic.                                     *)
(***************************************************************************)
EXTENDS Integers, Sequences, FiniteSets

CONSTANTS
    ByteBase,          \* values of a byte: 0 .. ByteBase - 1 (256 in the code)
    FilterIndices,     \* indices of the filter table
    FilterData,        \* values of its three data words, taken together
    BankCount,         \* BANK_COUNT
    SelectWords,       \* values written to TABLE_SELECT
    PowerOnSelect,     \* the power-on value of TABLE_SELECT
    Targets,           \* jump targets, as pairs <<FREQ_HI, FREQ_LO>>
    TimerLimit,        \* the counter is modulo this (2^32 in the code)
    Prescalers,
    AlarmOpcodes,
    ForcedOpcodeCapacity

ASSUME RegisterFilesAssumption ==
    /\ ByteBase \in Nat \ {0, 1} /\ TimerLimit \in Nat \ {0, 1}
    /\ BankCount \in Nat \ {0} /\ PowerOnSelect \in SelectWords
    /\ SelectWords \subseteq Nat /\ Prescalers \subseteq 0 .. TimerLimit - 1
    /\ ForcedOpcodeCapacity \in Nat
    /\ Targets \subseteq [1 .. 2 -> Nat]

VARIABLES file, cell, told

rf_vars == <<file, cell, told>>

Bytes == 0 .. ByteBase - 1
Zero4 == [i \in 0 .. 3 |-> 0]
Power(n) == CASE n = 0 -> 1 [] n = 1 -> ByteBase [] n = 2 -> ByteBase * ByteBase
              [] n = 3 -> ByteBase * ByteBase * ByteBase
              [] n = 4 -> ByteBase * ByteBase * ByteBase * ByteBase

-----------------------------------------------------------------------------
(* lanes: a word, and the four bytes the accesses should have left in it.  *)

(* (word >> shift) as u8 / u16                                             *)
lane_of(word, shift, width) == (word \div Power(shift)) % Power(width)

(* 24 - byte_idx * 8, 16 - half_idx * 16: lanes count from the top.        *)
shift_of(i, width) == 4 - width - i

(* (old & mask) | (val << shift)                                           *)
merged(word, shift, width, val) ==
    word - (lane_of(word, shift, width) * Power(shift)) + (val * Power(shift))

(* The value of a word, half or byte access: the first byte is the highest.*)
value_of(width, bytes) ==
    CASE width = 1 -> bytes[0]
      [] width = 2 -> bytes[0] * Power(1) + bytes[1]
      [] width = 4 -> bytes[0] * Power(3) + bytes[1] * Power(2) + bytes[2] * Power(1) + bytes[3]

(* write_word, write_half, write_byte: `bytes` from byte i on.             *)
LaneStore ==
    /\ file = "lanes"
    /\ \E width \in {1, 2, 4} : \E i \in {k \in 0 .. 3 : k % width = 0} :
         \E bytes \in [0 .. width - 1 -> Bytes] :
           /\ cell' = merged(cell, shift_of(i, width), width, value_of(width, bytes))
           /\ told' = [k \in 0 .. 3 |-> IF k \in i .. i + width - 1
                                          THEN bytes[k - i] ELSE told[k]]
    /\ UNCHANGED file

-----------------------------------------------------------------------------
(* filter: the command word holds an index; bit 31 reads the entry into    *)
(* the data words, bit 30 writes it from them and wins over bit 31.  The   *)
(* command bits are not kept, so a byte or half write into the command     *)
(* word gives the index that was written last, or no command at all.       *)
NoFilter == [cmd |-> 0, data |-> 0, table |-> [i \in FilterIndices |-> 0]]

FilterCommand(index, is_read, is_write) ==
    cell' = [cell EXCEPT
        !.data  = IF is_read /\ ~is_write THEN cell.table[index] ELSE @,
        !.table = IF is_write THEN [@ EXCEPT ![index] = cell.data] ELSE @,
        !.cmd   = index]

(* A word write, or a narrow one: write_byte at offset 0 is the case       *)
(* index = cell.cmd, at offset 3 the case without command bits.            *)
WriteFilterCmd ==
    /\ file = "filter"
    /\ \E index \in FilterIndices, rd, wr \in BOOLEAN :
         /\ FilterCommand(index, rd, wr)
         /\ told' = [told EXCEPT
              !.data  = IF rd /\ ~wr THEN told.table[index] ELSE @,
              !.table = IF wr THEN [@ EXCEPT ![index] = told.data] ELSE @]
    /\ UNCHANGED file

WriteFilterData ==
    /\ file = "filter"
    /\ \E d \in FilterData : /\ cell' = [cell EXCEPT !.data = d]
                             /\ told' = [told EXCEPT !.data = d]
    /\ UNCHANGED file

-----------------------------------------------------------------------------
(* banks: one word of the window stands for all; outside it lies the       *)
(* selector.  told maps each table to what the firmware stored in it.      *)
EmptyBanks == [bank |-> 0, select |-> 0, banks |-> [b \in 0 .. BankCount - 1 |-> 0]]

select_table(c, val) == [c EXCEPT !.bank = val % BankCount, !.select = val]
window_store(c, val) == [c EXCEPT !.banks[c.bank] = val]

(* apply_silicon_power_on: the selector first.                             *)
apply_silicon_power_on(c) == window_store(select_table(c, PowerOnSelect), 1)

PoweredBanks == apply_silicon_power_on(EmptyBanks)
PoweredTables == [b \in 0 .. BankCount - 1 |-> IF b = PowerOnSelect % BankCount THEN 1 ELSE 0]

SelectTable == /\ file = "banks"
               /\ \E val \in SelectWords : cell' = select_table(cell, val)
               /\ UNCHANGED <<file, told>>

WindowStore == /\ file = "banks"
               /\ \E val \in 0 .. 2 :
                    /\ cell' = window_store(cell, val)
                    /\ told' = [told EXCEPT ![cell.select % BankCount] = val]
               /\ UNCHANGED file

-----------------------------------------------------------------------------
(* ivt: one slot, its opcode and its target as halves.  The firmware       *)
(* stores them in the order of the fields: CONFIG, PRESCALE, FREQ_HI,      *)
(* FREQ_LO; `left` is what it has still to store, `base` and `was` are the *)
(* target and the vector of the slot before.  An interrupt may look at the *)
(* slot between any two stores.                                            *)
EmptySlot == [opcode |-> <<0, 0>>, target |-> <<0, 0>>, written |-> FALSE]
J_LIMM == <<1, 1>>

is_installed_vector(slot) == slot.written /\ slot.opcode = J_LIMM
interrupt_vector(slot) == IF is_installed_vector(slot) THEN slot.target ELSE <<>>

Install(t) == << <<"opcode", 1, 1>>, <<"opcode", 2, 1>>,
                 <<"target", 1, t[1]>>, <<"target", 2, t[2]>> >>

StartInstall ==
    /\ file = "ivt" /\ told.left = <<>>
    /\ \E t \in Targets :
         told' = [left |-> Install(t), aim |-> t, base |-> cell.target,
                  was |-> interrupt_vector(cell)]
    /\ UNCHANGED <<file, cell>>

ivt_di_store ==
    /\ file = "ivt" /\ told.left # <<>>
    /\ LET st == Head(told.left)
       IN cell' = IF st[1] = "opcode"
                    THEN [cell EXCEPT !.opcode[st[2]] = st[3], !.written = TRUE]
                    ELSE [cell EXCEPT !.target[st[2]] = st[3], !.written = TRUE]
    /\ told' = [told EXCEPT !.left = Tail(@)]
    /\ UNCHANGED file

-----------------------------------------------------------------------------
(* timer: a word read returns the counter and moves it; byte and half      *)
(* reads return it as it stands.  told: the last two word reads.           *)
timer_read == /\ file = "timer"
              /\ cell' = [cell EXCEPT !.counter = (@ + cell.prescaler) % TimerLimit]
              /\ told' = [prev |-> told.last, last |-> cell.counter]
              /\ UNCHANGED file

timer_set == /\ file = "timer"
             /\ \/ \E v \in {0, TimerLimit - 1} : cell' = [cell EXCEPT !.counter = v]
                \/ \E p \in Prescalers \ {0} : cell' = [cell EXCEPT !.prescaler = p]
             /\ told' = [prev |-> -1, last |-> -1]
             /\ UNCHANGED file

-----------------------------------------------------------------------------
(* tssync: the lock bit is the firmware's own word with the hardware level *)
(* added.  told: the line, whether the port ever sent a GATE (the count is *)
(* kept across a line that goes down and comes back), and whether the bank *)
(* has ticked since either changed.                                        *)
NoSync == [fw |-> 0, hw |-> FALSE]

write_lock == /\ file = "tssync"
              /\ \E v \in {0, 1} : cell' = [cell EXCEPT !.fw = v]
              /\ UNCHANGED <<file, told>>

read_lock(c) == IF c.fw = 1 \/ c.hw THEN 1 ELSE 0

OltMoves == /\ file = "tssync"
            /\ \/ told' = [told EXCEPT !.up = ~@, !.fresh = FALSE]
               \/ told.up /\ told' = [told EXCEPT !.gates = TRUE, !.fresh = FALSE]
            /\ UNCHANGED <<file, cell>>

(* PeripheralBank::tick: nothing is driven while the line is down.         *)
HwLevel == told.gates
tssync_tick == /\ file = "tssync"
               /\ cell' = IF told.up THEN [cell EXCEPT !.hw = HwLevel] ELSE cell
               /\ told' = [told EXCEPT !.fresh = TRUE]
               /\ UNCHANGED file

-----------------------------------------------------------------------------
(* alarms: a list without duplicates, at most the capacity long.           *)
force_pending == /\ file = "alarms"
                 /\ \E op \in AlarmOpcodes :
                      IF (\A i \in DOMAIN cell : cell[i] # op) /\ Len(cell) < ForcedOpcodeCapacity
                        THEN cell' = Append(cell, op) /\ told' = told \cup {op}
                        ELSE UNCHANGED <<cell, told>>
                 /\ UNCHANGED file

(* Vec::retain: the elements that stay, each as far from the start as there*)
(* are elements that stay before it.                                       *)
staying(kept, k) == CHOOSE i \in kept : Cardinality({j \in kept : j <= i}) = k
retained(s, op) ==
    LET kept == {i \in DOMAIN s : s[i] # op}
    IN  [k \in 1 .. Cardinality(kept) |-> s[staying(kept, k)]]

clear_pending == /\ file = "alarms"
                 /\ \/ \E op \in AlarmOpcodes :
                         /\ cell' = retained(cell, op)
                         /\ told' = told \ {op}
                    \/ cell' = <<>> /\ told' = {}
                 /\ UNCHANGED file

-----------------------------------------------------------------------------
Fresh(f) ==
    CASE f = "lanes"  -> <<0, Zero4>>
      [] f = "filter" -> <<NoFilter, [data |-> 0, table |-> NoFilter.table]>>
      [] f = "banks"  -> <<PoweredBanks, PoweredTables>>
      [] f = "ivt"    -> <<EmptySlot, [left |-> <<>>, aim |-> <<>>, base |-> <<0, 0>>, was |-> <<>>]>>
      [] f = "timer"  -> <<[counter |-> 0, prescaler |-> 1], [prev |-> -1, last |-> -1]>>
      [] f = "tssync" -> <<NoSync, [up |-> FALSE, gates |-> FALSE, fresh |-> FALSE]>>
      [] f = "alarms" -> << <<>>, {} >>

Files == {"lanes", "filter", "banks", "ivt", "timer", "tssync", "alarms"}
rf_Init == /\ file \in Files
           /\ cell = Fresh(file)[1] /\ told = Fresh(file)[2]

(* Both resets put the power-on words back (the block's own reset_cold).   *)
rf_reset == /\ cell' = Fresh(file)[1] /\ told' = Fresh(file)[2]
            /\ UNCHANGED file

rf_Next == \/ LaneStore \/ WriteFilterCmd \/ WriteFilterData
           \/ SelectTable \/ WindowStore \/ StartInstall \/ ivt_di_store
           \/ timer_read \/ timer_set \/ write_lock \/ OltMoves \/ tssync_tick
           \/ force_pending \/ clear_pending \/ rf_reset

-----------------------------------------------------------------------------
(* Every way of reading a word gives the bytes stored last, whatever the   *)
(* widths they came in.                                                    *)
LanesAgree == file = "lanes" =>
    \A width \in {1, 2, 4} : \A i \in {k \in 0 .. 3 : k % width = 0} : \A k \in 0 .. width - 1 :
        lane_of(lane_of(cell, shift_of(i, width), width), width - 1 - k, 1) = told[i + k]

(* The tables behind a command word or a selector hold what was filed      *)
(* under each index, and the window shows the table the selector names     *)
(* (from power-on on, where the captured words belong to one table only).  *)
TablesAreFiled ==
    /\ file = "filter" => cell.table = told.table /\ cell.data = told.data
    /\ file = "banks" => /\ cell.bank = cell.select % BankCount
                         /\ \A b \in DOMAIN cell.banks : cell.banks[b] = told[b]

(* An interrupt that comes while a vector is being installed finds a       *)
(* vector if there was one before, and finds the target the slot held, the *)
(* new one, or the new upper half on the old lower one, as the stores      *)
(* arrive; once the last has, the vector is the one asked for.             *)
VectorsAreInstalled == file = "ivt" =>
    LET v == interrupt_vector(cell)
    IN /\ \/ v \in {<<>>, told.base, told.aim}
          \/ v[1] = told.aim[1] /\ v[2] = told.base[2]
       /\ told.was # <<>> => v # <<>>
       /\ told.left = <<>> => v = told.aim

(* Two word reads of the counter differ, so a firmware that waits for it   *)
(* to move goes on.                                                        *)
TimerMoves == file = "timer" /\ told.prev # -1 => told.prev # told.last

(* A tick with the line up leaves the lock bit at what the firmware wrote, *)
(* or a GATE sent, and the hardware level is never up without a GATE.      *)
LockIsEarned == file = "tssync" =>
    /\ told.fresh /\ told.up /\ cell.fw = 0 => (read_lock(cell) = 1 <=> told.gates)
    /\ cell.hw => told.gates

(* The forced alarms are those asked for and not taken back, each once.    *)
AlarmsAreASet == file = "alarms" => /\ {cell[i] : i \in DOMAIN cell} = told
                                    /\ Cardinality(told) = Len(cell)
                                    /\ Len(cell) <= ForcedOpcodeCapacity

-----------------------------------------------------------------------------
(* What the proofs are by induction on.                                    *)

(* The next read gives the last one and the prescaler, which is no multiple*)
(* of the limit.                                                           *)
TimerInv == file = "timer" =>
    /\ cell \in [counter : 0 .. TimerLimit - 1, prescaler : 1 .. TimerLimit - 1]
    /\ told \in [prev : -1 .. TimerLimit - 1, last : -1 .. TimerLimit - 1]
    /\ told.last # -1 => cell.counter = (told.last + cell.prescaler) % TimerLimit
    /\ TimerMoves

LockInv == file = "tssync" =>
    /\ cell \in [fw : {0, 1}, hw : BOOLEAN]
    /\ told \in [up : BOOLEAN, gates : BOOLEAN, fresh : BOOLEAN]
    /\ told.fresh /\ told.up => (cell.hw <=> told.gates)
    /\ cell.hw => told.gates

LanesInv == file = "lanes" =>
    /\ told \in [0 .. 3 -> Bytes]
    /\ cell = told[0] * Power(3) + told[1] * Power(2) + told[2] * Power(1) + told[3]

TablesInv ==
    /\ file = "filter" =>
         /\ cell \in [cmd : FilterIndices \cup {0}, data : FilterData \cup {0},
                      table : [FilterIndices -> FilterData \cup {0}]]
         /\ told = [data |-> cell.data, table |-> cell.table]
    /\ file = "banks" =>
         /\ cell \in [bank : 0 .. BankCount - 1, select : SelectWords,
                      banks : [0 .. BankCount - 1 -> Nat]]
         /\ cell.bank = cell.select % BankCount /\ told = cell.banks

SlotStores == {"opcode", "target"} \X {1, 2} \X Nat

(* `left` are the last stores of an installation; those before it have     *)
(* been made, the rest of the slot is as it was.                           *)
VectorInv == file = "ivt" =>
    /\ cell \in [opcode : [1 .. 2 -> {0, 1}], target : [1 .. 2 -> Nat], written : BOOLEAN]
    /\ told = [left |-> told.left, aim |-> told.aim, base |-> told.base, was |-> told.was]
    /\ told.aim \in Targets \cup {<<>>} /\ told.left \in Seq(SlotStores)
    /\ told.base \in [1 .. 2 -> Nat] /\ Len(told.left) \in 0 .. 4
    /\ \A i \in 1 .. Len(told.left) : told.left[i] = Install(told.aim)[4 - Len(told.left) + i]
    /\ told.aim = <<>> => told.left = <<>> /\ told.was = <<>> /\ ~cell.written
    /\ told.was # <<>> => cell.written /\ cell.opcode[1] = 1 /\ cell.opcode[2] = 1
    /\ told.aim # <<>> =>
         /\ Len(told.left) <= 3 => cell.written /\ cell.opcode[1] = 1
         /\ Len(told.left) <= 2 => cell.opcode[2] = 1
         /\ cell.target[1] = IF Len(told.left) <= 1 THEN told.aim[1] ELSE told.base[1]
         /\ cell.target[2] = IF Len(told.left) = 0 THEN told.aim[2] ELSE told.base[2]

AlarmsInv == file = "alarms" =>
    /\ cell \in Seq(AlarmOpcodes) /\ IsFiniteSet(told)
    /\ \A i, j \in DOMAIN cell : cell[i] = cell[j] => i = j
    /\ AlarmsAreASet

-----------------------------------------------------------------------------
(* A statement the code does not keep.                                     *)

(* interrupt_vector is a vector that was installed, or none: the opcode is *)
(* stored before the target, and the mixture of two targets is one too.    *)
VectorsAreWhole == file = "ivt" => interrupt_vector(cell) \in {<<>>, told.was, told.aim}
=============================================================================
