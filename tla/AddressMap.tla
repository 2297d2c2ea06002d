----------------------------- MODULE AddressMap -----------------------------
(***************************************************************************)
(* Which block answers an address (bank.rs).  The bank keeps no table: it  *)
(* asks the blocks in turn, in lists written out once for word reads, word *)
(* writes, half reads, half writes, byte reads, byte writes, peeks and     *)
(* names, and the first block that claims the address answers.  The claims *)
(* overlap, so the order matters.  Addresses are offsets from 0x01000000;  *)
(* the console and the SerDes window lie elsewhere and overlap nothing.    *)
(***************************************************************************)
EXTENDS Integers, Sequences, SequencesExt

(* [from, to) *)
Span(from, to) == <<from, to>>
Word(a) == Span(a, a + 4)

(* The addresses of a mailbox port: one word in each of eight blocks.      *)
Strided(base) == {Span(base + \h200 * i, base + \h200 * i + 1) : i \in 0 .. 7}

(* Each block's claims().  The blocks that compare whole addresses, the    *)
(* mailbox, the lane bus and the bank's own four words, claim one byte.    *)
mailbox_claims == Strided(\h1438) \cup Strided(\h15C0) \cup Strided(\h15C4)
pbc_claims == {Span(\h1F0, \h240)}
bsc_i2c_claims == {Span(\h140, \h158)}
mpcp_bus_claims == {Span(a, a + 1) : a \in {\h160, \h16C, \h170}}
lue_claims == {Span(\h240C, \h2420), Span(\h280C, \h2820)}
serdes_claims == {Span(\h174, \h1F8), Span(\h2400, \h2A00), Span(\h2D00, \h2D40)}
tssync_claims == {Word(a) : a \in {\hB4, \h300, \h304, \h314, \h318, \h31C, \hD88, \hD8C}}
epon_mac_claims == {Word(a) : a \in {0, 4, \hC, \h18, \h20, \h24, \h28, \h30, \h34, \h44, \h54, \h60, \h64,
                                     \h410, \hE04, \h1040}}
                   \cup {Span(\h400, \hE80), Span(\h1400, \h2000)}
macsec_claims == {Span(\h2400, \h2D40), Span(\h3500, \h3540)}
dma_claims == {Span(\h2000, \h2400), Span(\h2D40, \h3000), Span(\h3080, \h3500),
               Span(\h3540, \h3600), Span(\h3614, \h4000)}
timer_claims == {Word(\h50)}
efuse_claims == {Word(\h40), Word(\h48), Word(\h4C)}
fatal_claims == {Span(\h3600, \h3614)}
mpcp_claims == {Span(\h120, \h140), Span(\h320, \h328), Span(\h1180, \h11C0), Span(\h1268, \h1390)}
nco_claims == {Word(\hF80)}
filter_claims == {Span(\h3000, \h3080)}
dma_mbox_claims == {Span(a, a + 1) : a \in {\h10, \h14, \h18, \h1C}}
sysreg_claims == {Span(0, \h3800)}

Claimed ==
    [mailbox |-> mailbox_claims, pbc |-> pbc_claims, bsc_i2c |-> bsc_i2c_claims,
     mpcp_bus |-> mpcp_bus_claims, lue |-> lue_claims, serdes |-> serdes_claims,
     mpcp_tssync |-> tssync_claims, epon_mac |-> epon_mac_claims, macsec |-> macsec_claims,
     dma |-> dma_claims, timer |-> timer_claims, efuse_udr |-> efuse_claims,
     fatal_filter |-> fatal_claims, mpcp |-> mpcp_claims, nco |-> nco_claims,
     mac_filter |-> filter_claims, dma_mbox |-> dma_mbox_claims, sysreg |-> sysreg_claims]

claims(b, addr) == \E s \in Claimed[b] : s[1] <= addr /\ addr < s[2]

read_word_inner == <<"mailbox", "pbc", "bsc_i2c", "mpcp_bus", "lue", "serdes", "mpcp_tssync",
                     "epon_mac", "macsec", "dma", "timer", "efuse_udr", "fatal_filter", "mpcp",
                     "nco", "mac_filter", "dma_mbox", "sysreg">>
write_word_inner == <<"mailbox", "pbc", "bsc_i2c", "mpcp_bus", "lue", "serdes", "mpcp_tssync",
                      "epon_mac", "macsec", "dma", "timer", "efuse_udr", "fatal_filter", "mpcp",
                      "nco", "mac_filter", "dma_mbox", "sysreg">>

(* A slip: the MAC asked before the words it has given up.                 *)
narrow_swapped == <<"pbc", "bsc_i2c", "lue", "serdes", "epon_mac", "mpcp_tssync", "macsec",
                    "dma", "timer", "efuse_udr", "fatal_filter", "mpcp", "nco", "mac_filter",
                    "sysreg">>

(* read_half, write_half, read_byte and write_byte have the same list.     *)
narrow == <<"pbc", "bsc_i2c", "lue", "serdes", "mpcp_tssync", "epon_mac", "macsec", "dma",
            "timer", "efuse_udr", "fatal_filter", "mpcp", "nco", "mac_filter", "sysreg">>
peek_word == <<"pbc", "bsc_i2c", "mpcp_bus", "lue", "serdes", "mpcp_tssync", "epon_mac",
               "macsec", "dma", "timer", "efuse_udr", "fatal_filter", "mpcp", "nco", "mac_filter">>
peripheral_for == <<"pbc", "bsc_i2c", "lue", "serdes", "mpcp_tssync", "epon_mac", "macsec", "dma",
                    "timer", "efuse_udr", "fatal_filter", "mpcp", "nco", "mac_filter", "sysreg">>

(* The first block in the list that claims the address, or "unmapped".     *)
Dispatch(order, addr) ==
    LET answering == {k \in DOMAIN order : claims(order[k], addr)}
    IN  IF answering = {} THEN "unmapped"
        ELSE order[CHOOSE k \in answering : \A j \in answering : k <= j]

(* One address is looked at at a time: both sides of every boundary.       *)
VARIABLE probe

map_vars == <<probe>>

Boundaries == UNION {UNION {{s[1], s[2]} : s \in Claimed[b]} : b \in ToSet(read_word_inner)}
Probes == {a + d : a \in Boundaries, d \in {-1, 0, 1, 3}} \cap Nat

map_Init == probe \in {0}
map_Next == probe' \in Probes

-----------------------------------------------------------------------------
(* An address belongs to the same block however it is accessed: loads and  *)
(* stores of any width, the observer's peek and the name shown for it      *)
(* agree, except where a list leaves a block out.  A read and a write of a *)
(* word always agree.                                                      *)
SameBlockEveryWay ==
    LET word == Dispatch(read_word_inner, probe) IN
    /\ word = Dispatch(write_word_inner, probe)
    /\ \A order \in {narrow, peek_word, peripheral_for} :
          word \in ToSet(order) => Dispatch(order, probe) = word
=============================================================================
