---------------------------- MODULE MemorySystem ----------------------------
(***************************************************************************)
(* SRAM behind a write-back D-cache and a direct-mapped I-cache (memory.rs *)
(* and cache.rs), the ports that reach it (loads and stores, cached or     *)
(* ".di", DMA of the peripherals, instruction fetch, the debugger's        *)
(* observer accessors), DC_CTRL, DC_IVDC, DC_IVDL and IC_IVIC, resets and  *)
(* named snapshots.  An address is a byte number; a line is LineSize bytes *)
(* and belongs to one of NumSets sets, each of NumWays ways.  Addresses    *)
(* outside SRAM are never cached and belong to the peripheral bank; a      *)
(* store to one of them is here the DMA it starts.                         *)
(***************************************************************************)
EXTENDS Integers, FiniteSets

CONSTANTS NumLines, NumSets, NumWays, LineSize, Byte, Blank, Widths, BootImage,
          Values      \* what is ever written to a byte: a bound of the instance

ASSUME MemoryAssumption ==
    /\ NumLines \in Nat \ {0} /\ NumSets \in Nat \ {0}
    /\ NumWays \in Nat \ {0} /\ LineSize \in Nat \ {0}
    /\ Blank \in Byte
    /\ Values \in [0 .. NumLines * LineSize - 1 -> SUBSET Byte]
    /\ Widths \subseteq {w \in 1..LineSize : LineSize % w = 0}

Addr == 0 .. NumLines * LineSize - 1
Line == 0 .. NumLines - 1
Ways == 0 .. NumWays - 1
Offset == 0 .. LineSize - 1

ASSUME BootAssumption == /\ BootImage \in [DOMAIN BootImage -> Byte]
                         /\ DOMAIN BootImage \subseteq Addr

VARIABLES
    sram,       \* Memory.data
    lines,      \* DCache.lines: set, way -> valid, dirty, tag, data
    next_way,   \* DCache.next_way: the round-robin counter of a set
    enabled,    \* DCache.enabled: bit 0 of DC_CTRL is clear
    im,         \* DCache.im: bit 6, invalidation writes dirty lines back
    icache,     \* ICache.lines
    saved       \* the SRAM of the named snapshot, or none

mem_vars == <<sram, lines, next_way, enabled, im, icache, saved>>

None == [none |-> TRUE]

LineOf(a) == a \div LineSize
SetOf(l) == l % NumSets
TagOf(l) == l \div NumSets
base_line(tag, s) == tag * NumSets + s
BytesOf(l) == {l * LineSize + o : o \in Offset}

EmptyLine == [valid |-> FALSE, dirty |-> FALSE, tag |-> 0,
              data |-> [o \in Offset |-> Blank]]
Backing(mem, l) == [o \in Offset |-> mem[l * LineSize + o]]

mem_Init ==
    /\ sram = [a \in Addr |-> Blank]
    /\ lines = [s \in 0 .. NumSets - 1 |-> [w \in Ways |-> EmptyLine]]
    /\ next_way = [s \in 0 .. NumSets - 1 |-> 0]
    /\ enabled = TRUE /\ im = TRUE
    /\ icache = [s \in 0 .. NumSets - 1 |-> EmptyLine]
    /\ saved = None

-----------------------------------------------------------------------------
(* The D-cache.  Its operations take and return the cache as a record.     *)

Cache == [sram |-> sram, lines |-> lines, next |-> next_way]

Holding(c, l) == {w \in Ways : /\ c.lines[SetOf(l)][w].valid
                               /\ c.lines[SetOf(l)][w].tag = TagOf(l)}
contains(c, l) == Holding(c, l) # {}
First(S) == CHOOSE w \in S : \A x \in S : w <= x
find_way(c, l) == First(Holding(c, l))

(* An invalid way if there is one, otherwise the one whose turn it is.     *)
Invalid(c, s) == {w \in Ways : ~c.lines[s][w].valid}
rr_victim(c, s) == IF Invalid(c, s) # {} THEN First(Invalid(c, s)) ELSE c.next[s]
Advanced(c, s) == IF Invalid(c, s) # {} THEN c.next
                  ELSE [c.next EXCEPT ![s] = (@ + 1) % NumWays]

(* Memory::writeback_line: the line's bytes replace those of SRAM.         *)
writeback_line(mem, l, data) ==
    [a \in Addr |-> IF LineOf(a) = l THEN data[a % LineSize] ELSE mem[a]]

peek_byte(c, a) == c.lines[SetOf(LineOf(a))][find_way(c, LineOf(a))].data[a % LineSize]

(* DCache::fill_line and Memory::ensure_cache_line: on a miss the line is  *)
(* read from SRAM and a dirty victim goes back to it.                      *)
ensure_cache_line(c, l) ==
    IF contains(c, l) THEN c
    ELSE LET s == SetOf(l)
             w == rr_victim(c, s)
             old == c.lines[s][w]
             new == [valid |-> TRUE, dirty |-> FALSE, tag |-> TagOf(l),
                     data |-> Backing(c.sram, l)]
         IN [sram  |-> IF old.valid /\ old.dirty
                       THEN writeback_line(c.sram, base_line(old.tag, s), old.data)
                       ELSE c.sram,
             lines |-> [c.lines EXCEPT ![s][w] = new],
             next  |-> Advanced(c, s)]

(* The bytes of a line when those of an access are put over them.          *)
Merged(d, l, b) == [o \in Offset |-> IF l * LineSize + o \in DOMAIN b
                                      THEN b[l * LineSize + o] ELSE d[o]]

(* A hit that forgets to mark the line.                                    *)
HitWithoutDirty(c, l, b) ==
    IF ~contains(c, l) THEN c
    ELSE [c EXCEPT !.lines[SetOf(l)][find_way(c, l)].data = Merged(@, l, b)]

(* DCache::write_byte over the bytes of an access: a hit takes them and    *)
(* becomes dirty, a miss is left to the caller.                            *)
Marked(e, l, b) == [e EXCEPT !.dirty = TRUE, !.data = Merged(e.data, l, b)]
write_cached(c, l, b) ==
    IF ~contains(c, l) THEN c
    ELSE [c EXCEPT !.lines[SetOf(l)][find_way(c, l)] = Marked(@, l, b)]

(* Memory::write_byte, write_half, write_word: SRAM, and the cache where   *)
(* it holds the byte, whether it is enabled or not.                        *)
Overwritten(mem, b) == [a \in Addr |-> IF a \in DOMAIN b THEN b[a] ELSE mem[a]]
write_backing(c, b) ==
    LET touched == {LineOf(a) : a \in DOMAIN b}
        after == [c EXCEPT !.sram = Overwritten(c.sram, b)]
        lo == First(touched)
        hi == CHOOSE l \in touched : \A x \in touched : x <= l
    IN IF lo = hi THEN write_cached(after, lo, b)
       ELSE write_cached(write_cached(after, lo, b), hi, b)

SetCache(c) == /\ sram' = c.sram /\ lines' = c.lines /\ next_way' = c.next

-----------------------------------------------------------------------------
(* The CPU's data port.                                                    *)

(* The core clears the low address bits: the mask is per width.            *)
data_effective_addr(a, w) == a - (a % w)
Span(a, w) == a .. a + w - 1

read_data(a, w, bypass) ==
    IF bypass \/ ~enabled THEN Cache
    ELSE ensure_cache_line(Cache, LineOf(data_effective_addr(a, w)))
CpuLoad(a, w, bypass) == /\ SetCache(read_data(a, w, bypass))
                         /\ UNCHANGED <<enabled, im, icache, saved>>

write_data(a, w, b, bypass) ==
    LET l == LineOf(data_effective_addr(a, w)) IN
    IF bypass \/ ~enabled THEN write_backing(Cache, b)
    ELSE write_cached(ensure_cache_line(Cache, l), l, b)
CpuStore(a, w, b, bypass) == /\ SetCache(write_data(a, w, b, bypass))
                             /\ UNCHANGED <<enabled, im, icache, saved>>

(* The debugger's write: no masking, so it may straddle two lines.         *)
Poke(b) == /\ SetCache(write_backing(Cache, b))
           /\ UNCHANGED <<enabled, im, icache, saved>>

(* DatapathOp::SramWrite, drained after the MMIO store that started it:    *)
(* clean copies go, a dirty line keeps shadowing SRAM.                     *)
dma_sram_overwrite(c, L) ==
    [s \in DOMAIN c.lines |->
       [w \in Ways |-> LET e == c.lines[s][w] IN
          IF e.valid /\ ~e.dirty /\ base_line(e.tag, s) \in L THEN EmptyLine ELSE e]]
SramWritten(b) ==
    [sram  |-> Overwritten(sram, b),
     lines |-> dma_sram_overwrite(Cache, {LineOf(a) : a \in DOMAIN b}),
     next  |-> next_way]
SramWrite(b) == /\ SetCache(SramWritten(b))
                /\ UNCHANGED <<enabled, im, icache, saved>>

-----------------------------------------------------------------------------
(* Control registers.                                                      *)

(* DC_CTRL: nothing is written back when the cache is switched off.        *)
dcache_sync_ctrl(e, i) == /\ enabled' = e /\ im' = i
                          /\ UNCHANGED <<sram, lines, next_way, icache, saved>>

(* Dirty lines go back when IM is set; every line and counter is cleared.  *)
Dirty(c) == {x \in (0 .. NumSets - 1) \X Ways :
               c.lines[x[1]][x[2]].valid /\ c.lines[x[1]][x[2]].dirty}
Flushed(c) ==
    [a \in Addr |->
       LET D == {x \in Dirty(c) : base_line(c.lines[x[1]][x[2]].tag, x[1]) = LineOf(a)}
       IN IF D = {} THEN c.sram[a]
          ELSE LET x == CHOOSE x \in D : TRUE
               IN c.lines[x[1]][x[2]].data[a % LineSize]]
invalidate_all(c) ==
    [sram  |-> IF im THEN Flushed(c) ELSE c.sram,
     lines |-> [s \in DOMAIN c.lines |-> [w \in Ways |-> EmptyLine]],
     next  |-> [s \in DOMAIN c.lines |-> 0]]
DC_IVDC == /\ SetCache(invalidate_all(Cache))
           /\ UNCHANGED <<enabled, im, icache, saved>>

invalidate_line(c, l) ==
    IF ~contains(c, l) THEN c
    ELSE LET s == SetOf(l)
             w == find_way(c, l)
             e == c.lines[s][w]
         IN [c EXCEPT !.sram = IF e.dirty /\ im THEN writeback_line(@, l, e.data) ELSE @,
                      !.lines[s][w] = EmptyLine]
DC_IVDL(l) == /\ SetCache(invalidate_line(Cache, l))
              /\ UNCHANGED <<enabled, im, icache, saved>>

(* Memory::icache_fill, from a fetch that misses; IC_IVIC empties it.  The *)
(* single-line invalidate is a no-op of the hardware.                      *)
Fetch(l) ==
    /\ ~(icache[SetOf(l)].valid /\ icache[SetOf(l)].tag = TagOf(l))
    /\ icache' = [icache EXCEPT ![SetOf(l)] =
                    [valid |-> TRUE, dirty |-> FALSE, tag |-> TagOf(l),
                     data |-> Backing(sram, l)]]
    /\ UNCHANGED <<sram, lines, next_way, enabled, im, saved>>
NoCode == [s \in 0 .. NumSets - 1 |-> EmptyLine]
IC_IVIC == /\ icache' = NoCode
           /\ UNCHANGED <<sram, lines, next_way, enabled, im, saved>>

(* Memory::read_byte, read_half, read_word, the debugger's read: from the  *)
(* cache if it holds every byte, whether it is enabled or not, otherwise   *)
(* from SRAM.                                                              *)
Observed(a, w) ==
    IF \A x \in Span(a, w) : contains(Cache, LineOf(x))
    THEN [x \in Span(a, w) |-> peek_byte(Cache, x)]
    ELSE [x \in Span(a, w) |-> sram[x]]

-----------------------------------------------------------------------------
(* Resets and snapshots.  SRAM is written first and the caches are emptied *)
(* after it; DC_CTRL keeps its fields.                                     *)

AfterReset == invalidate_all([Cache EXCEPT !.sram = [a \in Addr |-> Blank]])
reset_soc_in_place ==
    /\ SetCache(AfterReset)
    /\ icache' = NoCode
    /\ UNCHANGED <<enabled, im, saved>>
warm_reboot_from_flash ==
    /\ SetCache([AfterReset EXCEPT !.sram = Overwritten(@, BootImage)])
    /\ icache' = NoCode
    /\ UNCHANGED <<enabled, im, saved>>

save_named_snapshot ==
    /\ saved' = [sram |-> sram]
    /\ UNCHANGED <<sram, lines, next_way, enabled, im, icache>>
restore_named_snapshot ==
    /\ saved # None
    /\ SetCache(invalidate_all([Cache EXCEPT !.sram = saved.sram]))
    /\ icache' = NoCode
    /\ UNCHANGED <<enabled, im, saved>>

Written(a, w) == {b \in [Span(a, w) -> Byte] : \A x \in Span(a, w) : b[x] \in Values[x]}
Reach(w) == {a \in Addr : a + w - 1 \in Addr}
mem_Next ==
    \/ \E a \in Addr, w \in Widths, bypass \in BOOLEAN :
         \/ CpuLoad(a, w, bypass)
         \/ \E b \in Written(data_effective_addr(a, w), w) : CpuStore(a, w, b, bypass)
    \/ \E w \in Widths : \E a \in Reach(w) :
         \E b \in Written(a, w) : Poke(b) \/ SramWrite(b)
    \/ \E e, i \in BOOLEAN : dcache_sync_ctrl(e, i)
    \/ \E l \in Line : DC_IVDL(l) \/ Fetch(l)
    \/ DC_IVDC \/ IC_IVIC
    \/ reset_soc_in_place \/ warm_reboot_from_flash
    \/ save_named_snapshot \/ restore_named_snapshot

mem_Spec == mem_Init /\ [][mem_Next]_mem_vars

-----------------------------------------------------------------------------
(* What the core's load gets: SRAM if it bypasses the cache (".di") or the *)
(* cache is off, otherwise the line, which is filled if need be.           *)
Loaded(a, w, bypass) ==
    LET c == read_data(a, w, bypass) IN
    [x \in Span(data_effective_addr(a, w), w) |->
       IF bypass \/ ~enabled THEN c.sram[x] ELSE peek_byte(c, x)]

(* What instruction fetch gets: the line of code if it is held, otherwise  *)
(* SRAM, never the D-cache.                                                *)
Fetched(code, mem) ==
    [x \in Addr |->
       LET e == code[SetOf(LineOf(x))] IN
       IF e.valid /\ e.tag = TagOf(LineOf(x)) THEN e.data[x % LineSize] ELSE mem[x]]

(* What a load that does not bypass the cache returns for each byte with   *)
(* the cache c.  One that does returns c.sram.                             *)
ViewOf(c) ==
    LET held == {l \in Line : enabled /\ contains(c, l)}
    IN [a \in Addr |-> IF LineOf(a) \in held THEN peek_byte(c, a) ELSE c.sram[a]]

(* A line is held by one way of its set at most, a valid line that is not  *)
(* dirty holds what SRAM holds, and a cached line is a line of SRAM.       *)
CleanLinesAgree ==
    \A s \in DOMAIN lines : \A w \in Ways :
      lines[s][w].valid =>
        LET l == base_line(lines[s][w].tag, s) IN
        /\ l \in Line
        /\ Holding(Cache, l) = {w}
        /\ lines[s][w].dirty \/ lines[s][w].data = Backing(sram, l)

(* Cached loads see a flat memory: one returns the view, and neither a     *)
(* load nor a write-back invalidation changes the view, whatever it        *)
(* evicts; a store of any width, masked to its width, cached or not,       *)
(* changes exactly the bytes it covers; so does a poke of the debugger,    *)
(* straddling lines or not.  What the debugger reads within a line is what *)
(* a cached load there returns.                                            *)
CachedLoadsAreFlat ==
    LET before == ViewOf(Cache) IN
    /\ \A a \in Addr, w \in Widths :
         Loaded(a, w, FALSE) = [x \in Span(data_effective_addr(a, w), w) |-> before[x]]
    /\ \A a \in Addr, w \in Widths, bypass \in BOOLEAN :
         /\ ViewOf(read_data(a, w, bypass)) = before
         /\ \A b \in Written(data_effective_addr(a, w), w) :
              ViewOf(write_data(a, w, b, bypass)) = Overwritten(before, b)
    /\ enabled /\ im => /\ ViewOf(invalidate_all(Cache)) = before
                        /\ \A l \in Line : ViewOf(invalidate_line(Cache, l)) = before
    /\ \A w \in Widths : \A a \in Reach(w) :
         /\ \A b \in Written(a, w) :
              ViewOf(write_backing(Cache, b)) = Overwritten(before, b)
         /\ enabled /\ LineOf(a) = LineOf(a + w - 1) =>
              Observed(a, w) = [x \in Span(a, w) |-> before[x]]

(* SRAM with the line v as cached loads see it.                            *)
WrittenBack(v) ==
    LET view == ViewOf(Cache) IN [x \in Addr |-> IF LineOf(x) = v THEN view[x] ELSE sram[x]]

(* A ".di" load gets SRAM, which lags behind: a cached access changes      *)
(* nothing there but, when it evicts a dirty line, that whole line at its  *)
(* own address, never the line it goes to; so what a cached store wrote is *)
(* not seen past the cache (test_dcache_writes_are_write_back), and        *)
(* switching the cache off leaves it unseen by every load                  *)
(* (dc_ctrl_disable_strands_dirty_lines).  A ".di" store is there at once. *)
UncachedLoadsLag ==
    \A a \in Addr, w \in Widths :
      LET e == data_effective_addr(a, w)
          miss == read_data(a, w, FALSE).sram IN
      /\ Loaded(a, w, TRUE) = [x \in Span(e, w) |-> sram[x]]
      /\ ~enabled => Loaded(a, w, FALSE) = Loaded(a, w, TRUE)
      /\ miss = sram \/ \E v \in Line \ {LineOf(e)} : miss = WrittenBack(v)
      /\ \A b \in Written(e, w) :
           /\ enabled => write_data(a, w, b, FALSE).sram = miss
           /\ write_data(a, w, b, TRUE).sram = Overwritten(sram, b)

(* The ports meet after a write-back invalidation: of a line, for that     *)
(* line; of the whole cache for every byte, for fetches once the lines of  *)
(* code are dropped too.                                                   *)
PortsMeet ==
    enabled /\ im =>
      LET all == invalidate_all(Cache).sram IN
      /\ \A l \in Line : invalidate_line(Cache, l).sram = WrittenBack(l)
      /\ all = ViewOf(Cache) /\ Fetched(NoCode, all) = ViewOf(Cache)

(* DMA shows through to cached loads except where the CPU's own write is   *)
(* still pending in a dirty line, which it neither changes nor drops.      *)
DmaShowsThrough ==
    LET before == ViewOf(Cache)
        pending == {x \in Addr : \E y \in Dirty(Cache) :
                      enabled /\ base_line(lines[y[1]][y[2]].tag, y[1]) = LineOf(x)}
    IN \A w \in Widths : \A a \in Reach(w) : \A b \in Written(a, w) :
         ViewOf(SramWritten(b)) =
           [x \in Addr |-> IF x \in pending \/ x \notin DOMAIN b THEN before[x] ELSE b[x]]

(* The data cache is write-back: a clean line is a copy of SRAM, cached    *)
(* loads see what was written last, loads past the cache what was written  *)
(* back, and a write-back invalidation brings the two together.            *)
CachesAreWriteBack ==
    /\ CleanLinesAgree /\ CachedLoadsAreFlat /\ UncachedLoadsLag
    /\ PortsMeet /\ DmaShowsThrough
=============================================================================
