------------------------- MODULE MemorySystem_proofs -------------------------
(***************************************************************************)
(* Proofs about MemorySystem, for any number of lines, sets and ways, any  *)
(* line length and any widths that divide it: no port can tell that there  *)
(* is a data cache.                                                        *)
(*                                                                         *)
(* Sound says of a cache that each line is held once, belongs to SRAM and  *)
(* is a copy of it unless dirty.  Its second argument excepts lines from   *)
(* the last: between the write of SRAM and that of the copy, or when SRAM  *)
(* is replaced under a cache that is emptied after it, they differ.  What  *)
(* an operation does to the view is said per line, as what it does to      *)
(* Content: the cached copy of a line if there is one, else SRAM's bytes.  *)
(***************************************************************************)
EXTENDS MemorySystem, WellFoundedInduction, TLAPS

Sets == 0 .. NumSets - 1

\* A number made of a quotient and a remainder has no other.
LEMMA OneQuotient ==
    ASSUME NEW n \in Nat \ {0}, NEW q \in Nat, NEW r \in 0 .. n - 1
    PROVE  (q * n + r) \div n = q /\ (q * n + r) % n = r
OBVIOUS

\* Every number is made so.
LEMMA Quotient ==
    ASSUME NEW n \in Nat \ {0}, NEW a \in Nat
    PROVE  /\ a \div n \in Nat /\ a % n \in 0 .. n - 1
           /\ a = (a \div n) * n + (a % n)
OBVIOUS

--------------------------------------------------------------------------------
\* Addresses (decompose and base_addr of cache.rs).

\* A byte of SRAM is an offset in a line of SRAM.
LEMMA ByteOfLine ==
    ASSUME NEW a \in Addr
    PROVE  LineOf(a) \in Line /\ a % LineSize \in Offset
           /\ a = LineOf(a) * LineSize + (a % LineSize)
<1>1. /\ LineSize \in Nat \ {0} /\ NumLines \in Nat \ {0} /\ a \in Nat
      /\ a < NumLines * LineSize
      BY MemoryAssumption DEF Addr
<1> DEFINE q == a \div LineSize
           r == a % LineSize
<1>2. q \in Nat /\ r \in 0 .. LineSize - 1 /\ a = q * LineSize + r
      BY <1>1, Quotient
<1> HIDE DEF q, r
<1>3. q < NumLines
  <2>1. ASSUME NumLines <= q PROVE FALSE
    <3>1. NumLines * LineSize <= q * LineSize
          BY <1>1, <1>2, <2>1
    <3>2. q * LineSize \in Nat /\ NumLines * LineSize \in Nat
          BY <1>1, <1>2
    <3> QED BY <1>1, <1>2, <3>1, <3>2
  <2> QED BY <1>1, <1>2, <2>1
<1>4. q \in 0 .. NumLines - 1
      BY <1>1, <1>2, <1>3
<1> QED BY <1>2, <1>4 DEF q, r, LineOf, Line, Offset

\* And every offset in one is a byte of SRAM.
LEMMA LineHasByte ==
    ASSUME NEW l \in Line, NEW o \in Offset
    PROVE  /\ l * LineSize + o \in Addr
           /\ LineOf(l * LineSize + o) = l /\ (l * LineSize + o) % LineSize = o
<1>1. /\ LineSize \in Nat \ {0} /\ NumLines \in Nat \ {0} /\ l \in Nat /\ l + 1 <= NumLines
      /\ o \in 0 .. LineSize - 1
      BY MemoryAssumption DEF Line, Offset
<1>2. (l * LineSize + o) \div LineSize = l /\ (l * LineSize + o) % LineSize = o
      BY <1>1, OneQuotient
<1>3. l * LineSize + o \in 0 .. NumLines * LineSize - 1
  <2>1. (l + 1) * LineSize <= NumLines * LineSize
        BY <1>1
  <2>2. (l + 1) * LineSize = l * LineSize + LineSize
        BY <1>1
  <2>3. l * LineSize \in Nat /\ NumLines * LineSize \in Nat
        BY <1>1
  <2> QED BY <1>1, <2>1, <2>2, <2>3
<1> QED BY <1>2, <1>3 DEF Addr, LineOf

\* A line is a tag in a set.
LEMMA LineOfSet ==
    ASSUME NEW l \in Line
    PROVE  SetOf(l) \in Sets /\ TagOf(l) \in Nat /\ base_line(TagOf(l), SetOf(l)) = l
<1>1. NumSets \in Nat \ {0} /\ l \in Nat
      BY MemoryAssumption DEF Line
<1> QED BY <1>1, Quotient DEF SetOf, TagOf, base_line, Sets

\* And every tag in one is a line.
LEMMA SetHasLine ==
    ASSUME NEW tag \in Nat, NEW s \in Sets
    PROVE  SetOf(base_line(tag, s)) = s /\ TagOf(base_line(tag, s)) = tag
BY MemoryAssumption, OneQuotient DEF SetOf, TagOf, base_line, Sets

\* What the core accesses, masked to its width, lies in one line.
LEMMA AlignedSpan ==
    ASSUME NEW a \in Addr, NEW w \in Widths
    PROVE  LET e == data_effective_addr(a, w)
           IN /\ e \in Span(e, w) /\ Span(e, w) \subseteq Addr
              /\ LineOf(e) \in Line
              /\ \A x \in Span(e, w) : LineOf(x) = LineOf(e)
<1> DEFINE e == data_effective_addr(a, w)
           m == a \div w
           k == LineSize \div w
           q == m \div k
           r == m % k
<1>1. /\ LineSize \in Nat \ {0} /\ w \in Nat \ {0} /\ a \in Nat /\ w <= LineSize
      /\ LineSize % w = 0
      BY MemoryAssumption DEF Addr
<1>2. m \in Nat /\ e = m * w
  <2>1. m \in Nat /\ a = m * w + (a % w) /\ a % w \in Nat
        BY <1>1, Quotient
  <2> DEFINE d == a % w
  <2>2. e = a - d
        BY DEF data_effective_addr
  <2> HIDE DEF d, e, m
  <2>3. m \in Nat /\ a = m * w + d /\ d \in Nat /\ m * w \in Nat
        BY <1>1, <2>1 DEF d
  <2> QED BY <2>2, <2>3
<1>3. k \in Nat /\ LineSize = k * w
  <2>1. k \in Nat /\ LineSize = k * w + (LineSize % w)
        BY <1>1, Quotient
  <2> HIDE DEF k
  <2> QED BY <1>1, <2>1
<1> HIDE DEF e, m, k
<1>4. k # 0
      BY <1>1, <1>3
<1>5. q \in Nat /\ r \in 0 .. k - 1 /\ m = q * k + r
      BY <1>2, <1>3, <1>4, Quotient
<1> HIDE DEF q, r
<1>6. e = q * LineSize + r * w
  <2>1. e = (q * k + r) * w
        BY <1>2, <1>5
  <2>2. (q * k + r) * w = q * (k * w) + r * w
        BY <1>1, <1>3, <1>5
  <2> QED BY <1>3, <2>1, <2>2
<1>7. r * w \in Nat /\ r * w + w <= LineSize
  <2>1. (r + 1) * w <= k * w
        BY <1>1, <1>3, <1>5
  <2>2. (r + 1) * w = r * w + w /\ r * w \in Nat
        BY <1>1, <1>5
  <2> QED BY <1>3, <2>1, <2>2
<1>8. ASSUME NEW x \in Span(e, w) PROVE LineOf(x) = q
  <2> DEFINE o == r * w + (x - e)
  <2>1. q * LineSize \in Nat /\ e \in Nat
        BY <1>1, <1>5, <1>6, <1>7
  <2>2. o \in 0 .. LineSize - 1 /\ x = q * LineSize + o
        BY <1>1, <1>6, <1>7, <2>1 DEF Span
  <2> HIDE DEF o
  <2> QED BY <1>1, <1>5, <2>2, OneQuotient DEF LineOf
<1>9. e \in Nat /\ e \in Span(e, w) /\ a \in Span(e, w)
  <2>1. e \in Nat
        BY <1>1, <1>2
  <2>2. e = a - (a % w) /\ a % w \in 0 .. w - 1
        BY <1>1, Quotient DEF e, data_effective_addr
  <2> DEFINE d == a % w
  <2> HIDE DEF d
  <2>3. e = a - d /\ d \in 0 .. w - 1
        BY <2>2 DEF d
  <2> QED BY <1>1, <2>1, <2>3 DEF Span
<1>10. q \in Line
       BY <1>8, <1>9, ByteOfLine
<1>11. ASSUME NEW x \in Span(e, w) PROVE x \in Addr
  <2> DEFINE o == r * w + (x - e)
  <2>1. q * LineSize \in Nat /\ e \in Nat
        BY <1>1, <1>5, <1>6, <1>7
  <2>2. o \in Offset /\ x = q * LineSize + o
        BY <1>1, <1>6, <1>7, <2>1 DEF Span, Offset
  <2> HIDE DEF o
  <2> QED BY <1>10, <2>2, LineHasByte
<1> QED BY <1>8, <1>9, <1>10, <1>11 DEF e

\* What the debugger or a device accesses lies in two lines at most: those of its ends.
LEMMA AnySpan ==
    ASSUME NEW w \in Widths, NEW a \in Reach(w)
    PROVE  LET z == a + w - 1
           IN /\ a \in Span(a, w) /\ z \in Span(a, w) /\ Span(a, w) \subseteq Addr
              /\ LineOf(a) \in Line /\ LineOf(z) \in Line /\ LineOf(a) <= LineOf(z)
              /\ \A x \in Span(a, w) : LineOf(x) = LineOf(a) \/ LineOf(x) = LineOf(z)
<1> DEFINE z == a + w - 1
<1>1. /\ LineSize \in Nat \ {0} /\ w \in Nat \ {0} /\ w <= LineSize /\ a \in Addr /\ z \in Addr
      /\ a \in Nat
      BY MemoryAssumption DEF Reach, Addr
<1>2. a \in Span(a, w) /\ z \in Span(a, w) /\ Span(a, w) \subseteq Addr
  <2>1. a \in Span(a, w) /\ z \in Span(a, w)
        BY <1>1 DEF Span
  <2>2. ASSUME NEW x \in Span(a, w) PROVE x \in Addr
    <3> DEFINE n == NumLines * LineSize
    <3>1. n \in Int /\ 0 <= a /\ z <= n - 1 /\ x \in a .. z
          BY <1>1, MemoryAssumption DEF Addr, Span
    <3> HIDE DEF n, z
    <3>2. x \in 0 .. n - 1
          BY <1>1, <3>1
    <3> QED BY <3>2 DEF Addr, n
  <2> QED BY <2>1, <2>2
<1>3. ASSUME NEW x \in Addr
      PROVE  LineOf(x) \in Nat /\ LineOf(x) \in Line
             /\ \E o \in 0 .. LineSize - 1 : x = LineOf(x) * LineSize + o
      BY MemoryAssumption, ByteOfLine DEF Line, Offset
<1>4. ASSUME NEW x \in Addr, NEW y \in Addr, x <= y PROVE LineOf(x) <= LineOf(y)
  <2> DEFINE p == LineOf(x)
             q == LineOf(y)
  <2>1. PICK o \in 0 .. LineSize - 1 : x = p * LineSize + o
        BY <1>3
  <2>2. PICK i \in 0 .. LineSize - 1 : y = q * LineSize + i
        BY <1>3
  <2>3. p \in Nat /\ q \in Nat
        BY <1>3
  <2> HIDE DEF p, q
  <2>4. ASSUME q + 1 <= p PROVE FALSE
    <3>1. (q + 1) * LineSize <= p * LineSize
          BY <1>1, <2>3, <2>4
    <3>2. (q + 1) * LineSize = q * LineSize + LineSize /\ q * LineSize \in Nat /\ p * LineSize \in Nat
          BY <1>1, <2>3
    <3> QED BY <1>1, <1>4, <2>1, <2>2, <3>1, <3>2
  <2> QED BY <2>3, <2>4 DEF p, q
<1>5. ASSUME NEW x \in Span(a, w) PROVE LineOf(x) = LineOf(a) \/ LineOf(x) = LineOf(z)
  <2> DEFINE p == LineOf(a)
             q == LineOf(z)
             y == LineOf(x)
  <2>1. x \in Addr /\ a <= x /\ x <= z
        BY <1>1, <1>2 DEF Span
  <2>2. p <= y /\ y <= q /\ p \in Nat /\ q \in Nat /\ y \in Nat
        BY <1>1, <1>3, <1>4, <2>1
  <2>3. PICK o \in 0 .. LineSize - 1 : a = p * LineSize + o
        BY <1>1, <1>3
  <2>4. PICK i \in 0 .. LineSize - 1 : z = q * LineSize + i
        BY <1>1, <1>3
  <2> HIDE DEF p, q, y
  <2>5. ASSUME p + 2 <= q PROVE FALSE
    <3>1. (p + 2) * LineSize <= q * LineSize
          BY <1>1, <2>2, <2>5
    <3>2. (p + 2) * LineSize = p * LineSize + 2 * LineSize /\ q * LineSize \in Nat /\ p * LineSize \in Nat
          BY <1>1, <2>2
    <3> QED BY <1>1, <2>3, <2>4, <3>1, <3>2
  <2> QED BY <2>2, <2>5 DEF p, q, y
<1>6. LineOf(a) <= LineOf(z)
  <2>1. a <= z
        BY <1>1
  <2> QED BY <1>1, <1>4, <2>1
<1> QED BY <1>1, <1>2, <1>3, <1>5, <1>6

--------------------------------------------------------------------------------
\* Lines of the cache.

LineState == [valid : BOOLEAN, dirty : BOOLEAN, tag : Nat, data : [Offset -> Byte]]
CacheState == [sram : [Addr -> Byte], lines : [Sets -> [Ways -> LineState]],
               next : [Sets -> Ways]]

\* Way w of its set holds line l.
Has(c, l, w) == /\ c.lines[SetOf(l)][w].valid
                /\ c.lines[SetOf(l)][w].tag = TagOf(l)

\* Every cached line is one of SRAM, is held once, and if it is clean and not one of X
\* a copy of what SRAM holds.
Sound(c, X) ==
    /\ c \in CacheState
    /\ \A s \in Sets : \A w \in Ways :
          c.lines[s][w].valid => base_line(c.lines[s][w].tag, s) \in Line
    /\ \A l \in Line : \A w, v \in Ways : Has(c, l, w) /\ Has(c, l, v) => w = v
    /\ \A l \in Line \ X : \A w \in Ways :
          Has(c, l, w) => \/ c.lines[SetOf(l)][w].dirty
                          \/ c.lines[SetOf(l)][w].data = Backing(c.sram, l)

\* The cached copy of a line, and what a line holds: its copy if there is one.
Copy(c, l) == c.lines[SetOf(l)][find_way(c, l)]
Content(c, l) == IF contains(c, l) THEN Copy(c, l).data ELSE Backing(c.sram, l)

\* A set of numbers has a least one.
LEMMA LeastWay ==
    ASSUME NEW S, S \subseteq Nat, S # {} PROVE First(S) \in S
<1> DEFINE R == OpToRel(<, Nat)
<1>1. IsWellFoundedOn(R, Nat)
      BY NatLessThanWellFounded
<1>2. \A x, y \in Nat : x < y => <<x, y>> \in R
      BY DEF OpToRel
<1> HIDE DEF R
<1>3. PICK x \in S : \A y \in S : <<y, x>> \notin R
      BY <1>1, WFMin
<1>4. ASSUME NEW y \in S PROVE x <= y
  <2>1. x \in Nat /\ y \in Nat /\ ~(y < x)
        BY <1>2, <1>3
  <2> QED BY <2>1
<1> QED BY <1>4 DEF First

\* A line that some way holds is found there.
LEMMA Hit ==
    ASSUME NEW c, NEW X, Sound(c, X), NEW l \in Line, NEW w \in Ways, Has(c, l, w)
    PROVE  /\ Holding(c, l) = {w} /\ contains(c, l) /\ find_way(c, l) = w
           /\ Copy(c, l) = c.lines[SetOf(l)][w]
<1>1. \A v \in Ways : Has(c, l, v) => v = w
      BY DEF Sound
<1>2. Holding(c, l) = {w}
      BY <1>1 DEF Holding, Has
<1>3. First({w}) = w
  <2>1. w \in Nat
        BY DEF Ways
  <2> QED BY <2>1 DEF First
<1> QED BY <1>2, <1>3 DEF contains, find_way, Copy

\* A line that is found is held by a way, one that is not by none.
LEMMA Found ==
    ASSUME NEW c, NEW X, Sound(c, X), NEW l \in Line
    PROVE  /\ contains(c, l) => find_way(c, l) \in Ways /\ Has(c, l, find_way(c, l))
           /\ contains(c, l) <=> \E w \in Ways : Has(c, l, w)
<1>1. contains(c, l) <=> \E w \in Ways : Has(c, l, w)
      BY DEF contains, Holding, Has
<1>2. ASSUME NEW w \in Ways, Has(c, l, w) PROVE find_way(c, l) = w
      BY <1>2, Hit
<1> QED BY <1>1, <1>2

\* The state of one way, and of the line it holds.
LEMMA WayIs ==
    ASSUME NEW c \in CacheState, NEW s \in Sets, NEW w \in Ways
    PROVE  /\ c.lines[s][w] \in LineState /\ c.lines[s][w].valid \in BOOLEAN
           /\ c.lines[s][w].dirty \in BOOLEAN /\ c.lines[s][w].tag \in Nat
           /\ c.lines[s][w].data \in [Offset -> Byte]
<1>1. c.lines[s][w] \in LineState
      BY DEF CacheState
<1> QED BY <1>1 DEF LineState

\* Two lines of one set with one tag are one.
LEMMA SameLine ==
    ASSUME NEW k \in Line, NEW l \in Line, SetOf(k) = SetOf(l), TagOf(k) = TagOf(l)
    PROVE  k = l
BY LineOfSet

\* What a line of SRAM holds is bytes.
LEMMA BackingType ==
    ASSUME NEW mem \in [Addr -> Byte], NEW l \in Line
    PROVE  Backing(mem, l) \in [Offset -> Byte]
BY LineHasByte DEF Backing

\* Writing a line back changes that line of SRAM and no other.
LEMMA WritebackIs ==
    ASSUME NEW mem \in [Addr -> Byte], NEW l \in Line, NEW d \in [Offset -> Byte]
    PROVE  /\ writeback_line(mem, l, d) \in [Addr -> Byte]
           /\ Backing(writeback_line(mem, l, d), l) = d
           /\ \A k \in Line : k # l => Backing(writeback_line(mem, l, d), k) = Backing(mem, k)
<1> DEFINE r == writeback_line(mem, l, d)
<1>1. r \in [Addr -> Byte] /\ \A a \in Addr : r[a] = IF LineOf(a) = l THEN d[a % LineSize] ELSE mem[a]
      BY ByteOfLine DEF writeback_line
<1> HIDE DEF r
<1>2. ASSUME NEW k \in Line, NEW o \in Offset
      PROVE  r[k * LineSize + o] = IF k = l THEN d[o] ELSE mem[k * LineSize + o]
      BY <1>1, LineHasByte
<1>3. Backing(r, l) = d
  <2>1. Backing(r, l) = [o \in Offset |-> d[o]]
        BY <1>2 DEF Backing
  <2> QED BY <2>1
<1>4. \A k \in Line : k # l => Backing(r, k) = Backing(mem, k)
      BY <1>2 DEF Backing
<1> QED BY <1>1, <1>3, <1>4 DEF r

\* A cache in which one way got a new state.
Placed(c, s, w, e) == [c EXCEPT !.lines = [c.lines EXCEPT ![s] = [c.lines[s] EXCEPT ![w] = e]]]

\* The other ways keep theirs.
LEMMA PlacedIs ==
    ASSUME NEW c \in CacheState, NEW s \in Sets, NEW w \in Ways, NEW e \in LineState
    PROVE  /\ Placed(c, s, w, e) \in CacheState
           /\ Placed(c, s, w, e).sram = c.sram /\ Placed(c, s, w, e).next = c.next
           /\ Placed(c, s, w, e).lines[s][w] = e
           /\ \A t \in Sets : \A v \in Ways :
                 t # s \/ v # w => Placed(c, s, w, e).lines[t][v] = c.lines[t][v]
<1> DEFINE L == [c.lines EXCEPT ![s] = [c.lines[s] EXCEPT ![w] = e]]
<1>1. c.lines \in [Sets -> [Ways -> LineState]]
      BY DEF CacheState
<1>2. /\ L \in [Sets -> [Ways -> LineState]] /\ L[s][w] = e
      /\ \A t \in Sets : \A v \in Ways : t # s \/ v # w => L[t][v] = c.lines[t][v]
      BY <1>1
<1>3. Placed(c, s, w, e) = [c EXCEPT !.lines = L]
      BY DEF Placed
<1> HIDE DEF L
<1>4. Placed(c, s, w, e).lines = L
      BY <1>3 DEF CacheState
<1> QED BY <1>2, <1>3, <1>4 DEF CacheState

\* A hit takes the bytes and marks its line, of which nothing more is asked; every
\* other copy stays.
LEMMA WriteCached ==
    ASSUME NEW c, NEW X, Sound(c, X), NEW l \in Line, NEW b, b \in [DOMAIN b -> Byte]
    PROVE  LET r == write_cached(c, l, b)
           IN /\ Sound(r, X \ {l}) /\ r.sram = c.sram
              /\ \A k \in Line :
                    /\ contains(r, k) <=> contains(c, k)
                    /\ contains(c, k) => Copy(r, k).data = IF k = l THEN Merged(Copy(c, l).data, l, b)
                                                                    ELSE Copy(c, k).data
<1> DEFINE r == write_cached(c, l, b)
<1>1. CASE ~contains(c, l)
  <2>1. r = c
        BY <1>1 DEF write_cached
  <2>2. \A w \in Ways : ~Has(c, l, w)
        BY <1>1, Found
  <2>3. Sound(c, X \ {l})
        BY <2>2 DEF Sound
  <2> QED BY <1>1, <2>1, <2>3
<1>2. CASE contains(c, l)
  <2> DEFINE s == SetOf(l)
             w == find_way(c, l)
             e == Marked(c.lines[s][w], l, b)
  <2>1. s \in Sets /\ w \in Ways /\ Has(c, l, w) /\ c \in CacheState /\ Copy(c, l) = c.lines[s][w]
        BY <1>2, LineOfSet, Found DEF Sound, Copy
  <2>2. /\ c.lines[s][w] \in LineState /\ c.lines[s][w].data \in [Offset -> Byte]
        /\ c.lines[s][w].valid /\ c.lines[s][w].tag = TagOf(l)
        BY <2>1, WayIs DEF Has
  <2>3. Merged(c.lines[s][w].data, l, b) \in [Offset -> Byte]
        BY <2>2 DEF Merged
  <2>4. /\ e \in LineState /\ e.valid /\ e.dirty /\ e.tag = TagOf(l)
        /\ e.data = Merged(c.lines[s][w].data, l, b)
    <3> DEFINE m == Merged(c.lines[s][w].data, l, b)
    <3>1. e = [c.lines[s][w] EXCEPT !.dirty = TRUE, !.data = m]
          BY DEF Marked
    <3> HIDE DEF m, e
    <3> QED BY <2>2, <2>3, <3>1 DEF LineState, m
  <2>5. r = Placed(c, s, w, e)
        BY <1>2 DEF write_cached, Placed
  <2> HIDE DEF s, w, e, r
  <2>6. /\ r \in CacheState /\ r.sram = c.sram /\ r.lines[s][w] = e
        /\ \A t \in Sets : \A v \in Ways : t # s \/ v # w => r.lines[t][v] = c.lines[t][v]
        BY <2>1, <2>4, <2>5, PlacedIs
  <2>7. \A k \in Line : \A v \in Ways : Has(r, k, v) <=> Has(c, k, v)
    <3> TAKE k \in Line
    <3> TAKE v \in Ways
    <3>1. SetOf(k) \in Sets
          BY LineOfSet
    <3>2. CASE SetOf(k) = s /\ v = w
          BY <2>2, <2>4, <2>6, <3>2 DEF Has
    <3>3. CASE ~(SetOf(k) = s /\ v = w)
          BY <2>6, <3>1, <3>3 DEF Has
    <3> QED BY <3>2, <3>3
  <2>8. \A t \in Sets : \A v \in Ways :
            r.lines[t][v].valid => base_line(r.lines[t][v].tag, t) \in Line
    <3> TAKE t \in Sets
    <3> TAKE v \in Ways
    <3>1. CASE t = s /\ v = w
          BY <2>4, <2>6, <3>1, LineOfSet DEF s
    <3>2. CASE ~(t = s /\ v = w)
          BY <2>6, <3>2 DEF Sound
    <3> QED BY <3>1, <3>2
  <2>9. \A k \in Line \ (X \ {l}) : \A v \in Ways :
            Has(r, k, v) => \/ r.lines[SetOf(k)][v].dirty
                            \/ r.lines[SetOf(k)][v].data = Backing(r.sram, k)
    <3> TAKE k \in Line \ (X \ {l})
    <3> TAKE v \in Ways
    <3>1. SUFFICES ASSUME Has(r, k, v)
                   PROVE  \/ r.lines[SetOf(k)][v].dirty
                          \/ r.lines[SetOf(k)][v].data = Backing(r.sram, k)
          OBVIOUS
    <3>2. CASE SetOf(k) = s /\ v = w
          BY <2>4, <2>6, <3>2
    <3>3. CASE ~(SetOf(k) = s /\ v = w)
      <4>1. k # l
        <5>1. k = l => v = w
              BY <2>1, <2>7, <3>1 DEF Sound
        <5> QED BY <3>3, <5>1 DEF s
      <4>2. SetOf(k) \in Sets /\ k \in Line \ X
            BY <4>1, LineOfSet
      <4>3. r.lines[SetOf(k)][v] = c.lines[SetOf(k)][v]
            BY <2>6, <3>3, <4>2
      <4> QED BY <2>6, <2>7, <3>1, <4>2, <4>3 DEF Sound
    <3> QED BY <3>2, <3>3
  <2>10. Sound(r, X \ {l})
         BY <2>6, <2>7, <2>8, <2>9 DEF Sound
  <2>11. ASSUME NEW k \in Line
         PROVE  /\ contains(r, k) <=> contains(c, k)
                /\ contains(c, k) => Copy(r, k).data = IF k = l THEN Merged(Copy(c, l).data, l, b)
                                                                ELSE Copy(c, k).data
    <3>1. contains(r, k) <=> contains(c, k)
          BY <2>7, <2>10, Found
    <3>2. SUFFICES ASSUME contains(c, k)
                   PROVE  Copy(r, k).data = IF k = l THEN Merged(Copy(c, l).data, l, b)
                                                     ELSE Copy(c, k).data
          BY <3>1
    <3>3. PICK v \in Ways : Has(c, k, v)
          BY <3>2, Found
    <3>4. Copy(c, k) = c.lines[SetOf(k)][v] /\ Copy(r, k) = r.lines[SetOf(k)][v]
          BY <2>7, <2>10, <3>3, Hit
    <3>5. CASE k = l
      <4>1. v = w
            BY <2>1, <3>3, <3>5 DEF Sound
      <4> QED BY <2>1, <2>4, <2>6, <3>4, <3>5, <4>1 DEF s
    <3>6. CASE k # l
      <4>1. ~(SetOf(k) = s /\ v = w)
            BY <2>2, <3>3, <3>6, SameLine DEF Has, s
      <4>2. r.lines[SetOf(k)][v] = c.lines[SetOf(k)][v]
            BY <2>6, <4>1, LineOfSet
      <4> QED BY <3>4, <3>6, <4>2
    <3> QED BY <3>5, <3>6
  <2> QED BY <2>6, <2>10, <2>11 DEF r
<1> QED BY <1>1, <1>2

\* The victim of a fill is a way of the set.
LEMMA VictimIsWay ==
    ASSUME NEW c \in CacheState, NEW s \in Sets
    PROVE  rr_victim(c, s) \in Ways
<1>1. CASE Invalid(c, s) # {}
  <2>1. Invalid(c, s) \subseteq Nat /\ Invalid(c, s) \subseteq Ways
        BY DEF Invalid, Ways
  <2> QED BY <1>1, <2>1, LeastWay DEF rr_victim
<1>2. CASE Invalid(c, s) = {}
      BY <1>2 DEF rr_victim, CacheState
<1> QED BY <1>1, <1>2

\* Filling: the line is there, nothing a line holds changes, whatever was evicted.
LEMMA Filled ==
    ASSUME NEW c, Sound(c, {}), NEW l \in Line
    PROVE  LET r == ensure_cache_line(c, l)
           IN /\ Sound(r, {}) /\ contains(r, l)
              /\ \A k \in Line : Content(r, k) = Content(c, k)
<1> DEFINE r == ensure_cache_line(c, l)
<1>1. CASE contains(c, l)
      BY <1>1 DEF ensure_cache_line
<1>2. CASE ~contains(c, l)
  <2> DEFINE s == SetOf(l)
             w == rr_victim(c, s)
             old == c.lines[s][w]
             new == [valid |-> TRUE, dirty |-> FALSE, tag |-> TagOf(l), data |-> Backing(c.sram, l)]
             back == base_line(old.tag, s)
             mem == IF old.valid /\ old.dirty THEN writeback_line(c.sram, back, old.data) ELSE c.sram
  <2>1. /\ c \in CacheState /\ c.sram \in [Addr -> Byte] /\ c.next \in [Sets -> Ways]
        /\ c.lines \in [Sets -> [Ways -> LineState]] /\ s \in Sets /\ TagOf(l) \in Nat
        BY LineOfSet DEF Sound, CacheState
  <2>2. w \in Ways
        BY <2>1, VictimIsWay
  <2>3. Advanced(c, s) \in [Sets -> Ways]
    <3>1. \A n \in Ways : (n + 1) % NumWays \in Ways
      <4> TAKE n \in Ways
      <4>1. n + 1 \in Nat /\ NumWays \in Nat \ {0}
            BY MemoryAssumption DEF Ways
      <4> QED BY <4>1, Quotient DEF Ways
    <3> QED BY <2>1, <3>1 DEF Advanced
  <2>4. new \in LineState /\ new.valid /\ new.tag = TagOf(l) /\ new.data = Backing(c.sram, l)
        BY <2>1, BackingType DEF LineState
  <2>5. /\ old.tag \in Nat /\ old.data \in [Offset -> Byte] /\ old.valid \in BOOLEAN
        /\ old.dirty \in BOOLEAN
        BY <2>1, <2>2, WayIs
  <2>6. r = [sram |-> mem, lines |-> [c.lines EXCEPT ![s] = [c.lines[s] EXCEPT ![w] = new]],
             next |-> Advanced(c, s)]
        BY <1>2 DEF ensure_cache_line
  <2>7. ASSUME old.valid
        PROVE  /\ back \in Line /\ SetOf(back) = s /\ TagOf(back) = old.tag /\ Has(c, back, w)
               /\ back # l /\ contains(c, back) /\ Copy(c, back) = old
    <3>1. back \in Line
          BY <2>1, <2>2, <2>7 DEF Sound
    <3>2. SetOf(back) = s /\ TagOf(back) = old.tag
          BY <2>1, <2>5, SetHasLine
    <3>3. Has(c, back, w)
          BY <2>7, <3>2 DEF Has
    <3>4. contains(c, back) /\ Copy(c, back) = c.lines[SetOf(back)][w]
          BY <2>2, <3>1, <3>3, Hit
    <3>5. back # l
          BY <1>2, <3>4
    <3> QED BY <3>1, <3>2, <3>3, <3>4, <3>5
  <2>8. /\ mem \in [Addr -> Byte]
        /\ old.valid /\ old.dirty => Backing(mem, back) = old.data
        /\ \A k \in Line : Backing(mem, k) = Backing(c.sram, k) \/ (old.valid /\ old.dirty /\ k = back)
    <3>1. CASE old.valid /\ old.dirty
      <4>1. mem = writeback_line(c.sram, back, old.data)
            BY <3>1
      <4> HIDE DEF back, old, mem
      <4> QED BY <2>1, <2>5, <2>7, <3>1, <4>1, WritebackIs
    <3>2. CASE ~(old.valid /\ old.dirty)
      <4>1. mem = c.sram
            BY <3>2
      <4> HIDE DEF back, old, mem
      <4> QED BY <2>1, <3>2, <4>1
    <3> QED BY <3>1, <3>2
  <2>14. old = c.lines[s][w]
         OBVIOUS
  <2> HIDE DEF s, w, old, new, back, mem, r
  <2>9. /\ r \in CacheState /\ r.sram = mem /\ r.lines[s][w] = new
        /\ \A t \in Sets : \A v \in Ways : t # s \/ v # w => r.lines[t][v] = c.lines[t][v]
    <3> DEFINE L == [c.lines EXCEPT ![s] = [c.lines[s] EXCEPT ![w] = new]]
    <3>1. /\ L \in [Sets -> [Ways -> LineState]] /\ L[s][w] = new
          /\ \A t \in Sets : \A v \in Ways : t # s \/ v # w => L[t][v] = c.lines[t][v]
          BY <2>1, <2>2, <2>4
    <3>2. r = [sram |-> mem, lines |-> L, next |-> Advanced(c, s)]
          BY <2>6
    <3> HIDE DEF L
    <3> QED BY <2>3, <2>8, <3>1, <3>2 DEF CacheState
  \* The other lines are held where they were, the evicted one no longer.
  <2>10. ASSUME NEW k \in Line, NEW v \in Ways
         PROVE  Has(r, k, v) <=> \/ k = l /\ v = w
                                 \/ Has(c, k, v) /\ ~(old.valid /\ k = back)
    <3>1. SetOf(k) \in Sets
          BY LineOfSet
    <3>2. CASE SetOf(k) = s /\ v = w
      <4>1. Has(r, k, v) <=> TagOf(k) = TagOf(l)
            BY <2>4, <2>9, <3>2 DEF Has
      <4>2. TagOf(k) = TagOf(l) <=> k = l
            BY <3>2, SameLine DEF s
      <4>3. Has(c, k, v) => old.valid /\ k = back
        <5>1. SUFFICES ASSUME Has(c, k, v) PROVE old.valid /\ k = back
              OBVIOUS
        <5>2. old.valid /\ TagOf(k) = old.tag
              BY <2>14, <3>2, <5>1 DEF Has
        <5> QED BY <2>7, <3>2, <5>2, SameLine
      <4> QED BY <3>2, <4>1, <4>2, <4>3
    <3>3. CASE ~(SetOf(k) = s /\ v = w)
      <4>1. Has(r, k, v) <=> Has(c, k, v)
            BY <2>9, <3>1, <3>3 DEF Has
      <4>2. ~(k = l /\ v = w)
            BY <3>3 DEF s
      <4>3. ASSUME Has(c, k, v), old.valid, k = back PROVE FALSE
        <5>1. v = w
              BY <2>2, <2>7, <4>3 DEF Sound
        <5> QED BY <2>7, <3>3, <4>3, <5>1
      <4> QED BY <4>1, <4>2, <4>3
    <3> QED BY <3>2, <3>3
  <2>11. \A w1 \in Ways : ~Has(c, l, w1)
         BY <1>2, Found
  <2>12. Sound(r, {})
    <3>1. \A t \in Sets : \A v \in Ways :
              r.lines[t][v].valid => base_line(r.lines[t][v].tag, t) \in Line
      <4> TAKE t \in Sets
      <4> TAKE v \in Ways
      <4>1. CASE t = s /\ v = w
            BY <2>4, <2>9, <4>1, LineOfSet DEF s
      <4>2. CASE ~(t = s /\ v = w)
            BY <2>9, <4>2 DEF Sound
      <4> QED BY <4>1, <4>2
    <3>2. \A k \in Line : \A u, v \in Ways : Has(r, k, u) /\ Has(r, k, v) => u = v
          BY <2>10, <2>11 DEF Sound
    <3>3. \A k \in Line \ {} : \A v \in Ways :
              Has(r, k, v) => \/ r.lines[SetOf(k)][v].dirty
                              \/ r.lines[SetOf(k)][v].data = Backing(r.sram, k)
      <4> TAKE k \in Line \ {}
      <4> TAKE v \in Ways
      <4>1. SUFFICES ASSUME Has(r, k, v)
                     PROVE  \/ r.lines[SetOf(k)][v].dirty
                            \/ r.lines[SetOf(k)][v].data = Backing(r.sram, k)
            OBVIOUS
      <4>2. CASE k = l /\ v = w
            BY <2>4, <2>7, <2>8, <2>9, <4>2 DEF s
      <4>3. CASE Has(c, k, v) /\ ~(old.valid /\ k = back)
        <5>1. ~(SetOf(k) = s /\ v = w)
          <6>1. SUFFICES ASSUME SetOf(k) = s, v = w PROVE FALSE
                OBVIOUS
          <6>2. old.valid /\ TagOf(k) = old.tag
                BY <2>14, <4>3, <6>1 DEF Has
          <6> QED BY <2>7, <4>3, <6>1, <6>2, SameLine
        <5>2. r.lines[SetOf(k)][v] = c.lines[SetOf(k)][v]
              BY <2>9, <5>1, LineOfSet
        <5>3. Backing(r.sram, k) = Backing(c.sram, k)
              BY <2>8, <2>9, <4>3
        <5> QED BY <4>3, <5>2, <5>3 DEF Sound
      <4> QED BY <2>10, <4>1, <4>2, <4>3
    <3> QED BY <2>9, <3>1, <3>2, <3>3 DEF Sound
  <2>13. ASSUME NEW k \in Line PROVE Content(r, k) = Content(c, k)
    <3>1. CASE k = l
      <4>1. Has(r, l, w)
            BY <2>2, <2>10
      <4>2. contains(r, l) /\ Copy(r, l) = r.lines[SetOf(l)][w]
            BY <2>2, <2>12, <4>1, Hit
      <4> QED BY <1>2, <2>4, <2>9, <3>1, <4>2 DEF Content, s
    <3>2. CASE k # l /\ old.valid /\ k = back
      <4>1. ~contains(r, k)
            BY <2>10, <2>12, <3>2, Found
      <4>2. Content(r, k) = Backing(mem, k)
            BY <2>9, <4>1 DEF Content
      <4>3. Content(c, k) = old.data
            BY <2>7, <3>2 DEF Content
      <4>4. CASE old.dirty
            BY <2>8, <3>2, <4>2, <4>3, <4>4
      <4>5. CASE ~old.dirty
        <5>1. old.data = Backing(c.sram, k)
              BY <2>2, <2>7, <2>14, <3>2, <4>5 DEF Sound
        <5> QED BY <2>8, <4>2, <4>3, <4>5, <5>1
      <4> QED BY <4>4, <4>5
    <3>3. CASE k # l /\ ~(old.valid /\ k = back)
      <4>1. \A v \in Ways : Has(r, k, v) <=> Has(c, k, v)
            BY <2>10, <3>3
      <4>2. contains(r, k) <=> contains(c, k)
            BY <2>12, <4>1, Found
      <4>3. CASE contains(c, k)
        <5>1. PICK v \in Ways : Has(c, k, v)
              BY <4>3, Found
        <5>2. Copy(c, k) = c.lines[SetOf(k)][v] /\ Copy(r, k) = r.lines[SetOf(k)][v]
              BY <2>12, <4>1, <5>1, Hit
        <5>3. ~(SetOf(k) = s /\ v = w)
          <6>1. SUFFICES ASSUME SetOf(k) = s, v = w PROVE FALSE
                OBVIOUS
          <6>2. old.valid /\ TagOf(k) = old.tag
                BY <2>14, <5>1, <6>1 DEF Has
          <6> QED BY <2>7, <3>3, <6>1, <6>2, SameLine
        <5>4. r.lines[SetOf(k)][v] = c.lines[SetOf(k)][v]
              BY <2>9, <5>3, LineOfSet
        <5> QED BY <4>2, <4>3, <5>2, <5>4 DEF Content
      <4>4. CASE ~contains(c, k)
            BY <2>8, <2>9, <3>3, <4>2, <4>4 DEF Content
      <4> QED BY <4>3, <4>4
    <3> QED BY <3>1, <3>2, <3>3
  <2> QED BY <2>2, <2>10, <2>12, <2>13, Hit DEF r
<1> QED BY <1>1, <1>2

\* An access: bytes that lie in the lines of its two ends, which may be one.
Access(b, lo, hi) ==
    /\ b \in [DOMAIN b -> Byte] /\ DOMAIN b \subseteq Addr
    /\ lo \in Line /\ hi \in Line /\ lo <= hi
    /\ {LineOf(x) : x \in DOMAIN b} = {lo, hi}

\* Writing bytes changes a line where they lie in it.
LEMMA MergedIs ==
    ASSUME NEW b, b \in [DOMAIN b -> Byte]
    PROVE  /\ \A k \in Line : \A d \in [Offset -> Byte] : Merged(d, k, b) \in [Offset -> Byte]
           /\ \A k \in Line : \A d \in [Offset -> Byte] :
                 (\A x \in DOMAIN b : LineOf(x) # k) => Merged(d, k, b) = d
           /\ \A mem \in [Addr -> Byte] :
                 /\ Overwritten(mem, b) \in [Addr -> Byte]
                 /\ \A k \in Line : Backing(Overwritten(mem, b), k) = Merged(Backing(mem, k), k, b)
<1>1. ASSUME NEW k \in Line, NEW d \in [Offset -> Byte] PROVE Merged(d, k, b) \in [Offset -> Byte]
      BY DEF Merged
<1>2. ASSUME NEW k \in Line, NEW d \in [Offset -> Byte], \A x \in DOMAIN b : LineOf(x) # k
      PROVE  Merged(d, k, b) = d
  <2>1. \A o \in Offset : k * LineSize + o \notin DOMAIN b
        BY <1>2, LineHasByte
  <2>2. Merged(d, k, b) = [o \in Offset |-> d[o]]
        BY <2>1 DEF Merged
  <2> QED BY <2>2
<1>3. ASSUME NEW mem \in [Addr -> Byte] PROVE Overwritten(mem, b) \in [Addr -> Byte]
      BY DEF Overwritten
<1>4. ASSUME NEW mem \in [Addr -> Byte], NEW k \in Line
      PROVE  Backing(Overwritten(mem, b), k) = Merged(Backing(mem, k), k, b)
  <2>1. \A o \in Offset : Overwritten(mem, b)[k * LineSize + o]
                              = IF k * LineSize + o \in DOMAIN b THEN b[k * LineSize + o]
                                ELSE mem[k * LineSize + o]
        BY LineHasByte DEF Overwritten
  <2> QED BY <2>1 DEF Backing, Merged
<1> QED BY <1>1, <1>2, <1>3, <1>4

\* A write past the CPU's port: SRAM and every copy of what it touches.
LEMMA WriteBacking ==
    ASSUME NEW c, Sound(c, {}), NEW b, NEW lo, NEW hi, Access(b, lo, hi)
    PROVE  LET r == write_backing(c, b)
           IN /\ Sound(r, {}) /\ r.sram = Overwritten(c.sram, b)
              /\ \A k \in Line : /\ contains(r, k) <=> contains(c, k)
                                 /\ Content(r, k) = Merged(Content(c, k), k, b)
<1> DEFINE after == [c EXCEPT !.sram = Overwritten(c.sram, b)]
           r == write_backing(c, b)
<1>1. /\ b \in [DOMAIN b -> Byte] /\ DOMAIN b \subseteq Addr
      /\ lo \in Line /\ hi \in Line /\ lo <= hi /\ {LineOf(x) : x \in DOMAIN b} = {lo, hi}
      BY DEF Access
<1>2. c \in CacheState /\ c.sram \in [Addr -> Byte]
      BY DEF Sound, CacheState
<1>3. /\ Overwritten(c.sram, b) \in [Addr -> Byte]
      /\ \A k \in Line : Backing(Overwritten(c.sram, b), k) = Merged(Backing(c.sram, k), k, b)
      BY <1>1, <1>2, MergedIs
<1>4. \A k \in Line : \A d \in [Offset -> Byte] : k \notin {lo, hi} => Merged(d, k, b) = d
  <2>1. \A k \in Line : k \notin {lo, hi} => \A x \in DOMAIN b : LineOf(x) # k
        BY <1>1
  <2> QED BY <1>1, <2>1, MergedIs
<1>5. /\ after \in CacheState /\ after.sram = Overwritten(c.sram, b) /\ after.lines = c.lines
      BY <1>2, <1>3 DEF CacheState
<1>6. r = IF lo = hi THEN write_cached(after, lo, b)
          ELSE write_cached(write_cached(after, lo, b), hi, b)
  <2>1. lo \in Nat /\ hi \in Nat
        BY <1>1 DEF Line
  <2>2. First({lo, hi}) = lo
        BY <1>1, <2>1 DEF First
  <2>3. (CHOOSE l \in {lo, hi} : \A x \in {lo, hi} : x <= l) = hi
        BY <1>1, <2>1
  <2> DEFINE T == {LineOf(x) : x \in DOMAIN b}
             last == CHOOSE l \in T : \A x \in T : x <= l
  <2>4. r = IF First(T) = last THEN write_cached(after, First(T), b)
            ELSE write_cached(write_cached(after, First(T), b), last, b)
        BY DEF write_backing
  <2> HIDE DEF after, r
  <2>5. First(T) = lo /\ last = hi
        BY <1>1, <2>2, <2>3
  <2> HIDE DEF T, last
  <2>6. CASE lo = hi
        BY <2>4, <2>5, <2>6
  <2>7. CASE lo # hi
        BY <2>4, <2>5, <2>7
  <2> QED BY <2>6, <2>7
<1> HIDE DEF after, r
<1>7. /\ \A k \in Line : contains(after, k) <=> contains(c, k)
      /\ \A k \in Line : Copy(after, k) = Copy(c, k)
      /\ \A k \in Line : \A w \in Ways : Has(after, k, w) <=> Has(c, k, w)
      BY <1>5 DEF contains, Copy, find_way, Holding, Has
<1>8. Sound(after, {lo, hi})
  <2>1. \A k \in Line \ {lo, hi} : Backing(after.sram, k) = Backing(c.sram, k)
    <3> TAKE k \in Line \ {lo, hi}
    <3>1. Backing(c.sram, k) \in [Offset -> Byte]
          BY <1>2, BackingType
    <3> QED BY <1>3, <1>4, <1>5, <3>1
  <2>2. \A k \in Line \ {lo, hi} : \A w \in Ways :
            Has(after, k, w) => \/ after.lines[SetOf(k)][w].dirty
                                \/ after.lines[SetOf(k)][w].data = Backing(after.sram, k)
        BY <1>5, <1>7, <2>1 DEF Sound
  <2>3. /\ \A s \in Sets : \A w \in Ways :
              after.lines[s][w].valid => base_line(after.lines[s][w].tag, s) \in Line
        /\ \A l \in Line : \A w, v \in Ways : Has(after, l, w) /\ Has(after, l, v) => w = v
        BY <1>5, <1>7 DEF Sound
  <2> QED BY <1>5, <2>2, <2>3 DEF Sound
<1>9. /\ Sound(r, {}) /\ r.sram = Overwritten(c.sram, b)
      /\ \A k \in Line :
            /\ contains(r, k) <=> contains(c, k)
            /\ contains(c, k) => Copy(r, k).data = IF k \in {lo, hi} THEN Merged(Copy(c, k).data, k, b)
                                                   ELSE Copy(c, k).data
  <2> DEFINE one == write_cached(after, lo, b)
  <2>1. /\ Sound(one, {lo, hi} \ {lo}) /\ one.sram = after.sram
        /\ \A k \in Line :
              /\ contains(one, k) <=> contains(after, k)
              /\ contains(after, k) => Copy(one, k).data = IF k = lo THEN Merged(Copy(after, lo).data, lo, b)
                                                           ELSE Copy(after, k).data
        BY <1>1, <1>8, WriteCached
  <2> HIDE DEF one
  <2>2. CASE lo = hi
    <3>1. r = one /\ {lo, hi} \ {lo} = {}
          BY <1>6, <2>2 DEF one
    <3>2. Sound(r, {}) /\ r.sram = Overwritten(c.sram, b)
          BY <1>5, <2>1, <3>1
    <3>3. ASSUME NEW k \in Line
          PROVE  /\ contains(r, k) <=> contains(c, k)
                 /\ contains(c, k) => Copy(r, k).data = IF k \in {lo, hi} THEN Merged(Copy(c, k).data, k, b)
                                                        ELSE Copy(c, k).data
      <4>1. /\ contains(one, k) <=> contains(after, k)
            /\ contains(after, k) => Copy(one, k).data = IF k = lo THEN Merged(Copy(after, lo).data, lo, b)
                                                         ELSE Copy(after, k).data
            BY <2>1
      <4>2. (contains(after, k) <=> contains(c, k)) /\ Copy(after, k) = Copy(c, k)
            BY <1>7
      <4> QED BY <2>2, <3>1, <4>1, <4>2
    <3> QED BY <3>2, <3>3
  <2>3. CASE lo # hi
    <3>1. r = write_cached(one, hi, b)
          BY <1>6, <2>3 DEF one
    <3>2. ({lo, hi} \ {lo}) \ {hi} = {}
          OBVIOUS
    <3> DEFINE Y == {lo, hi} \ {lo}
    <3>4. Sound(one, Y) /\ hi \in Line /\ b \in [DOMAIN b -> Byte]
          BY <1>1, <2>1
    <3> HIDE DEF Y
    <3>3. /\ Sound(r, Y \ {hi}) /\ r.sram = one.sram
          /\ \A k \in Line :
                /\ contains(r, k) <=> contains(one, k)
                /\ contains(one, k) => Copy(r, k).data = IF k = hi THEN Merged(Copy(one, hi).data, hi, b)
                                                         ELSE Copy(one, k).data
      <4> DEFINE R == write_cached(one, hi, b)
      <4>1. /\ Sound(R, Y \ {hi}) /\ R.sram = one.sram
            /\ \A k \in Line :
                  /\ contains(R, k) <=> contains(one, k)
                  /\ contains(one, k) => Copy(R, k).data = IF k = hi THEN Merged(Copy(one, hi).data, hi, b)
                                                           ELSE Copy(one, k).data
            BY <3>4, WriteCached
      <4> HIDE DEF R
      <4>2. r = R
            BY <3>1 DEF R
      <4> QED BY <4>1, <4>2
    <3>5. Sound(r, {}) /\ r.sram = Overwritten(c.sram, b)
          BY <1>5, <2>1, <3>2, <3>3 DEF Y
    <3>6. ASSUME NEW k \in Line
          PROVE  /\ contains(r, k) <=> contains(c, k)
                 /\ contains(c, k) => Copy(r, k).data = IF k \in {lo, hi} THEN Merged(Copy(c, k).data, k, b)
                                                        ELSE Copy(c, k).data
      <4>1. /\ contains(one, k) <=> contains(after, k)
            /\ contains(after, k) => Copy(one, k).data = IF k = lo THEN Merged(Copy(after, lo).data, lo, b)
                                                         ELSE Copy(after, k).data
            BY <2>1
      <4>2. (contains(after, k) <=> contains(c, k)) /\ Copy(after, k) = Copy(c, k)
            BY <1>7
      <4>3. /\ contains(r, k) <=> contains(one, k)
            /\ contains(one, k) => Copy(r, k).data = IF k = hi THEN Merged(Copy(one, hi).data, hi, b)
                                                     ELSE Copy(one, k).data
            BY <3>3
      <4>4. (contains(r, k) <=> contains(c, k)) /\ (k \in {lo, hi} <=> k = lo \/ k = hi)
            BY <4>1, <4>2, <4>3
      <4>5. CASE k = hi
            BY <2>3, <4>1, <4>2, <4>3, <4>4, <4>5
      <4>6. CASE k # hi
            BY <4>1, <4>2, <4>3, <4>4, <4>6
      <4> QED BY <4>5, <4>6
    <3> QED BY <3>5, <3>6
  <2> QED BY <2>2, <2>3
<1>10. ASSUME NEW k \in Line PROVE Content(r, k) = Merged(Content(c, k), k, b)
  <2>1. CASE contains(c, k)
    <3>1. Copy(c, k).data \in [Offset -> Byte]
          BY <1>2, <2>1, LineOfSet, Found, WayIs DEF Copy
    <3>2. k \notin {lo, hi} => Merged(Copy(c, k).data, k, b) = Copy(c, k).data
          BY <1>4, <3>1
    <3> QED BY <1>9, <2>1, <3>2 DEF Content
  <2>2. CASE ~contains(c, k)
        BY <1>3, <1>9, <2>2 DEF Content
  <2> QED BY <2>1, <2>2
<1> QED BY <1>9, <1>10 DEF r

--------------------------------------------------------------------------------
\* What a cached load returns.

\* It is a byte of the cached copy if the cache is on and holds its line.
LEMMA ViewOfByte ==
    ASSUME NEW c
    PROVE  ViewOf(c) = [a \in Addr |-> IF enabled /\ contains(c, LineOf(a))
                                       THEN peek_byte(c, a) ELSE c.sram[a]]
<1> DEFINE held == {l \in Line : enabled /\ contains(c, l)}
<1>1. ViewOf(c) = [a \in Addr |-> IF LineOf(a) \in held THEN peek_byte(c, a) ELSE c.sram[a]]
      BY DEF ViewOf
<1>2. \A a \in Addr : LineOf(a) \in held <=> enabled /\ contains(c, LineOf(a))
      BY ByteOfLine
<1> HIDE DEF held
<1> QED BY <1>1, <1>2

\* Each byte is its place in what its line holds, or in SRAM if the cache is off.
LEMMA ViewIs ==
    ASSUME NEW c, Sound(c, {})
    PROVE  /\ enabled => ViewOf(c) = [a \in Addr |-> Content(c, LineOf(a))[a % LineSize]]
           /\ ~enabled => ViewOf(c) = c.sram
           /\ enabled => \A a \in Addr : ViewOf(c)[a] = Content(c, LineOf(a))[a % LineSize]
<1>1. ASSUME NEW a \in Addr
      PROVE  (IF contains(c, LineOf(a)) THEN peek_byte(c, a) ELSE c.sram[a])
                = Content(c, LineOf(a))[a % LineSize]
  <2>1. CASE contains(c, LineOf(a))
        BY <2>1 DEF Content, peek_byte, Copy
  <2>2. CASE ~contains(c, LineOf(a))
    <3> DEFINE l == LineOf(a)
               o == a % LineSize
    <3>1. o \in Offset /\ a = l * LineSize + o
          BY ByteOfLine
    <3> HIDE DEF l, o
    <3>2. Backing(c.sram, l)[o] = c.sram[a]
          BY <3>1 DEF Backing
    <3> QED BY <2>2, <3>2 DEF Content, l, o
  <2> QED BY <2>1, <2>2
<1>2. c.sram = [a \in Addr |-> c.sram[a]]
  <2>1. c.sram \in [Addr -> Byte]
        BY DEF Sound, CacheState
  <2> QED BY <2>1
<1>3. ViewOf(c) = [a \in Addr |-> IF enabled /\ contains(c, LineOf(a))
                                   THEN peek_byte(c, a) ELSE c.sram[a]]
      BY ViewOfByte
<1>4. enabled => ViewOf(c) = [a \in Addr |-> Content(c, LineOf(a))[a % LineSize]]
      BY <1>1, <1>3
<1>5. ~enabled => ViewOf(c) = c.sram
      BY <1>2, <1>3
<1> QED BY <1>4, <1>5

\* Caches whose lines hold the same show the same.
LEMMA SameView ==
    ASSUME NEW c, Sound(c, {}), NEW r, Sound(r, {}), enabled,
           \A k \in Line : Content(r, k) = Content(c, k)
    PROVE  ViewOf(r) = ViewOf(c)
<1>1. \A a \in Addr : Content(r, LineOf(a))[a % LineSize] = Content(c, LineOf(a))[a % LineSize]
      BY ByteOfLine
<1> QED BY <1>1, ViewIs

\* And where they differ by the bytes of an access, so does the view.
LEMMA MergedView ==
    ASSUME NEW c, Sound(c, {}), NEW r, Sound(r, {}), enabled, NEW b,
           \A k \in Line : Content(r, k) = Merged(Content(c, k), k, b)
    PROVE  ViewOf(r) = Overwritten(ViewOf(c), b)
<1>1. ASSUME NEW a \in Addr
      PROVE  Content(r, LineOf(a))[a % LineSize] = IF a \in DOMAIN b THEN b[a] ELSE ViewOf(c)[a]
  <2> DEFINE l == LineOf(a)
             o == a % LineSize
  <2>1. l \in Line /\ o \in Offset /\ a = l * LineSize + o
        BY ByteOfLine
  <2>2. ViewOf(c)[a] = Content(c, l)[o]
        BY ViewIs
  <2> HIDE DEF l, o
  <2>3. Merged(Content(c, l), l, b)[o] = IF a \in DOMAIN b THEN b[a] ELSE Content(c, l)[o]
        BY <2>1 DEF Merged
  <2> QED BY <2>1, <2>2, <2>3 DEF l, o
<1> QED BY <1>1, ViewIs DEF Overwritten

\* Of SRAM a fill changes a line that is evicted, and that is not the one it brings.
LEMMA FillEvicts ==
    ASSUME NEW c, Sound(c, {}), NEW l \in Line
    PROVE  LET mem == ensure_cache_line(c, l).sram
           IN \/ mem = c.sram
              \/ \E v \in Line \ {l} :
                    contains(c, v) /\ mem = writeback_line(c.sram, v, Copy(c, v).data)
<1>1. CASE contains(c, l)
      BY <1>1 DEF ensure_cache_line
<1>2. CASE ~contains(c, l)
  <2> DEFINE s == SetOf(l)
             w == rr_victim(c, s)
             old == c.lines[s][w]
             back == base_line(old.tag, s)
             mem == ensure_cache_line(c, l).sram
  <2>1. c \in CacheState /\ s \in Sets /\ w \in Ways
        BY LineOfSet, VictimIsWay DEF Sound
  <2>2. mem = IF old.valid /\ old.dirty THEN writeback_line(c.sram, back, old.data) ELSE c.sram
        BY <1>2 DEF ensure_cache_line
  <2>3. old.tag \in Nat
        BY <2>1, WayIs
  <2>4. old = c.lines[s][w]
        OBVIOUS
  <2>5. base_line(old.tag, s) = back
        OBVIOUS
  <2> HIDE DEF s, w, old, back, mem
  <2>6. ASSUME old.valid PROVE back \in Line \ {l} /\ contains(c, back) /\ Copy(c, back) = old
    <3>1. back \in Line
          BY <2>1, <2>4, <2>5, <2>6 DEF Sound
    <3>2. SetOf(back) = s /\ TagOf(back) = old.tag
          BY <2>1, <2>3, <2>5, SetHasLine
    <3>3. Has(c, back, w)
          BY <2>4, <2>6, <3>2 DEF Has
    <3>4. contains(c, back) /\ Copy(c, back) = c.lines[SetOf(back)][w]
          BY <2>1, <3>1, <3>3, Hit
    <3> QED BY <1>2, <2>4, <3>1, <3>2, <3>4
  <2> QED BY <2>2, <2>6 DEF mem
<1> QED BY <1>1, <1>2

\* SRAM with a line as loads see it: with the cached copy written back, which changes
\* nothing where that is clean.
LEMMA LineShown ==
    ASSUME NEW c, Sound(c, {}), enabled, NEW v \in Line
    PROVE  LET put == [x \in Addr |-> IF LineOf(x) = v THEN ViewOf(c)[x] ELSE c.sram[x]]
           IN /\ contains(c, v) => put = writeback_line(c.sram, v, Copy(c, v).data)
              /\ ~(contains(c, v) /\ Copy(c, v).dirty) => put = c.sram
<1> DEFINE put == [x \in Addr |-> IF LineOf(x) = v THEN ViewOf(c)[x] ELSE c.sram[x]]
<1>1. ASSUME NEW x \in Addr, LineOf(x) = v PROVE ViewOf(c)[x] = Content(c, v)[x % LineSize]
      BY <1>1, ViewIs
<1>2. ASSUME contains(c, v) PROVE put = writeback_line(c.sram, v, Copy(c, v).data)
  <2>1. Content(c, v) = Copy(c, v).data
        BY <1>2 DEF Content
  <2> QED BY <1>1, <2>1 DEF writeback_line
<1>3. ASSUME ~(contains(c, v) /\ Copy(c, v).dirty) PROVE put = c.sram
  <2>1. Content(c, v) = Backing(c.sram, v)
    <3>1. contains(c, v) => Copy(c, v).data = Backing(c.sram, v)
          BY <1>3, Found DEF Sound, Copy
    <3> QED BY <3>1 DEF Content
  <2>2. ASSUME NEW x \in Addr, LineOf(x) = v PROVE ViewOf(c)[x] = c.sram[x]
    <3>1. PICK o : o = x % LineSize
          OBVIOUS
    <3>2. o \in Offset /\ x = v * LineSize + o
          BY <2>2, <3>1, ByteOfLine
    <3>3. Backing(c.sram, v)[o] = c.sram[x]
          BY <3>2 DEF Backing
    <3> QED BY <1>1, <2>1, <2>2, <3>1, <3>3
  <2>3. c.sram \in [Addr -> Byte]
        BY DEF Sound, CacheState
  <2> QED BY <2>2, <2>3
<1> HIDE DEF put
<1> QED BY <1>2, <1>3 DEF put

--------------------------------------------------------------------------------
\* Invalidation, write-back and DMA.

\* SRAM may change under the lines of X, of which nothing is asked then.
LEMMA NewSram ==
    ASSUME NEW c, Sound(c, {}), NEW mem \in [Addr -> Byte], NEW X,
           \A k \in Line \ X : Backing(mem, k) = Backing(c.sram, k)
    PROVE  LET r == [c EXCEPT !.sram = mem]
           IN /\ Sound(r, X) /\ r.sram = mem /\ r.lines = c.lines
              /\ \A k \in Line : contains(r, k) <=> contains(c, k)
              /\ \A k \in Line : Copy(r, k) = Copy(c, k)
              /\ \A k \in Line : \A w \in Ways : Has(r, k, w) <=> Has(c, k, w)
<1> DEFINE r == [c EXCEPT !.sram = mem]
<1>1. r \in CacheState /\ r.sram = mem /\ r.lines = c.lines
      BY DEF Sound, CacheState
<1> HIDE DEF r
<1>2. /\ \A k \in Line : contains(r, k) <=> contains(c, k)
      /\ \A k \in Line : Copy(r, k) = Copy(c, k)
      /\ \A k \in Line : \A w \in Ways : Has(r, k, w) <=> Has(c, k, w)
      BY <1>1 DEF contains, Copy, find_way, Holding, Has
<1>3. \A k \in Line \ X : \A w \in Ways :
          Has(r, k, w) => \/ r.lines[SetOf(k)][w].dirty
                          \/ r.lines[SetOf(k)][w].data = Backing(r.sram, k)
      BY <1>1, <1>2 DEF Sound
<1>4. /\ \A s \in Sets : \A w \in Ways :
            r.lines[s][w].valid => base_line(r.lines[s][w].tag, s) \in Line
      /\ \A l \in Line : \A w, v \in Ways : Has(r, l, w) /\ Has(r, l, v) => w = v
      BY <1>1, <1>2 DEF Sound
<1>5. Sound(r, X)
      BY <1>1, <1>3, <1>4 DEF Sound
<1> QED BY <1>1, <1>2, <1>5 DEF r

\* An empty line is a state of a way, and not a valid one.
LEMMA EmptyIs == /\ EmptyLine \in LineState /\ ~EmptyLine.valid
<1>1. [o \in Offset |-> Blank] \in [Offset -> Byte]
      BY MemoryAssumption
<1> QED BY <1>1 DEF EmptyLine, LineState

\* The cache in which no line is valid.
Emptied(mem) == [sram  |-> mem, lines |-> [s \in Sets |-> [w \in Ways |-> EmptyLine]],
                 next  |-> [s \in Sets |-> 0]]

\* What a line holds there is what SRAM holds.
LEMMA EmptyCache ==
    ASSUME NEW mem \in [Addr -> Byte], NEW c, c = Emptied(mem)
    PROVE  Sound(c, {}) /\ \A k \in Line : Content(c, k) = Backing(mem, k)
<1>1. 0 \in Ways
      BY MemoryAssumption DEF Ways
<1>2. c \in CacheState /\ c.sram = mem
      BY <1>1, EmptyIs DEF CacheState, Emptied
<1>3. \A s \in Sets : \A w \in Ways : ~c.lines[s][w].valid
      BY EmptyIs DEF Emptied
<1>4. \A k \in Line : \A w \in Ways : ~Has(c, k, w)
      BY <1>3, LineOfSet DEF Has
<1>5. Sound(c, {})
      BY <1>2, <1>3, <1>4 DEF Sound
<1>6. \A k \in Line : ~contains(c, k)
      BY <1>4, <1>5, Found
<1> QED BY <1>2, <1>5, <1>6 DEF Content

\* The dirty ways that belong to a line.
Home(c, l) == {x \in Dirty(c) : base_line(c.lines[x[1]][x[2]].tag, x[1]) = l}

\* There is one if the line is held and dirty, otherwise none.
LEMMA HomeIs ==
    ASSUME NEW c, NEW X, Sound(c, X), NEW l \in Line
    PROVE  /\ contains(c, l) /\ Copy(c, l).dirty => Home(c, l) = {<<SetOf(l), find_way(c, l)>>}
           /\ ~(contains(c, l) /\ Copy(c, l).dirty) => Home(c, l) = {}
<1>1. ASSUME NEW x \in Home(c, l)
      PROVE  /\ x = <<SetOf(l), find_way(c, l)>> /\ contains(c, l) /\ Copy(c, l).dirty
  <2>1. /\ x \in Sets \X Ways /\ c.lines[x[1]][x[2]].valid /\ c.lines[x[1]][x[2]].dirty
        /\ base_line(c.lines[x[1]][x[2]].tag, x[1]) = l
        BY DEF Home, Dirty, Sets
  <2>2. x[1] \in Sets /\ x[2] \in Ways /\ x = <<x[1], x[2]>>
        BY <2>1
  <2>3. c.lines[x[1]][x[2]].tag \in Nat
        BY <2>2, WayIs DEF Sound
  <2>4. SetOf(l) = x[1] /\ TagOf(l) = c.lines[x[1]][x[2]].tag
        BY <2>1, <2>2, <2>3, SetHasLine
  <2>5. Has(c, l, x[2])
        BY <2>1, <2>4 DEF Has
  <2>6. contains(c, l) /\ find_way(c, l) = x[2] /\ Copy(c, l) = c.lines[SetOf(l)][x[2]]
        BY <2>2, <2>5, Hit
  <2> QED BY <2>1, <2>2, <2>4, <2>6
<1>2. ASSUME contains(c, l), Copy(c, l).dirty
      PROVE  <<SetOf(l), find_way(c, l)>> \in Home(c, l)
  <2> DEFINE s == SetOf(l)
             w == find_way(c, l)
  <2>1. s \in Sets /\ w \in Ways /\ Has(c, l, w) /\ base_line(TagOf(l), s) = l
        BY <1>2, Found, LineOfSet
  <2>2. /\ c.lines[s][w].valid /\ c.lines[s][w].tag = TagOf(l) /\ c.lines[s][w].dirty
        BY <1>2, <2>1 DEF Has, Copy
  <2> HIDE DEF s, w
  <2>3. <<s, w>> \in Sets \X Ways /\ <<s, w>>[1] = s /\ <<s, w>>[2] = w
        BY <2>1
  <2>4. <<s, w>> \in Dirty(c)
        BY <2>2, <2>3 DEF Dirty, Sets
  <2>5. <<s, w>> \in Home(c, l)
        BY <2>1, <2>2, <2>3, <2>4 DEF Home
  <2> QED BY <2>5 DEF s, w
<1> QED BY <1>1, <1>2

\* What a line holds is bytes.
LEMMA ContentType ==
    ASSUME NEW c, NEW X, Sound(c, X), NEW k \in Line
    PROVE  Content(c, k) \in [Offset -> Byte]
<1>1. CASE contains(c, k)
  <2>1. Copy(c, k).data \in [Offset -> Byte]
        BY <1>1, LineOfSet, Found, WayIs DEF Copy, Sound
  <2> QED BY <1>1, <2>1 DEF Content
<1>2. CASE ~contains(c, k)
  <2>1. c.sram \in [Addr -> Byte]
        BY DEF Sound, CacheState
  <2> QED BY <1>2, <2>1, BackingType DEF Content
<1> QED BY <1>1, <1>2

\* Writing every dirty line back puts into SRAM what the lines hold.
LEMMA FlushedIs ==
    ASSUME NEW c, NEW X, Sound(c, X)
    PROVE  /\ Flushed(c) \in [Addr -> Byte]
           /\ \A k \in Line \ X : Backing(Flushed(c), k) = Content(c, k)
<1>1. c.sram \in [Addr -> Byte]
      BY DEF Sound, CacheState
<1>2. \A k \in Line : Content(c, k) \in [Offset -> Byte]
      BY ContentType
<1>3. ASSUME NEW a \in Addr
      PROVE  /\ Flushed(c)[a] \in Byte
             /\ LineOf(a) \notin X => Flushed(c)[a] = Content(c, LineOf(a))[a % LineSize]
  <2> DEFINE D == Home(c, LineOf(a))
             x == CHOOSE y \in D : TRUE
             l == LineOf(a)
             o == a % LineSize
             f == Flushed(c)[a]
  <2>1. f = IF D = {} THEN c.sram[a] ELSE c.lines[x[1]][x[2]].data[o]
        BY DEF Flushed, Home
  <2>2. l \in Line /\ o \in Offset /\ a = l * LineSize + o
        BY ByteOfLine
  <2>3. D = Home(c, l)
        OBVIOUS
  <2>4. \A y : D = {y} => x = y
        OBVIOUS
  <2> HIDE DEF D, x, l, o, f
  <2>5. CASE contains(c, l) /\ Copy(c, l).dirty
    <3>1. D = {<<SetOf(l), find_way(c, l)>>}
          BY <2>2, <2>3, <2>5, HomeIs
    <3>2. D # {} /\ x = <<SetOf(l), find_way(c, l)>>
          BY <2>4, <3>1
    <3>3. f = c.lines[SetOf(l)][find_way(c, l)].data[o]
          BY <2>1, <3>2
    <3>4. f = Content(c, l)[o]
          BY <2>5, <3>3 DEF Content, Copy
    <3>5. f \in Byte
          BY <1>2, <2>2, <3>4
    <3> QED BY <3>4, <3>5 DEF l, o, f
  <2>6. CASE ~(contains(c, l) /\ Copy(c, l).dirty)
    <3>1. D = {}
          BY <2>2, <2>3, <2>6, HomeIs
    <3>2. ASSUME l \notin X PROVE Content(c, l) = Backing(c.sram, l)
      <4>1. contains(c, l) => Copy(c, l).data = Backing(c.sram, l)
            BY <2>2, <2>6, <3>2, Found DEF Sound, Copy
      <4> QED BY <4>1 DEF Content
    <3>3. Backing(c.sram, l)[o] = c.sram[a]
          BY <2>2 DEF Backing
    <3>4. f = c.sram[a]
          BY <2>1, <3>1
    <3>5. f \in Byte
          BY <1>1, <3>4
    <3> QED BY <3>2, <3>3, <3>4, <3>5 DEF l, o, f
  <2> QED BY <2>5, <2>6
<1>4. Flushed(c) = [a \in Addr |-> Flushed(c)[a]]
  <2> DEFINE F(a) ==
               LET D == {x \in Dirty(c) : base_line(c.lines[x[1]][x[2]].tag, x[1]) = LineOf(a)}
               IN IF D = {} THEN c.sram[a]
                  ELSE LET x == CHOOSE x \in D : TRUE IN c.lines[x[1]][x[2]].data[a % LineSize]
             G == Flushed(c)
  <2>1. G = [a \in Addr |-> F(a)]
        BY DEF Flushed
  <2> HIDE DEF F, G
  <2>2. G = [a \in Addr |-> G[a]]
        BY <2>1
  <2> QED BY <2>2 DEF G
<1>5. Flushed(c) \in [Addr -> Byte]
      BY <1>3, <1>4
<1>6. ASSUME NEW k \in Line \ X PROVE Backing(Flushed(c), k) = Content(c, k)
  <2>1. \A o \in Offset : Flushed(c)[k * LineSize + o] = Content(c, k)[o]
        BY <1>3, LineHasByte
  <2>2. Content(c, k) = [o \in Offset |-> Content(c, k)[o]]
        BY <1>2
  <2> QED BY <2>1, <2>2 DEF Backing
<1> QED BY <1>5, <1>6

\* DC_IVDC: a cache without a line, and with IM what the lines held in SRAM.
LEMMA InvalidateAll ==
    ASSUME NEW c, NEW X, Sound(c, X), im \in BOOLEAN
    PROVE  LET r == invalidate_all(c)
           IN /\ Sound(r, {}) /\ r.sram \in [Addr -> Byte] /\ r = Emptied(r.sram)
              /\ im => \A k \in Line \ X : Content(r, k) = Content(c, k)
<1> DEFINE mem == IF im THEN Flushed(c) ELSE c.sram
           r == invalidate_all(c)
<1>1. /\ mem \in [Addr -> Byte]
      /\ im => \A k \in Line \ X : Backing(mem, k) = Content(c, k)
      BY FlushedIs DEF Sound, CacheState
<1>2. DOMAIN c.lines = Sets
      BY DEF Sound, CacheState
<1>3. r = Emptied(mem)
      BY <1>2 DEF invalidate_all, Emptied
<1> HIDE DEF mem, r
<1>4. Sound(r, {}) /\ \A k \in Line : Content(r, k) = Backing(mem, k)
      BY <1>1, <1>3, EmptyCache
<1>5. r.sram = mem
      BY <1>3 DEF Emptied
<1> QED BY <1>1, <1>3, <1>4, <1>5 DEF r

\* DC_IVDL: with IM the line's bytes are in SRAM then, without it they are what SRAM had.
LEMMA InvalidateLine ==
    ASSUME NEW c, Sound(c, {}), NEW l \in Line, im \in BOOLEAN
    PROVE  LET r == invalidate_line(c, l)
           IN /\ Sound(r, {})
              /\ im => \A k \in Line : Content(r, k) = Content(c, k)
<1> DEFINE r == invalidate_line(c, l)
<1>1. CASE ~contains(c, l)
      BY <1>1 DEF invalidate_line
<1>2. CASE contains(c, l)
  <2> DEFINE s == SetOf(l)
             w == find_way(c, l)
             e == c.lines[s][w]
             mem == IF e.dirty /\ im THEN writeback_line(c.sram, l, e.data) ELSE c.sram
             mid == [c EXCEPT !.sram = mem]
  <2>1. /\ s \in Sets /\ w \in Ways /\ Has(c, l, w) /\ Copy(c, l) = e /\ c \in CacheState
        /\ c.sram \in [Addr -> Byte]
        BY <1>2, LineOfSet, Found DEF Sound, Copy, CacheState
  <2>2. e.data \in [Offset -> Byte] /\ e.tag = TagOf(l) /\ e.valid
        BY <2>1, WayIs DEF Has
  <2>3. /\ mem \in [Addr -> Byte]
        /\ \A k \in Line \ {l} : Backing(mem, k) = Backing(c.sram, k)
        /\ im => Backing(mem, l) = e.data
    <3>1. CASE e.dirty /\ im
      <4>1. mem = writeback_line(c.sram, l, e.data)
            BY <3>1
      <4> HIDE DEF mem, e
      <4> QED BY <2>1, <2>2, <4>1, WritebackIs
    <3>2. CASE ~(e.dirty /\ im)
      <4>1. mem = c.sram
            BY <3>2
      <4>2. im => e.data = Backing(c.sram, l)
            BY <2>1, <3>2 DEF Sound
      <4> QED BY <2>1, <4>1, <4>2
    <3> QED BY <3>1, <3>2
  <2> HIDE DEF mem
  <2>4. /\ Sound(mid, {l}) /\ mid.sram = mem /\ mid.lines = c.lines
        /\ \A k \in Line : \A v \in Ways : Has(mid, k, v) <=> Has(c, k, v)
        BY <2>3, NewSram
  <2>5. r = Placed(mid, s, w, EmptyLine)
    <3>1. r = [c EXCEPT !.sram = mem, !.lines[s][w] = EmptyLine]
          BY <1>2 DEF invalidate_line, mem
    <3> QED BY <2>1, <3>1 DEF Placed, CacheState
  <2> HIDE DEF mid, s, w, e, r
  <2>6. /\ r \in CacheState /\ r.sram = mem /\ r.lines[s][w] = EmptyLine
        /\ \A t \in Sets : \A v \in Ways : t # s \/ v # w => r.lines[t][v] = c.lines[t][v]
        BY <2>1, <2>4, <2>5, PlacedIs, EmptyIs DEF Sound
  <2>7. ASSUME NEW k \in Line, NEW v \in Ways
        PROVE  /\ Has(r, k, v) <=> Has(c, k, v) /\ k # l
               /\ Has(r, k, v) => r.lines[SetOf(k)][v] = c.lines[SetOf(k)][v]
    <3>1. SetOf(k) \in Sets
          BY LineOfSet
    <3>2. CASE SetOf(k) = s /\ v = w
      <4>1. ~Has(r, k, v)
            BY <2>6, <3>2, EmptyIs DEF Has
      <4>2. Has(c, k, v) => k = l
            BY <2>2, <3>2, SameLine DEF Has, s, e
      <4> QED BY <4>1, <4>2
    <3>3. CASE ~(SetOf(k) = s /\ v = w)
      <4>1. r.lines[SetOf(k)][v] = c.lines[SetOf(k)][v]
            BY <2>6, <3>1, <3>3
      <4>2. k = l => ~Has(c, k, v)
        <5>1. k = l /\ Has(c, k, v) => v = w
              BY <2>1 DEF Sound
        <5> QED BY <3>3, <5>1 DEF s
      <4> QED BY <4>1, <4>2 DEF Has
    <3> QED BY <3>2, <3>3
  <2>8. Sound(r, {})
    <3>1. \A t \in Sets : \A v \in Ways :
              r.lines[t][v].valid => base_line(r.lines[t][v].tag, t) \in Line
      <4> TAKE t \in Sets
      <4> TAKE v \in Ways
      <4>1. CASE t = s /\ v = w
            BY <2>6, <4>1, EmptyIs
      <4>2. CASE ~(t = s /\ v = w)
            BY <2>6, <4>2 DEF Sound
      <4> QED BY <4>1, <4>2
    <3>2. \A k \in Line : \A u, v \in Ways : Has(r, k, u) /\ Has(r, k, v) => u = v
          BY <2>7 DEF Sound
    <3>3. \A k \in Line \ {} : \A v \in Ways :
              Has(r, k, v) => \/ r.lines[SetOf(k)][v].dirty
                              \/ r.lines[SetOf(k)][v].data = Backing(r.sram, k)
          BY <2>3, <2>6, <2>7 DEF Sound
    <3> QED BY <2>6, <3>1, <3>2, <3>3 DEF Sound
  <2>9. ASSUME NEW k \in Line, im PROVE Content(r, k) = Content(c, k)
    <3>1. CASE k = l
      <4>1. ~contains(r, k)
            BY <2>7, <2>8, <3>1, Found
      <4> QED BY <1>2, <2>1, <2>3, <2>6, <2>9, <3>1, <4>1 DEF Content
    <3>2. CASE k # l
      <4>1. contains(r, k) <=> contains(c, k)
            BY <2>7, <2>8, <3>2, Found
      <4>2. CASE contains(c, k)
        <5>1. PICK v \in Ways : Has(c, k, v)
              BY <4>2, Found
        <5>2. Has(r, k, v) /\ r.lines[SetOf(k)][v] = c.lines[SetOf(k)][v]
              BY <2>7, <3>2, <5>1
        <5>3. Copy(c, k) = c.lines[SetOf(k)][v] /\ Copy(r, k) = r.lines[SetOf(k)][v]
              BY <2>8, <5>1, <5>2, Hit
        <5> QED BY <4>1, <4>2, <5>2, <5>3 DEF Content
      <4>3. CASE ~contains(c, k)
            BY <2>3, <2>6, <3>2, <4>1, <4>3 DEF Content
      <4> QED BY <4>2, <4>3
    <3> QED BY <3>1, <3>2
  <2> QED BY <2>8, <2>9 DEF r
<1> QED BY <1>1, <1>2

\* The cache that a DMA transfer of the bytes b leaves.
Transferred(c, b) ==
    [sram  |-> Overwritten(c.sram, b),
     lines |-> dma_sram_overwrite(c, {LineOf(x) : x \in DOMAIN b}),
     next  |-> c.next]

\* A DMA transfer changes what a line holds except where the line is dirty.
LEMMA DmaIs ==
    ASSUME NEW c, Sound(c, {}), NEW b, b \in [DOMAIN b -> Byte]
    PROVE  LET r == Transferred(c, b)
           IN /\ Sound(r, {}) /\ r.sram = Overwritten(c.sram, b)
              /\ \A k \in Line :
                    Content(r, k) = IF contains(c, k) /\ Copy(c, k).dirty THEN Content(c, k)
                                    ELSE Merged(Content(c, k), k, b)
<1> DEFINE r == Transferred(c, b)
           L == {LineOf(x) : x \in DOMAIN b}
<1>1. /\ c \in CacheState /\ c.sram \in [Addr -> Byte] /\ c.next \in [Sets -> Ways]
      /\ c.lines \in [Sets -> [Ways -> LineState]] /\ DOMAIN c.lines = Sets
      BY DEF Sound, CacheState
<1>2. /\ Overwritten(c.sram, b) \in [Addr -> Byte]
      /\ \A k \in Line : Backing(Overwritten(c.sram, b), k) = Merged(Backing(c.sram, k), k, b)
      BY <1>1, MergedIs
<1>3. \A k \in Line : \A d \in [Offset -> Byte] : k \notin L => Merged(d, k, b) = d
  <2>1. \A k \in Line : k \notin L => \A x \in DOMAIN b : LineOf(x) # k
        OBVIOUS
  <2> QED BY <2>1, MergedIs
<1> HIDE DEF L
<1> DEFINE Gone(s, w) == /\ c.lines[s][w].valid /\ ~c.lines[s][w].dirty
                         /\ base_line(c.lines[s][w].tag, s) \in L
           M == [s \in Sets |-> [w \in Ways |-> IF Gone(s, w) THEN EmptyLine ELSE c.lines[s][w]]]
<1>4. r = [sram |-> Overwritten(c.sram, b), lines |-> M, next |-> c.next]
      BY <1>1 DEF Transferred, dma_sram_overwrite, L
<1>5. /\ M \in [Sets -> [Ways -> LineState]]
      /\ \A s \in Sets : \A w \in Ways : M[s][w] = IF Gone(s, w) THEN EmptyLine ELSE c.lines[s][w]
      BY <1>1, EmptyIs
<1> HIDE DEF M
<1>6. /\ r \in CacheState /\ r.sram = Overwritten(c.sram, b)
      /\ \A s \in Sets : \A w \in Ways :
            r.lines[s][w] = IF Gone(s, w) THEN EmptyLine ELSE c.lines[s][w]
      BY <1>1, <1>2, <1>4, <1>5 DEF CacheState
<1> HIDE DEF r, Gone
<1>7. ASSUME NEW k \in Line, NEW w \in Ways
      PROVE  /\ Has(r, k, w) <=> Has(c, k, w) /\ (c.lines[SetOf(k)][w].dirty \/ k \notin L)
             /\ Has(r, k, w) => r.lines[SetOf(k)][w] = c.lines[SetOf(k)][w]
  <2>1. SetOf(k) \in Sets /\ base_line(TagOf(k), SetOf(k)) = k
        BY LineOfSet
  <2>2. CASE Gone(SetOf(k), w)
    <3>1. r.lines[SetOf(k)][w] = EmptyLine
          BY <1>6, <2>1, <2>2
    <3>2. ~Has(r, k, w)
          BY <3>1, EmptyIs DEF Has
    <3>3. Has(c, k, w) => ~c.lines[SetOf(k)][w].dirty /\ k \in L
          BY <2>1, <2>2 DEF Has, Gone
    <3> QED BY <3>2, <3>3
  <2>3. CASE ~Gone(SetOf(k), w)
    <3>1. r.lines[SetOf(k)][w] = c.lines[SetOf(k)][w]
          BY <1>6, <2>1, <2>3
    <3>2. Has(r, k, w) <=> Has(c, k, w)
          BY <3>1 DEF Has
    <3>3. Has(c, k, w) => c.lines[SetOf(k)][w].dirty \/ k \notin L
          BY <2>1, <2>3 DEF Has, Gone
    <3> QED BY <3>1, <3>2, <3>3
  <2> QED BY <2>2, <2>3
<1>8. ASSUME NEW k \in Line, k \notin L
      PROVE  Backing(r.sram, k) = Backing(c.sram, k)
      BY <1>1, <1>2, <1>3, <1>6, <1>8, BackingType
<1>9. Sound(r, {})
  <2>1. \A s \in Sets : \A w \in Ways :
            r.lines[s][w].valid => base_line(r.lines[s][w].tag, s) \in Line
        BY <1>6, EmptyIs DEF Sound
  <2>2. \A k \in Line : \A w, v \in Ways : Has(r, k, w) /\ Has(r, k, v) => w = v
        BY <1>7 DEF Sound
  <2>3. \A k \in Line \ {} : \A w \in Ways :
            Has(r, k, w) => \/ r.lines[SetOf(k)][w].dirty
                            \/ r.lines[SetOf(k)][w].data = Backing(r.sram, k)
        BY <1>7, <1>8 DEF Sound
  <2> QED BY <1>6, <2>1, <2>2, <2>3 DEF Sound
<1>10. ASSUME NEW k \in Line
       PROVE  Content(r, k) = IF contains(c, k) /\ Copy(c, k).dirty THEN Content(c, k)
                              ELSE Merged(Content(c, k), k, b)
  <2>1. CASE contains(c, k)
    <3>1. PICK w \in Ways : Has(c, k, w)
          BY <2>1, Found
    <3>2. Copy(c, k) = c.lines[SetOf(k)][w]
          BY <3>1, Hit
    <3>3. Copy(c, k).data \in [Offset -> Byte]
          BY <1>1, <3>2, LineOfSet, WayIs
    <3>4. CASE Copy(c, k).dirty \/ k \notin L
      <4>1. Has(r, k, w) /\ r.lines[SetOf(k)][w] = c.lines[SetOf(k)][w]
            BY <1>7, <3>1, <3>2, <3>4
      <4>2. contains(r, k) /\ Copy(r, k) = r.lines[SetOf(k)][w]
            BY <1>9, <4>1, Hit
      <4>3. k \notin L => Merged(Copy(c, k).data, k, b) = Copy(c, k).data
            BY <1>3, <3>3
      <4> QED BY <2>1, <3>2, <3>4, <4>1, <4>2, <4>3 DEF Content
    <3>5. CASE ~Copy(c, k).dirty /\ k \in L
      <4>1. \A v \in Ways : ~Has(r, k, v)
            BY <1>7, <3>1, <3>2, <3>5 DEF Sound
      <4>2. ~contains(r, k)
            BY <1>9, <4>1, Found
      <4>3. Copy(c, k).data = Backing(c.sram, k)
            BY <3>1, <3>2, <3>5 DEF Sound
      <4> QED BY <1>2, <1>6, <2>1, <3>5, <4>2, <4>3 DEF Content
    <3> QED BY <3>4, <3>5
  <2>2. CASE ~contains(c, k)
    <3>1. \A v \in Ways : ~Has(r, k, v)
          BY <1>7, <2>2, Found
    <3>2. ~contains(r, k)
          BY <1>9, <3>1, Found
    <3> QED BY <1>2, <1>6, <2>2, <3>2 DEF Content
  <2> QED BY <2>1, <2>2
<1> QED BY <1>6, <1>9, <1>10 DEF r

--------------------------------------------------------------------------------
\* The ports.

\* What is written to the bytes of one access is written to the lines of its ends.
LEMMA PokeIsAccess ==
    ASSUME NEW w \in Widths, NEW a \in Reach(w), NEW b \in Written(a, w)
    PROVE  Access(b, LineOf(a), LineOf(a + w - 1)) /\ b \in [DOMAIN b -> Byte]
<1> DEFINE z == a + w - 1
<1>1. b \in [Span(a, w) -> Byte] /\ DOMAIN b = Span(a, w)
      BY DEF Written
<1>2. /\ a \in Span(a, w) /\ z \in Span(a, w) /\ Span(a, w) \subseteq Addr
      /\ LineOf(a) \in Line /\ LineOf(z) \in Line /\ LineOf(a) <= LineOf(z)
      /\ \A x \in Span(a, w) : LineOf(x) = LineOf(a) \/ LineOf(x) = LineOf(z)
      BY AnySpan
<1> HIDE DEF z
<1>3. {LineOf(x) : x \in DOMAIN b} = {LineOf(a), LineOf(z)}
      BY <1>1, <1>2
<1> QED BY <1>1, <1>2, <1>3 DEF Access, z

\* Those of an access of the core are in one line.
LEMMA StoreIsAccess ==
    ASSUME NEW a \in Addr, NEW w \in Widths, NEW b \in Written(data_effective_addr(a, w), w)
    PROVE  LET l == LineOf(data_effective_addr(a, w))
           IN Access(b, l, l) /\ b \in [DOMAIN b -> Byte]
<1> DEFINE e == data_effective_addr(a, w)
<1>1. b \in [Span(e, w) -> Byte] /\ DOMAIN b = Span(e, w)
      BY DEF Written
<1>2. /\ e \in Span(e, w) /\ Span(e, w) \subseteq Addr /\ LineOf(e) \in Line
      /\ \A x \in Span(e, w) : LineOf(x) = LineOf(e)
      BY AlignedSpan
<1> HIDE DEF e
<1>3. {LineOf(x) : x \in DOMAIN b} = {LineOf(e), LineOf(e)}
      BY <1>1, <1>2
<1>4. LineOf(e) <= LineOf(e)
      BY <1>2 DEF Line
<1> QED BY <1>1, <1>2, <1>3, <1>4 DEF Access, e

\* A write past the port shows in every load.
LEMMA BackingShows ==
    ASSUME NEW c, Sound(c, {}), enabled \in BOOLEAN, NEW b, NEW lo, NEW hi, Access(b, lo, hi)
    PROVE  /\ Sound(write_backing(c, b), {})
           /\ ViewOf(write_backing(c, b)) = Overwritten(ViewOf(c), b)
<1> DEFINE r == write_backing(c, b)
<1>1. /\ Sound(r, {}) /\ r.sram = Overwritten(c.sram, b)
      /\ \A k \in Line : Content(r, k) = Merged(Content(c, k), k, b)
      BY WriteBacking
<1> HIDE DEF r
<1>2. enabled => ViewOf(r) = Overwritten(ViewOf(c), b)
      BY <1>1, MergedView
<1>3. ~enabled => ViewOf(r) = Overwritten(ViewOf(c), b)
      BY <1>1, ViewIs
<1> QED BY <1>1, <1>2, <1>3 DEF r

\* A load returns what it did before whatever it fills and evicts.
LEMMA ReadShows ==
    ASSUME Sound(Cache, {}), enabled \in BOOLEAN,
           NEW a \in Addr, NEW w \in Widths, NEW bypass \in BOOLEAN
    PROVE  /\ Sound(read_data(a, w, bypass), {})
           /\ ViewOf(read_data(a, w, bypass)) = ViewOf(Cache)
<1> DEFINE c == Cache
           l == LineOf(data_effective_addr(a, w))
           r == ensure_cache_line(c, l)
<1>1. CASE bypass \/ ~enabled
      BY <1>1 DEF read_data
<1>2. CASE ~(bypass \/ ~enabled)
  <2>1. l \in Line
        BY AlignedSpan
  <2>2. read_data(a, w, bypass) = r
        BY <1>2 DEF read_data
  <2> HIDE DEF c, l
  <2>3. Sound(c, {})
        BY DEF c
  <2>4. Sound(r, {}) /\ \A k \in Line : Content(r, k) = Content(c, k)
        BY <2>1, <2>3, Filled
  <2> HIDE DEF r
  <2>5. ViewOf(r) = ViewOf(c)
        BY <1>2, <2>3, <2>4, SameView
  <2> QED BY <2>2, <2>4, <2>5 DEF c
<1> QED BY <1>1, <1>2

\* A store changes the bytes it covers, cached or not.
LEMMA WriteShows ==
    ASSUME Sound(Cache, {}), enabled \in BOOLEAN,
           NEW a \in Addr, NEW w \in Widths, NEW bypass \in BOOLEAN,
           NEW b \in Written(data_effective_addr(a, w), w)
    PROVE  /\ Sound(write_data(a, w, b, bypass), {})
           /\ ViewOf(write_data(a, w, b, bypass)) = Overwritten(ViewOf(Cache), b)
<1> DEFINE c == Cache
           l == LineOf(data_effective_addr(a, w))
           y == ensure_cache_line(c, l)
           r == write_cached(y, l, b)
<1>1. Access(b, l, l) /\ b \in [DOMAIN b -> Byte] /\ l \in Line
      BY StoreIsAccess DEF Access
<1>2. CASE bypass \/ ~enabled
  <2>1. write_data(a, w, b, bypass) = write_backing(c, b)
        BY <1>2 DEF write_data
  <2> HIDE DEF c, l
  <2>2. Sound(c, {})
        BY DEF c
  <2>3. Sound(write_backing(c, b), {}) /\ ViewOf(write_backing(c, b)) = Overwritten(ViewOf(c), b)
        BY <1>1, <2>2, BackingShows
  <2> QED BY <2>1, <2>3 DEF c
<1>3. CASE ~(bypass \/ ~enabled)
  <2>1. write_data(a, w, b, bypass) = r
        BY <1>3 DEF write_data
  <2> HIDE DEF c, l
  <2>2. Sound(c, {})
        BY DEF c
  <2>3. Sound(y, {}) /\ contains(y, l) /\ \A k \in Line : Content(y, k) = Content(c, k)
        BY <1>1, <2>2, Filled
  <2> HIDE DEF y
  <2>4. /\ Sound(r, {} \ {l}) /\ r.sram = y.sram
        /\ \A k \in Line :
              /\ contains(r, k) <=> contains(y, k)
              /\ contains(y, k) => Copy(r, k).data = IF k = l THEN Merged(Copy(y, l).data, l, b)
                                                              ELSE Copy(y, k).data
        BY <1>1, <2>3, WriteCached
  <2>5. {} \ {l} = {}
        OBVIOUS
  <2> HIDE DEF r
  <2>6. ASSUME NEW k \in Line PROVE Content(r, k) = Merged(Content(c, k), k, b)
    <3>1. CASE k = l
      <4>1. Content(r, l) = Merged(Copy(y, l).data, l, b)
            BY <1>1, <2>3, <2>4 DEF Content
      <4>2. Copy(y, l).data = Content(y, l)
            BY <2>3 DEF Content
      <4>3. Content(y, l) = Content(c, l)
            BY <1>1, <2>3
      <4> QED BY <3>1, <4>1, <4>2, <4>3
    <3>2. CASE k # l
      <4>1. Content(r, k) = Content(y, k)
            BY <2>4, <3>2 DEF Content
      <4>2. Content(c, k) \in [Offset -> Byte]
            BY <2>2, ContentType
      <4>3. \A x \in DOMAIN b : LineOf(x) # k
            BY <1>1, <3>2 DEF Access
      <4>4. Merged(Content(c, k), k, b) = Content(c, k)
            BY <1>1, <4>2, <4>3, MergedIs
      <4> QED BY <2>3, <4>1, <4>4
    <3> QED BY <3>1, <3>2
  <2>7. Sound(r, {})
        BY <2>4, <2>5
  <2>8. ViewOf(r) = Overwritten(ViewOf(c), b)
        BY <1>3, <2>2, <2>6, <2>7, MergedView
  <2> QED BY <2>1, <2>7, <2>8 DEF c
<1> QED BY <1>2, <1>3

\* A transfer shows in every load but those of a dirty line.
LEMMA TransferShows ==
    ASSUME NEW c, Sound(c, {}), enabled \in BOOLEAN, NEW b, b \in [DOMAIN b -> Byte]
    PROVE  ViewOf(Transferred(c, b)) =
             [x \in Addr |-> IF (enabled /\ Home(c, LineOf(x)) # {}) \/ x \notin DOMAIN b
                             THEN ViewOf(c)[x] ELSE b[x]]
<1> DEFINE r == Transferred(c, b)
<1>1. /\ Sound(r, {}) /\ r.sram = Overwritten(c.sram, b)
      /\ \A k \in Line :
            Content(r, k) = IF contains(c, k) /\ Copy(c, k).dirty THEN Content(c, k)
                            ELSE Merged(Content(c, k), k, b)
      BY DmaIs
<1> HIDE DEF r
<1>2. CASE ~enabled
      BY <1>1, <1>2, ViewIs DEF Overwritten, r
<1>3. CASE enabled
  <2>1. ASSUME NEW x \in Addr
        PROVE  Content(r, LineOf(x))[x % LineSize]
                  = IF (enabled /\ Home(c, LineOf(x)) # {}) \/ x \notin DOMAIN b
                    THEN ViewOf(c)[x] ELSE b[x]
    <3> DEFINE l == LineOf(x)
               o == x % LineSize
    <3>1. l \in Line /\ o \in Offset /\ x = l * LineSize + o
          BY ByteOfLine
    <3>2. ViewOf(c)[x] = Content(c, l)[o]
          BY <1>3, ViewIs
    <3> HIDE DEF l, o
    <3>3. Merged(Content(c, l), l, b)[o] = IF x \in DOMAIN b THEN b[x] ELSE Content(c, l)[o]
          BY <3>1 DEF Merged
    <3>4. CASE contains(c, l) /\ Copy(c, l).dirty
      <4>1. Home(c, l) # {}
            BY <3>1, <3>4, HomeIs
      <4>2. Content(r, l) = Content(c, l)
            BY <1>1, <3>1, <3>4
      <4> QED BY <1>3, <3>2, <4>1, <4>2 DEF l, o
    <3>5. CASE ~(contains(c, l) /\ Copy(c, l).dirty)
      <4>1. Home(c, l) = {}
            BY <3>1, <3>5, HomeIs
      <4>2. Content(r, l) = Merged(Content(c, l), l, b)
            BY <1>1, <3>1, <3>5
      <4> QED BY <3>2, <3>3, <4>1, <4>2 DEF l, o
    <3> QED BY <3>4, <3>5
  <2>2. ViewOf(r) = [x \in Addr |-> Content(r, LineOf(x))[x % LineSize]]
        BY <1>1, <1>3, ViewIs
  <2> QED BY <2>1, <2>2 DEF r
<1> QED BY <1>2, <1>3
--------------------------------------------------------------------------------
\* The invariant.

\* The cache is sound, the control bits are bits, and a snapshot holds a whole SRAM.
MemInv == /\ Sound(Cache, {})
          /\ enabled \in BOOLEAN /\ im \in BOOLEAN
          /\ saved = None \/ \E m \in [Addr -> Byte] : saved = [sram |-> m]

\* A cache that an operation returned is the cache.
LEMMA SetCacheIs ==
    ASSUME NEW c, c \in CacheState, SetCache(c) PROVE Cache' = c
BY DEF SetCache, Cache, CacheState

\* The initial state is sound.
LEMMA InitiallySound == mem_Init => MemInv
<1> SUFFICES ASSUME mem_Init PROVE MemInv
    OBVIOUS
<1>1. sram \in [Addr -> Byte]
      BY MemoryAssumption DEF mem_Init
<1>2. Cache = Emptied(sram)
      BY DEF mem_Init, Cache, Sets, Emptied
<1>3. Sound(Cache, {})
      BY <1>1, <1>2, EmptyCache
<1> QED BY <1>3 DEF mem_Init, MemInv

\* What leaves a sound cache and the snapshot keeps the invariant.
LEMMA CacheStep ==
    ASSUME MemInv, NEW c, Sound(c, {}), SetCache(c),
           enabled' \in BOOLEAN, im' \in BOOLEAN, saved' = saved
    PROVE  MemInv'
<1>1. Cache' = c
      BY SetCacheIs DEF Sound
<1>2. Sound(Cache', {})
      BY <1>1
<1> QED BY <1>2 DEF MemInv

\* What leaves the cache alone does, if the snapshot is a whole SRAM.
LEMMA OtherStep ==
    ASSUME MemInv, UNCHANGED <<sram, lines, next_way>>, enabled' \in BOOLEAN, im' \in BOOLEAN,
           saved' = saved \/ saved' = [sram |-> sram]
    PROVE  MemInv'
<1>1. Cache' = Cache
      BY DEF Cache
<1>2. Sound(Cache', {})
      BY <1>1 DEF MemInv
<1>3. sram \in [Addr -> Byte]
      BY DEF MemInv, Sound, CacheState, Cache
<1>4. saved' = None \/ \E m \in [Addr -> Byte] : saved' = [sram |-> m]
      BY <1>3 DEF MemInv
<1> QED BY <1>2, <1>4 DEF MemInv

\* SRAM replaced and the cache emptied after it: an empty cache, whatever was dirty.
LEMMA Replaced ==
    ASSUME MemInv, NEW mem \in [Addr -> Byte]
    PROVE  LET r == invalidate_all([Cache EXCEPT !.sram = mem])
           IN Sound(r, {}) /\ r.sram \in [Addr -> Byte] /\ r = Emptied(r.sram)
<1> DEFINE c == [Cache EXCEPT !.sram = mem]
<1>1. \A k \in Line \ Line : Backing(mem, k) = Backing(Cache.sram, k)
      OBVIOUS
<1>2. Sound(c, Line)
      BY <1>1, NewSram DEF MemInv
<1> HIDE DEF c
<1>3. im \in BOOLEAN
      BY DEF MemInv
<1>4. Sound(invalidate_all(c), {}) /\ invalidate_all(c).sram \in [Addr -> Byte]
      /\ invalidate_all(c) = Emptied(invalidate_all(c).sram)
      BY <1>2, <1>3, InvalidateAll
<1> QED BY <1>4 DEF c

\* Every step keeps the invariant.
LEMMA StepsStaySound == MemInv /\ [mem_Next]_mem_vars => MemInv'
<1> SUFFICES ASSUME MemInv, [mem_Next]_mem_vars PROVE MemInv'
    OBVIOUS
<1>1. Sound(Cache, {}) /\ enabled \in BOOLEAN /\ im \in BOOLEAN /\ sram \in [Addr -> Byte]
      BY DEF MemInv, Sound, CacheState, Cache
<1>2. ASSUME NEW a \in Addr, NEW w \in Widths, NEW bypass \in BOOLEAN, CpuLoad(a, w, bypass)
      PROVE  MemInv'
      BY <1>1, <1>2, ReadShows, CacheStep DEF CpuLoad
<1>3. ASSUME NEW a \in Addr, NEW w \in Widths, NEW bypass \in BOOLEAN,
             NEW b \in Written(data_effective_addr(a, w), w), CpuStore(a, w, b, bypass)
      PROVE  MemInv'
      BY <1>1, <1>3, WriteShows, CacheStep DEF CpuStore
<1>4. ASSUME NEW w \in Widths, NEW a \in Reach(w), NEW b \in Written(a, w), Poke(b)
      PROVE  MemInv'
      BY <1>1, <1>4, PokeIsAccess, BackingShows, CacheStep DEF Poke
<1>5. ASSUME NEW w \in Widths, NEW a \in Reach(w), NEW b \in Written(a, w), SramWrite(b)
      PROVE  MemInv'
  <2>1. SramWritten(b) = Transferred(Cache, b)
        BY DEF SramWritten, Transferred, Cache
  <2>2. Sound(Transferred(Cache, b), {})
        BY <1>1, PokeIsAccess, DmaIs
  <2>3. Sound(SramWritten(b), {})
        BY <2>1, <2>2
  <2> QED BY <1>1, <1>5, <2>3, CacheStep DEF SramWrite
<1>6. ASSUME NEW e \in BOOLEAN, NEW i \in BOOLEAN, dcache_sync_ctrl(e, i) PROVE MemInv'
      BY <1>6, OtherStep DEF dcache_sync_ctrl
<1>7. ASSUME NEW l \in Line, DC_IVDL(l) PROVE MemInv'
      BY <1>1, <1>7, InvalidateLine, CacheStep DEF DC_IVDL
<1>8. ASSUME NEW l \in Line, Fetch(l) PROVE MemInv'
      BY <1>1, <1>8, OtherStep DEF Fetch
<1>9. CASE DC_IVDC
      BY <1>1, <1>9, InvalidateAll, CacheStep DEF DC_IVDC
<1>10. CASE IC_IVIC
       BY <1>1, <1>10, OtherStep DEF IC_IVIC
<1>11. [x \in Addr |-> Blank] \in [Addr -> Byte]
       BY MemoryAssumption
<1>12. Sound(AfterReset, {}) /\ AfterReset.sram \in [Addr -> Byte] /\ AfterReset = Emptied(AfterReset.sram)
       BY <1>11, Replaced DEF AfterReset
<1>13. CASE reset_soc_in_place
       BY <1>1, <1>12, <1>13, CacheStep DEF reset_soc_in_place
<1>14. CASE warm_reboot_from_flash
  <2> DEFINE mem == Overwritten(AfterReset.sram, BootImage)
             r == [AfterReset EXCEPT !.sram = mem]
  <2>1. mem \in [Addr -> Byte]
        BY <1>12, BootAssumption DEF Overwritten
  <2>2. r = Emptied(mem)
        BY <1>12 DEF Emptied
  <2>3. SetCache(r) /\ UNCHANGED <<enabled, im, saved>>
        BY <1>14 DEF warm_reboot_from_flash
  <2> HIDE DEF mem, r
  <2>4. Sound(r, {})
        BY <2>1, <2>2, EmptyCache
  <2> QED BY <1>1, <2>3, <2>4, CacheStep
<1>15. CASE save_named_snapshot
       BY <1>1, <1>15, OtherStep DEF save_named_snapshot
<1>16. CASE restore_named_snapshot
  <2>1. PICK m \in [Addr -> Byte] : saved = [sram |-> m]
        BY <1>16 DEF MemInv, restore_named_snapshot
  <2>2. saved.sram \in [Addr -> Byte]
        BY <2>1
  <2> DEFINE r == invalidate_all([Cache EXCEPT !.sram = saved.sram])
  <2>3. Sound(r, {})
        BY <2>2, Replaced
  <2>4. SetCache(r) /\ UNCHANGED <<enabled, im, saved>>
        BY <1>16 DEF restore_named_snapshot
  <2> HIDE DEF r
  <2> QED BY <1>1, <2>3, <2>4, CacheStep
<1>17. CASE UNCHANGED mem_vars
       BY <1>1, <1>17, OtherStep DEF mem_vars
<1> QED BY <1>2, <1>3, <1>4, <1>5, <1>6, <1>7, <1>8, <1>9, <1>10, <1>13, <1>14, <1>15, <1>16,
           <1>17 DEF mem_Next
\* In every reachable state the data cache is sound.
THEOREM MemoryInvariance == mem_Spec => []MemInv
<1> QED BY InitiallySound, StepsStaySound, PTL DEF mem_Spec

--------------------------------------------------------------------------------
\* What a sound cache means for those who use it.

\* A line is held once and a clean one is a copy.
LEMMA SoundLinesAgree == MemInv => CleanLinesAgree
<1> SUFFICES ASSUME MemInv PROVE CleanLinesAgree
    OBVIOUS
<1>1. Sound(Cache, {}) /\ Cache.lines = lines /\ Cache.sram = sram /\ DOMAIN lines = Sets
      BY DEF MemInv, Sound, CacheState, Cache
<1>2. ASSUME NEW s \in Sets, NEW w \in Ways, lines[s][w].valid
      PROVE  LET l == base_line(lines[s][w].tag, s)
             IN /\ l \in Line
                /\ Holding(Cache, l) = {w}
                /\ lines[s][w].dirty \/ lines[s][w].data = Backing(sram, l)
  <2> DEFINE l == base_line(lines[s][w].tag, s)
  <2>1. l \in Line
        BY <1>1, <1>2 DEF Sound
  <2>2. lines[s][w].tag \in Nat
        BY <1>1, WayIs DEF Sound
  <2>3. SetOf(l) = s /\ TagOf(l) = lines[s][w].tag
        BY <2>2, SetHasLine
  <2> HIDE DEF l
  <2>4. Has(Cache, l, w)
        BY <1>1, <1>2, <2>3 DEF Has
  <2>5. Holding(Cache, l) = {w}
        BY <1>1, <2>1, <2>4, Hit
  <2>6. lines[s][w].dirty \/ lines[s][w].data = Backing(sram, l)
        BY <1>1, <2>1, <2>3, <2>4 DEF Sound
  <2> QED BY <2>1, <2>5, <2>6 DEF l
<1> QED BY <1>1, <1>2 DEF CleanLinesAgree

\* A load that does not bypass the cache returns the view.
LEMMA LoadIsView ==
    ASSUME Sound(Cache, {}), enabled \in BOOLEAN, NEW a \in Addr, NEW w \in Widths
    PROVE  Loaded(a, w, FALSE) = [x \in Span(data_effective_addr(a, w), w) |-> ViewOf(Cache)[x]]
<1> DEFINE e == data_effective_addr(a, w)
           l == LineOf(e)
           S == Span(e, w)
           c == read_data(a, w, FALSE)
<1>1. S \subseteq Addr /\ l \in Line /\ \A x \in S : LineOf(x) = l
      BY AlignedSpan
<1>2. Loaded(a, w, FALSE) = [x \in S |-> IF ~enabled THEN c.sram[x] ELSE peek_byte(c, x)]
      BY DEF Loaded
<1>3. ViewOf(c) = ViewOf(Cache)
      BY ReadShows
<1>4. c = IF ~enabled THEN Cache ELSE ensure_cache_line(Cache, l)
      BY DEF read_data
<1>5. enabled => contains(c, l)
      BY <1>1, <1>4, Filled
<1> HIDE DEF e, l, S, c
<1>6. ASSUME NEW x \in S
      PROVE  (IF ~enabled THEN c.sram[x] ELSE peek_byte(c, x)) = ViewOf(Cache)[x]
  <2>1. x \in Addr /\ LineOf(x) = l
        BY <1>1
  <2>2. ViewOf(c)[x] = IF enabled /\ contains(c, l) THEN peek_byte(c, x) ELSE c.sram[x]
        BY <2>1, ViewOfByte
  <2> QED BY <1>3, <1>5, <2>2
<1>7. Loaded(a, w, FALSE) = [x \in S |-> ViewOf(Cache)[x]]
      BY <1>2, <1>6
<1> QED BY <1>7 DEF S, e

\* Loads that use the cache, stores, invalidations and the debugger: one flat memory.
LEMMA SoundIsFlat == MemInv => CachedLoadsAreFlat
<1> SUFFICES ASSUME MemInv PROVE CachedLoadsAreFlat
    OBVIOUS
<1>1. Sound(Cache, {}) /\ enabled \in BOOLEAN /\ im \in BOOLEAN
      BY DEF MemInv
<1>2. ASSUME NEW a \in Addr, NEW w \in Widths, NEW bypass \in BOOLEAN
      PROVE  /\ ViewOf(read_data(a, w, bypass)) = ViewOf(Cache)
             /\ \A b \in Written(data_effective_addr(a, w), w) :
                  ViewOf(write_data(a, w, b, bypass)) = Overwritten(ViewOf(Cache), b)
      BY <1>1, ReadShows, WriteShows
<1>3. ASSUME enabled, im PROVE ViewOf(invalidate_all(Cache)) = ViewOf(Cache)
  <2>1. /\ Sound(invalidate_all(Cache), {})
        /\ \A k \in Line : Content(invalidate_all(Cache), k) = Content(Cache, k)
        BY <1>1, <1>3, InvalidateAll
  <2> QED BY <1>1, <1>3, <2>1, SameView
<1>4. ASSUME enabled, im, NEW l \in Line PROVE ViewOf(invalidate_line(Cache, l)) = ViewOf(Cache)
  <2>1. /\ Sound(invalidate_line(Cache, l), {})
        /\ \A k \in Line : Content(invalidate_line(Cache, l), k) = Content(Cache, k)
        BY <1>1, <1>4, InvalidateLine
  <2> QED BY <1>1, <1>4, <2>1, SameView
<1>5. ASSUME NEW w \in Widths, NEW a \in Reach(w), NEW b \in Written(a, w)
      PROVE  ViewOf(write_backing(Cache, b)) = Overwritten(ViewOf(Cache), b)
      BY <1>1, PokeIsAccess, BackingShows
<1>6. ASSUME NEW w \in Widths, NEW a \in Reach(w), enabled, LineOf(a) = LineOf(a + w - 1)
      PROVE  Observed(a, w) = [x \in Span(a, w) |-> ViewOf(Cache)[x]]
  <2>1. /\ a \in Span(a, w) /\ Span(a, w) \subseteq Addr
        /\ \A x \in Span(a, w) : LineOf(x) = LineOf(a)
        BY <1>6, AnySpan
  <2>2. ASSUME NEW x \in Span(a, w)
        PROVE  ViewOf(Cache)[x] = IF contains(Cache, LineOf(a)) THEN peek_byte(Cache, x) ELSE sram[x]
        BY <1>6, <2>1, ViewOfByte DEF Cache
  <2>3. CASE contains(Cache, LineOf(a))
    <3>1. Observed(a, w) = [x \in Span(a, w) |-> peek_byte(Cache, x)]
          BY <2>1, <2>3 DEF Observed
    <3> QED BY <2>2, <2>3, <3>1
  <2>4. CASE ~contains(Cache, LineOf(a))
    <3>1. Observed(a, w) = [x \in Span(a, w) |-> sram[x]]
          BY <2>1, <2>4 DEF Observed
    <3> QED BY <2>2, <2>4, <3>1
  <2> QED BY <2>3, <2>4
<1>7. \A a \in Addr, w \in Widths :
          Loaded(a, w, FALSE) = [x \in Span(data_effective_addr(a, w), w) |-> ViewOf(Cache)[x]]
      BY <1>1, LoadIsView
<1> QED BY <1>2, <1>3, <1>4, <1>5, <1>6, <1>7 DEF CachedLoadsAreFlat

\* SRAM behind a cached access changes by an evicted line alone, and a store past the
\* cache is there at once.
LEMMA SoundLags == MemInv => UncachedLoadsLag
<1> SUFFICES ASSUME MemInv PROVE UncachedLoadsLag
    OBVIOUS
<1>1. Sound(Cache, {}) /\ enabled \in BOOLEAN /\ Cache.sram = sram
      BY DEF MemInv, Cache
<1>2. ASSUME NEW a \in Addr, NEW w \in Widths
      PROVE  LET e == data_effective_addr(a, w)
                 miss == read_data(a, w, FALSE).sram
             IN /\ Loaded(a, w, TRUE) = [x \in Span(e, w) |-> sram[x]]
                /\ ~enabled => Loaded(a, w, FALSE) = Loaded(a, w, TRUE)
                /\ miss = sram \/ \E v \in Line \ {LineOf(e)} : miss = WrittenBack(v)
                /\ \A b \in Written(e, w) :
                     /\ enabled => write_data(a, w, b, FALSE).sram = miss
                     /\ write_data(a, w, b, TRUE).sram = Overwritten(sram, b)
  <2> DEFINE e == data_effective_addr(a, w)
             l == LineOf(e)
             y == ensure_cache_line(Cache, l)
             miss == read_data(a, w, FALSE).sram
  <2>1. l \in Line
        BY AlignedSpan
  <2>2. Loaded(a, w, TRUE) = [x \in Span(e, w) |-> sram[x]]
        BY <1>1 DEF Loaded, read_data
  <2>3. ~enabled => Loaded(a, w, FALSE) = Loaded(a, w, TRUE)
        BY DEF Loaded, read_data
  <2>4. miss = sram \/ \E v \in Line \ {l} : miss = WrittenBack(v)
    <3>1. CASE ~enabled
          BY <1>1, <3>1 DEF read_data
    <3>2. CASE enabled
      <4>1. miss = y.sram
            BY <3>2 DEF read_data
      <4>2. \/ y.sram = sram
            \/ \E v \in Line \ {l} :
                  contains(Cache, v) /\ y.sram = writeback_line(sram, v, Copy(Cache, v).data)
        <5> HIDE DEF l
        <5> QED BY <1>1, <2>1, FillEvicts
      <4>3. ASSUME NEW v \in Line, contains(Cache, v)
            PROVE  WrittenBack(v) = writeback_line(sram, v, Copy(Cache, v).data)
            BY <1>1, <3>2, <4>3, LineShown DEF WrittenBack
      <4> HIDE DEF y, l, miss
      <4> QED BY <4>1, <4>2, <4>3
    <3> QED BY <1>1, <3>1, <3>2
  <2>5. ASSUME NEW b \in Written(e, w), enabled PROVE write_data(a, w, b, FALSE).sram = miss
    <3>1. write_data(a, w, b, FALSE) = write_cached(y, l, b) /\ miss = y.sram
          BY <2>5 DEF write_data, read_data
    <3>2. b \in [DOMAIN b -> Byte]
          BY StoreIsAccess
    <3>3. Sound(y, {})
      <4> HIDE DEF l
      <4> QED BY <1>1, <2>1, Filled
    <3> HIDE DEF y, l, miss
    <3>4. write_cached(y, l, b).sram = y.sram
          BY <2>1, <3>2, <3>3, WriteCached
    <3> QED BY <3>1, <3>4
  <2>6. ASSUME NEW b \in Written(e, w) PROVE write_data(a, w, b, TRUE).sram = Overwritten(sram, b)
    <3>1. write_data(a, w, b, TRUE) = write_backing(Cache, b)
          BY DEF write_data
    <3>2. Access(b, l, l)
          BY StoreIsAccess
    <3> HIDE DEF l
    <3> QED BY <1>1, <3>1, <3>2, WriteBacking
  <2> HIDE DEF miss
  <2> QED BY <2>2, <2>3, <2>4, <2>5, <2>6 DEF miss
<1> QED BY <1>2 DEF UncachedLoadsLag

\* What was invalidated with IM set is in SRAM, where every port finds it.
LEMMA SoundMeets == MemInv => PortsMeet
<1> SUFFICES ASSUME MemInv, enabled, im PROVE /\ \A l \in Line : invalidate_line(Cache, l).sram = WrittenBack(l)
                                              /\ invalidate_all(Cache).sram = ViewOf(Cache)
                                              /\ Fetched(NoCode, invalidate_all(Cache).sram) = ViewOf(Cache)
    BY DEF PortsMeet
<1>1. Sound(Cache, {}) /\ Cache.sram = sram /\ im \in BOOLEAN
      BY DEF MemInv, Cache
<1>2. ASSUME NEW l \in Line PROVE invalidate_line(Cache, l).sram = WrittenBack(l)
  <2>1. /\ contains(Cache, l) => WrittenBack(l) = writeback_line(sram, l, Copy(Cache, l).data)
        /\ ~(contains(Cache, l) /\ Copy(Cache, l).dirty) => WrittenBack(l) = sram
        BY <1>1, LineShown DEF WrittenBack
  <2>2. CASE ~contains(Cache, l)
        BY <1>1, <2>1, <2>2 DEF invalidate_line
  <2>3. CASE contains(Cache, l)
    <3> DEFINE m == IF Copy(Cache, l).dirty /\ im
                    THEN writeback_line(sram, l, Copy(Cache, l).data) ELSE sram
    <3>1. \E L : invalidate_line(Cache, l) = [Cache EXCEPT !.sram = m, !.lines = L]
          BY <1>1, <2>3 DEF invalidate_line, Copy, Cache
    <3>2. invalidate_line(Cache, l).sram = m
          BY <3>1 DEF Cache
    <3> QED BY <2>1, <2>3, <3>2
  <2> QED BY <2>2, <2>3
<1>3. PICK r, mem : r = invalidate_all(Cache) /\ mem = r.sram
      OBVIOUS
<1>4. /\ Sound(r, {}) /\ mem \in [Addr -> Byte] /\ r = Emptied(mem)
      /\ \A k \in Line : Content(r, k) = Content(Cache, k)
      BY <1>1, <1>3, InvalidateAll
<1>5. mem = ViewOf(Cache)
  <2>1. ViewOf(r) = ViewOf(Cache)
        BY <1>1, <1>4, SameView
  <2>2. \A k \in Line : Content(r, k) = Backing(mem, k)
        BY <1>4, EmptyCache
  <2>3. ViewOf(r) = [a \in Addr |-> Backing(mem, LineOf(a))[a % LineSize]]
    <3>1. \A a \in Addr : LineOf(a) \in Line
          BY ByteOfLine
    <3> QED BY <1>4, <2>2, <3>1, ViewIs
  <2>4. ASSUME NEW a \in Addr PROVE Backing(mem, LineOf(a))[a % LineSize] = mem[a]
    <3>1. PICK l, o : l = LineOf(a) /\ o = a % LineSize
          OBVIOUS
    <3>2. o \in Offset /\ a = l * LineSize + o
          BY <3>1, ByteOfLine
    <3> QED BY <3>1, <3>2 DEF Backing
  <2> QED BY <1>4, <2>1, <2>3, <2>4
<1>6. Fetched(NoCode, mem) = mem
  <2>1. ASSUME NEW x \in Addr PROVE ~NoCode[SetOf(LineOf(x))].valid
    <3>1. SetOf(LineOf(x)) \in Sets
          BY ByteOfLine, LineOfSet
    <3> QED BY <3>1, EmptyIs DEF NoCode, Sets
  <2>2. Fetched(NoCode, mem) = [x \in Addr |-> mem[x]]
        BY <2>1 DEF Fetched
  <2> QED BY <1>4, <2>2
<1> QED BY <1>2, <1>3, <1>5, <1>6

\* A transfer shows through to loads but for what the core has pending.
LEMMA SoundShowsDma == MemInv => DmaShowsThrough
<1> SUFFICES ASSUME MemInv PROVE DmaShowsThrough
    OBVIOUS
<1>1. Sound(Cache, {}) /\ enabled \in BOOLEAN
      BY DEF MemInv
<1> DEFINE pending == {x \in Addr : \E y \in Dirty(Cache) :
                         enabled /\ base_line(lines[y[1]][y[2]].tag, y[1]) = LineOf(x)}
<1>2. \A x \in Addr : x \in pending <=> enabled /\ Home(Cache, LineOf(x)) # {}
      BY DEF Home, Cache
<1> HIDE DEF pending
<1>3. ASSUME NEW w \in Widths, NEW a \in Reach(w), NEW b \in Written(a, w)
      PROVE  ViewOf(SramWritten(b)) =
               [x \in Addr |-> IF x \in pending \/ x \notin DOMAIN b THEN ViewOf(Cache)[x] ELSE b[x]]
  <2>1. SramWritten(b) = Transferred(Cache, b)
        BY DEF SramWritten, Transferred, Cache
  <2>2. ViewOf(Transferred(Cache, b)) =
             [x \in Addr |-> IF (enabled /\ Home(Cache, LineOf(x)) # {}) \/ x \notin DOMAIN b
                             THEN ViewOf(Cache)[x] ELSE b[x]]
        BY <1>1, PokeIsAccess, TransferShows
  <2> DEFINE v == ViewOf(Cache)
  <2> HIDE DEF v
  <2>3. ViewOf(SramWritten(b)) =
             [x \in Addr |-> IF (enabled /\ Home(Cache, LineOf(x)) # {}) \/ x \notin DOMAIN b
                             THEN v[x] ELSE b[x]]
        BY <2>1, <2>2 DEF v
  <2>4. ViewOf(SramWritten(b)) =
             [x \in Addr |-> IF x \in pending \/ x \notin DOMAIN b THEN v[x] ELSE b[x]]
        BY <1>2, <2>3
  <2> QED BY <2>4 DEF v
<1> QED BY <1>3 DEF DmaShowsThrough, pending

\* The data cache is write-back, whatever is filled, evicted, written, transferred,
\* invalidated, switched or reset: cached loads see one flat memory, loads past the cache
\* see SRAM, to which a dirty line goes whole and at its own address only when it is
\* evicted or invalidated, and after that every port sees the same (CachesAreWriteBack).
THEOREM CacheIsWriteBack == mem_Spec => []CachesAreWriteBack
<1>1. MemInv => CachesAreWriteBack
      BY SoundLinesAgree, SoundIsFlat, SoundLags, SoundMeets, SoundShowsDma DEF CachesAreWriteBack
<1> QED BY <1>1, MemoryInvariance, PTL
================================================================================
