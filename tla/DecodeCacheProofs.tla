-------------------------- MODULE DecodeCacheProofs --------------------------
(***************************************************************************)
(* Proofs about DecodeCache, for any number of pages, lines per page and    *)
(* page-split traces.                                                       *)
(***************************************************************************)
EXTENDS DecodeCache, TLAPS

-----------------------------------------------------------------------------
(* The inductive invariant.  Its parts are about a cache c, because a step     *)
(* passes several from the fetch to the end of the instruction.               *)

Decodings == [ bytes : UNION {[D -> Contents] : D \in SUBSET Lines}, boundTo : Modes ]
Entries == [ at : Lines, lines : SUBSET Lines, instr : Decodings ]
Remembered == [ ppf : Nat, e : Lines ]
Windows == [ page : PageNumbers, mapping : BOOLEAN ] \cup {NoWindow}

Caches == [ entries : [Lines -> Entries \cup {NoEntry}],
            stamps  : SUBSET Lines,
            split   : [0..(SplitEntries - 1) -> Remembered \cup {NoSplit}],
            next    : 0..(SplitEntries - 1),
            window  : Windows ]

\* A trace sits where the mode it is bound to puts it, on the page it starts in,
\* and holds the bytes of its first instruction.
Placed(t, e) ==
  /\ e = hash(t.at, t.instr.boundTo)
  /\ t.lines \subseteq t.at..LastOf(PageOf(t.at))
  /\ DOMAIN t.instr.bytes = t.at..(IF t.instr.bytes[t.at] = "long" THEN t.at + 1 ELSE t.at)

InRing(c, e) == \E k \in DOMAIN c.split : c.split[k] # NoSplit /\ c.split[k].e = e

\* A walk of the page a byte of the instruction lies on finds the trace, or the
\* ring remembers it.
Findable(c, e) ==
  DOMAIN c.entries[e].instr.bytes \subseteq c.entries[e].lines \/ InRing(c, e)

Covered(c, e) ==
  c.entries[e].lines \cup DOMAIN c.entries[e].instr.bytes \subseteq c.stamps

\* The instruction is what memory m holds, but for bytes stored unstamped.
UpToDate(t, m, u) == \A k \in DOMAIN t.instr.bytes : t.instr.bytes[k] = m[k] \/ k \in u

Traces(c, m, u) ==
  \A e \in Lines : c.entries[e] # NoEntry =>
    /\ Placed(c.entries[e], e)
    /\ Findable(c, e)
    /\ Covered(c, e)
    /\ UpToDate(c.entries[e], m, u)

Window(c) ==
  c.window # NoWindow /\ ~c.window.mapping =>
    c.stamps \cap LinesOf(c.window.page) \subseteq {First(c.window.page)}

Good(c, m, u) == c \in Caches /\ Traces(c, m, u) /\ Window(c)

Rest ==
  /\ mem \in [Lines -> Contents]
  /\ dtlb \subseteq PageNumbers
  /\ mode \in Modes
  /\ unstamped \subseteq Lines
  /\ writes \in 0..MaxWrites

DInv == Rest /\ Good(cache, mem, unstamped)

-----------------------------------------------------------------------------
(* Lines and pages *)

LEMMA PageBounds ==
  ASSUME NEW l \in Nat
  PROVE  /\ PageOf(l) \in Nat
         /\ First(PageOf(l)) \in Nat
         /\ LastOf(PageOf(l)) \in Nat
         /\ First(PageOf(l)) <= l
         /\ l <= LastOf(PageOf(l))
BY SizesAssumption DEF PageOf, First, LastOf

LEMMA PageIsUnique ==
  ASSUME NEW l \in Nat, NEW p \in Nat, First(p) <= l, l <= LastOf(p)
  PROVE  PageOf(l) = p
<1> DEFINE q == PageOf(l)
<1>1. q \in Nat /\ q * LinesPerPage <= l /\ l < (q + 1) * LinesPerPage
  <2>1. /\ q \in Nat /\ First(q) \in Nat /\ First(q) <= l /\ l <= LastOf(q)
        /\ LinesPerPage \in Nat \ {0}
    BY PageBounds, SizesAssumption
  <2> HIDE DEF q
  <2>2. (q + 1) * LinesPerPage = First(q) + LinesPerPage
    BY ONLY <2>1, SMTT(30) DEF First
  <2> QED BY ONLY <2>1, <2>2, l \in Nat, SMTT(30) DEF First, LastOf
<1>2. p * LinesPerPage <= l /\ l < (p + 1) * LinesPerPage
  BY SizesAssumption, SMTT(30) DEF First, LastOf
<1>3. ASSUME NEW i \in Nat, NEW j \in Nat, i < j
      PROVE  (i + 1) * LinesPerPage <= j * LinesPerPage
  BY <1>3, SizesAssumption
<1> QED BY <1>1, <1>2, <1>3, SizesAssumption

LEMMA PagesAreApart ==
  ASSUME NEW p \in PageNumbers, NEW q \in PageNumbers, p # q
  PROVE  LinesOf(p) \cap LinesOf(q) = {}
<1> SUFFICES ASSUME NEW l, l \in LinesOf(p), l \in LinesOf(q) PROVE FALSE
  OBVIOUS
<1>1. p \in Nat /\ q \in Nat /\ l \in Nat
  BY SizesAssumption DEF PageNumbers, LinesOf, First, LastOf
<1>2. First(p) <= l /\ l <= LastOf(p) /\ First(q) <= l /\ l <= LastOf(q)
  BY <1>1, SizesAssumption DEF LinesOf, First, LastOf
<1> QED BY <1>1, <1>2, PageIsUnique

LEMMA LinesHavePages ==
  ASSUME NEW l \in Lines
  PROVE  /\ l \in Nat /\ PageOf(l) \in PageNumbers
         /\ LastOf(PageOf(l)) \in Lines /\ First(PageOf(l)) \in Lines
         /\ LinesOf(PageOf(l)) \subseteq Lines
<1>1. l \in Nat /\ l < Pages * LinesPerPage
  BY SizesAssumption DEF Lines
<1>2. PageOf(l) \in Nat /\ First(PageOf(l)) <= l
  BY <1>1, PageBounds
<1>3. PageOf(l) < Pages
  <2>1. SUFFICES ASSUME PageOf(l) >= Pages PROVE FALSE
    BY <1>2, SizesAssumption
  <2>2. PageOf(l) * LinesPerPage >= Pages * LinesPerPage
    BY <1>2, <2>1, SizesAssumption
  <2> QED BY <1>1, <1>2, <2>2, SizesAssumption DEF First
<1>4. (PageOf(l) + 1) * LinesPerPage <= Pages * LinesPerPage
  BY <1>2, <1>3, SizesAssumption
<1>5. LastOf(PageOf(l)) < Pages * LinesPerPage
  BY <1>2, <1>4, SizesAssumption DEF LastOf, First
<1> QED BY <1>1, <1>2, <1>3, <1>5, PageBounds, SizesAssumption
        DEF Lines, PageNumbers, LinesOf

\* The mode exchanges the lines of a pair, and a pair never straddles two pages.
LEMMA HashStays ==
  ASSUME NEW l \in Lines, NEW m \in Modes
  PROVE  /\ hash(l, m) \in Lines
         /\ hash(l, m) \in LinesOf(PageOf(l))
         /\ hash(l, m) <= l + 1
<1> DEFINE p == PageOf(l)
<1>1. l \in Nat /\ p \in Nat /\ First(p) <= l /\ l <= LastOf(p) /\ LinesOf(p) \subseteq Lines
      /\ First(p) \in Nat /\ LastOf(p) \in Nat
  BY LinesHavePages, PageBounds
<1>2. First(p) % 2 = 0 /\ LastOf(p) % 2 = 1
  <2>1. PICK k \in Nat : LinesPerPage = 2 * k
    BY SizesAssumption
  <2>2. First(p) = 2 * (p * k)
    BY <1>1, <2>1 DEF First
  <2>3. LastOf(p) = 2 * (p * k + k - 1) + 1
    BY <1>1, <2>1, <2>2 DEF LastOf
  <2> QED BY <1>1, <2>1, <2>2, <2>3
<1>3. CASE m = 0
  BY <1>1, <1>3 DEF hash, LinesOf
<1>4. CASE m = 1 /\ l % 2 = 0
  <2>1. l < LastOf(p)
    BY <1>1, <1>2, <1>4
  <2> QED BY <1>1, <1>4, <2>1 DEF hash, LinesOf
<1>5. CASE m = 1 /\ l % 2 # 0
  <2>1. First(p) < l
    BY <1>1, <1>2, <1>5
  <2> QED BY <1>1, <1>5, <2>1 DEF hash, LinesOf
<1> QED BY <1>3, <1>4, <1>5 DEF Modes

LEMMA HashTellsModes ==
  ASSUME NEW l \in Lines, NEW m \in Modes, NEW n \in Modes, hash(l, m) = hash(l, n)
  PROVE  m = n
BY SizesAssumption DEF hash, Lines, Modes

-----------------------------------------------------------------------------
(* A write *)

LEMMA EmptyIsGood ==
  ASSUME NEW m, NEW u
  PROVE  Good(Empty, m, u)
<1>1. Empty \in Caches
  BY SizesAssumption DEF Empty, Caches, NoWindow, Windows
<1>2. Traces(Empty, m, u) /\ Window(Empty)
  BY DEF Empty, Traces, Window
<1> QED BY <1>1, <1>2 DEF Good

\* Breaking the links drops traces, and the ring with every one it remembers.
LEMMA LinksBroken ==
  ASSUME NEW c \in Caches
  PROVE  /\ breakLinks(c) \in Caches
         /\ \A e \in Lines : breakLinks(c).entries[e] # NoEntry =>
              breakLinks(c).entries[e] = c.entries[e] /\ ~InRing(c, e)
         /\ \A k \in DOMAIN breakLinks(c).split : breakLinks(c).split[k] = NoSplit
         /\ breakLinks(c).stamps = c.stamps /\ breakLinks(c).window = c.window
<1> DEFINE b == breakLinks(c)
           remembered == {c.split[k].e : k \in {j \in DOMAIN c.split : c.split[j] # NoSplit}}
<1>1. b.entries = [e \in Lines |-> IF e \in remembered THEN NoEntry ELSE c.entries[e]]
  BY DEF breakLinks, Caches
<1>2. b.split = Empty.split /\ b.next = 0 /\ b.stamps = c.stamps /\ b.window = c.window
  BY DEF breakLinks, Caches
<1>3. b.entries \in [Lines -> Entries \cup {NoEntry}]
  BY <1>1 DEF Caches
<1>4. b \in Caches
  <2>1. b.split \in [0..(SplitEntries - 1) -> Remembered \cup {NoSplit}]
    BY <1>2 DEF Empty
  <2>2. b = [c EXCEPT !.entries = b.entries, !.split = b.split, !.next = b.next]
    BY DEF breakLinks, Caches
  <2>3. 0 \in 0..(SplitEntries - 1)
    BY SizesAssumption
  <2> HIDE DEF b
  <2> QED BY <1>2, <1>3, <2>1, <2>2, <2>3 DEF Caches
<1>5. \A e \in Lines : b.entries[e] # NoEntry => b.entries[e] = c.entries[e] /\ e \notin remembered
  BY <1>1
<1>6. \A e : InRing(c, e) => e \in remembered
  BY DEF InRing
<1> QED BY <1>2, <1>4, <1>5, <1>6 DEF Empty

\* The walk meets every trace that covers the line.
LEMMA WalkFinds ==
  ASSUME NEW e \in Lines, NEW x \in Entries, Placed(x, e), NEW t \in Lines, t \in x.lines
  PROVE  PageOf(x.at) = PageOf(t) /\ e \in Walked(PageOf(t), t)
<1>1. x.at \in Lines /\ x.at \in Nat /\ t \in Nat /\ e \in Nat /\ x.instr.boundTo \in Modes
  BY LinesHavePages DEF Entries, Decodings
<1>2. PageOf(x.at) \in Nat /\ First(PageOf(x.at)) <= x.at
      /\ First(PageOf(x.at)) \in Nat /\ LastOf(PageOf(x.at)) \in Nat
  BY <1>1, PageBounds
<1>3. x.at <= t /\ t <= LastOf(PageOf(x.at))
  <2>1. t \in x.at..LastOf(PageOf(x.at))
    BY DEF Placed
  <2> QED BY <1>1, <1>2, <2>1
<1>4. PageOf(t) = PageOf(x.at)
  BY <1>1, <1>2, <1>3, PageIsUnique
<1>5. e \in LinesOf(PageOf(x.at)) /\ e <= x.at + 1
  BY <1>1, HashStays DEF Placed
<1> QED BY <1>1, <1>3, <1>4, <1>5 DEF Walked

\* After a write to t nothing that was decoded from t is left.
LEMMA WriteClears ==
  ASSUME NEW c \in Caches, NEW m, NEW u, Traces(c, m, u), NEW t \in Lines
  PROVE  /\ decWriteStamp(c, t) \in Caches
         /\ decWriteStamp(c, t).stamps = c.stamps \ {t}
         /\ decWriteStamp(c, t).window = c.window
         /\ \A e \in Lines : decWriteStamp(c, t).entries[e] # NoEntry =>
              /\ decWriteStamp(c, t).entries[e] = c.entries[e]
              /\ t \notin c.entries[e].lines \cup DOMAIN c.entries[e].instr.bytes
              /\ InRing(c, e) => InRing(decWriteStamp(c, t), e)
<1>1. CASE t \notin c.stamps
  <2>1. decWriteStamp(c, t) = c
    BY <1>1 DEF decWriteStamp
  <2>2. \A e \in Lines : c.entries[e] # NoEntry =>
          t \notin c.entries[e].lines \cup DOMAIN c.entries[e].instr.bytes
    BY <1>1 DEF Traces, Covered
  <2> QED BY <1>1, <2>1, <2>2
<1>2. CASE t \in c.stamps
  <2> DEFINE b == breakLinks(c)
             stale == {e \in Walked(PageOf(t), t) :
                         /\ b.entries[e] # NoEntry
                         /\ PageOf(b.entries[e].at) = PageOf(t)
                         /\ t \in b.entries[e].lines}
             left == [e \in Lines |-> IF e \in stale THEN NoEntry ELSE b.entries[e]]
             d == decWriteStamp(c, t)
  <2>1. /\ b \in Caches
        /\ \A e \in Lines : b.entries[e] # NoEntry =>
             b.entries[e] = c.entries[e] /\ ~InRing(c, e)
        /\ b.stamps = c.stamps /\ b.window = c.window
    BY LinksBroken
  <2>2. d = [b EXCEPT !.entries = left, !.stamps = c.stamps \ {t}]
    <3>1. handleSMC(c, t) = [b EXCEPT !.entries = left]
      BY <2>1 DEF handleSMC, Caches
    <3> HIDE DEF b, left
    <3> QED BY <1>2, <2>1, <3>1 DEF decWriteStamp, Caches
  <2> HIDE DEF b, d
  <2>3. left \in [Lines -> Entries \cup {NoEntry}]
    BY <2>1 DEF Caches
  <2>4. \A e \in Lines : left[e] # NoEntry => left[e] = b.entries[e] /\ e \notin stale
    OBVIOUS
  <2> HIDE DEF left
  <2>5. d \in Caches /\ d.entries = left /\ d.stamps = c.stamps \ {t} /\ d.window = c.window
    BY <2>1, <2>2, <2>3 DEF Caches
  <2>6. ASSUME NEW e \in Lines, d.entries[e] # NoEntry
        PROVE  /\ d.entries[e] = c.entries[e] /\ ~InRing(c, e)
               /\ t \notin c.entries[e].lines \cup DOMAIN c.entries[e].instr.bytes
    <3>1. /\ d.entries[e] = b.entries[e] /\ b.entries[e] = c.entries[e]
          /\ b.entries[e] # NoEntry /\ ~InRing(c, e) /\ e \notin stale
      BY <2>1, <2>4, <2>5, <2>6
    <3>2. /\ c.entries[e] \in Entries /\ Placed(c.entries[e], e)
          /\ DOMAIN c.entries[e].instr.bytes \subseteq c.entries[e].lines
      BY <3>1 DEF Traces, Findable, Caches
    <3>3. ASSUME t \in c.entries[e].lines PROVE FALSE
      BY <3>1, <3>2, <3>3, WalkFinds
    <3> QED BY <3>1, <3>2, <3>3
  <2> QED BY <2>5, <2>6 DEF d
<1> QED BY <1>1, <1>2

\* A write that stamps its line leaves every trace right.
LEMMA StampedWrite ==
  ASSUME NEW c, NEW m, NEW u, Good(c, m, u), NEW t \in Lines, NEW v,
         NEW n, n = [l \in Lines |-> IF l \in {t} THEN v ELSE m[l]]
  PROVE  Good(decWriteStamp(c, t), n, u \ {t})
<1> DEFINE d == decWriteStamp(c, t)
<1>1. /\ c \in Caches /\ Traces(c, m, u) /\ Window(c)
      /\ d \in Caches /\ d.stamps = c.stamps \ {t} /\ d.window = c.window
      /\ \A e \in Lines : d.entries[e] # NoEntry =>
           /\ d.entries[e] = c.entries[e]
           /\ t \notin c.entries[e].lines \cup DOMAIN c.entries[e].instr.bytes
           /\ InRing(c, e) => InRing(d, e)
  BY WriteClears DEF Good
<1> HIDE DEF d
<1>2. Window(d)
  BY <1>1 DEF Window
<1>3. ASSUME NEW e \in Lines, d.entries[e] # NoEntry
      PROVE  /\ Placed(d.entries[e], e) /\ Findable(d, e) /\ Covered(d, e)
             /\ UpToDate(d.entries[e], n, u \ {t})
  <2>1. /\ d.entries[e] = c.entries[e] /\ c.entries[e] # NoEntry
        /\ t \notin c.entries[e].lines \cup DOMAIN c.entries[e].instr.bytes
        /\ InRing(c, e) => InRing(d, e)
    BY <1>1, <1>3
  <2>2. /\ Placed(c.entries[e], e) /\ Findable(c, e) /\ Covered(c, e)
        /\ UpToDate(c.entries[e], m, u)
    BY <1>1, <2>1 DEF Traces
  <2>3. Placed(d.entries[e], e) /\ Findable(d, e) /\ Covered(d, e)
    BY <1>1, <2>1, <2>2 DEF Findable, Covered
  <2>4. \A k \in DOMAIN c.entries[e].instr.bytes : k \in Lines /\ k # t
    BY <1>1, <2>1, <2>2 DEF Covered, Caches
  <2>5. UpToDate(d.entries[e], n, u \ {t})
    BY <2>1, <2>2, <2>4 DEF UpToDate
  <2> QED BY <2>3, <2>5
<1>4. Traces(d, n, u \ {t})
  BY <1>3 DEF Traces
<1> QED BY <1>1, <1>2, <1>4 DEF Good, d

\* A write that does not, does so too if the lines with stamps are accounted for.
LEMMA UnstampedWrite ==
  ASSUME NEW c, NEW m, NEW u, Good(c, m, u), NEW ls, NEW v,
         NEW n, n = [l \in Lines |-> IF l \in ls THEN v ELSE m[l]],
         NEW w, u \cup (ls \cap c.stamps) \subseteq w
  PROVE  Good(c, n, w)
<1>1. c \in Caches /\ Traces(c, m, u) /\ Window(c)
  BY DEF Good
<1>2. ASSUME NEW e \in Lines, c.entries[e] # NoEntry
      PROVE  UpToDate(c.entries[e], n, w)
  <2>1. /\ UpToDate(c.entries[e], m, u)
        /\ DOMAIN c.entries[e].instr.bytes \subseteq c.stamps /\ c.stamps \subseteq Lines
    BY <1>1, <1>2 DEF Traces, Covered, Caches
  <2> QED BY <2>1 DEF UpToDate
<1>3. Traces(c, n, w)
  BY <1>1, <1>2 DEF Traces
<1> QED BY <1>1, <1>3 DEF Good

LEMMA UnstampedByte ==
  ASSUME NEW c, NEW m, NEW u, Good(c, m, u), NEW t \in Lines, NEW v,
         NEW n, n = [l \in Lines |-> IF l \in {t} THEN v ELSE m[l]],
         NEW w, w \in {u \cup {t}, u \cup ({t} \cap c.stamps)}
  PROVE  Good(c, n, w)
<1>1. c \in Caches /\ Traces(c, m, u) /\ Window(c)
  BY DEF Good
<1>2. u \cup ({t} \cap c.stamps) \subseteq w /\ \A l \in Lines \ {t} : n[l] = m[l]
  OBVIOUS
<1>3. ASSUME NEW e \in Lines, c.entries[e] # NoEntry
      PROVE  UpToDate(c.entries[e], n, w)
  <2>1. /\ UpToDate(c.entries[e], m, u)
        /\ DOMAIN c.entries[e].instr.bytes \subseteq c.stamps /\ c.stamps \subseteq Lines
    BY <1>1, <1>3 DEF Traces, Covered, Caches
  <2> QED BY <1>2, <2>1 DEF UpToDate
<1>4. Traces(c, n, w)
  BY <1>1, <1>3 DEF Traces
<1> QED BY <1>1, <1>4 DEF Good

\* The stack cache may be given up, or move to a page and note its stamps.
LEMMA WindowMoves ==
  ASSUME NEW c, NEW m, NEW u, Good(c, m, u), NEW w,
         \/ w = c.window \/ w = NoWindow
         \/ \E p \in PageNumbers :
              w = [page |-> p, mapping |-> c.stamps \cap LinesOf(p) # {}]
  PROVE  /\ Good([c EXCEPT !.window = w], m, u)
         /\ [c EXCEPT !.window = w].stamps = c.stamps
<1> DEFINE d == [c EXCEPT !.window = w]
<1>1. c \in Caches /\ Traces(c, m, u) /\ Window(c)
  BY DEF Good
<1>2. w \in Windows
  <2>1. c.window \in Windows /\ NoWindow \in Windows
    BY <1>1 DEF Caches, Windows, NoWindow
  <2>2. ASSUME NEW p \in PageNumbers, NEW b \in BOOLEAN, w = [page |-> p, mapping |-> b]
        PROVE  w \in Windows
    BY <2>2 DEF Windows
  <2> QED BY <2>1, <2>2
<1>3. /\ d \in Caches /\ d.window = w /\ d.stamps = c.stamps
      /\ d.entries = c.entries /\ d.split = c.split
  BY <1>1, <1>2 DEF Caches
<1> HIDE DEF d
<1>4. Traces(d, m, u)
  BY <1>1, <1>3 DEF Traces, Findable, InRing, Covered
<1>5. Window(d)
  <2>1. CASE w = c.window \/ w = NoWindow
    BY <1>1, <1>3, <2>1 DEF Window
  <2>2. CASE \E p \in PageNumbers : w = [page |-> p, mapping |-> c.stamps \cap LinesOf(p) # {}]
    <3> PICK p \in PageNumbers :
            w = [page |-> p, mapping |-> c.stamps \cap LinesOf(p) # {}]
      BY <2>2
    <3>1. w.page = p
      OBVIOUS
    <3>2. ~w.mapping => c.stamps \cap LinesOf(p) = {}
      BY Zenon
    <3> QED BY <1>3, <3>1, <3>2 DEF Window
  <2> QED BY <2>1, <2>2
<1> QED BY <1>3, <1>4, <1>5 DEF Good, d

LEMMA FlushIsGood ==
  ASSUME NEW c, NEW m, NEW u, Good(c, m, u)
  PROVE  Good(Flushed(c), m, u)
<1> DEFINE b == breakLinks(c)
<1>1. c \in Caches /\ Traces(c, m, u) /\ Window(c)
  BY DEF Good
<1>2. /\ b \in Caches /\ b.stamps = c.stamps /\ b.window = c.window
      /\ \A e \in Lines : b.entries[e] # NoEntry => b.entries[e] = c.entries[e] /\ ~InRing(c, e)
  BY <1>1, LinksBroken
<1> HIDE DEF b
<1>3. Traces(b, m, u)
  BY <1>1, <1>2 DEF Traces, Findable, Covered
<1>4. Good(b, m, u)
  BY <1>1, <1>2, <1>3 DEF Good, Window
<1> QED BY <1>4, WindowMoves DEF Flushed, b

-----------------------------------------------------------------------------
(* A fetch *)

Trace(l, ls) == [at |-> l, lines |-> ls, instr |-> Decoded(l)]

LEMMA InstructionFits ==
  ASSUME mem \in [Lines -> Contents], NEW l \in Lines, ~FetchFaults(l)
  PROVE  EndOf(l) \in Lines /\ l <= EndOf(l)
<1>1. l \in Nat /\ l < Pages * LinesPerPage
  BY SizesAssumption DEF Lines
<1>2. CASE mem[l] # "long"
  BY <1>1, <1>2 DEF EndOf
<1>3. CASE mem[l] = "long"
  <2>1. SUFFICES l # Pages * LinesPerPage - 1
    BY <1>1, <1>3, SizesAssumption DEF EndOf, Lines
  <2>2. SUFFICES ASSUME l = Pages * LinesPerPage - 1 PROVE FALSE
    OBVIOUS
  <2>3. (Pages - 1) * LinesPerPage = Pages * LinesPerPage - LinesPerPage
        /\ (Pages - 1) * LinesPerPage \in Nat
    BY SizesAssumption
  <2>4. l = LastOf(Pages - 1) /\ First(Pages - 1) <= l
    BY <1>1, <2>2, <2>3, SizesAssumption DEF LastOf, First
  <2>5. PageOf(l) = Pages - 1
    BY <1>1, <2>4, PageIsUnique, SizesAssumption
  <2> QED BY <1>3, <2>4, <2>5 DEF FetchFaults, Splits
<1> QED BY <1>2, <1>3

\* What is decoded now is right now, and sits where the mode has it looked for.
LEMMA DecodedIsRight ==
  ASSUME Rest, NEW u, NEW l \in Lines, ~FetchFaults(l),
         NEW ls \in SUBSET Lines, ls \subseteq l..LastOf(PageOf(l))
  PROVE  /\ Trace(l, ls) \in Entries
         /\ Placed(Trace(l, ls), hash(l, mode))
         /\ UpToDate(Trace(l, ls), mem, u)
         /\ DOMAIN Trace(l, ls).instr.bytes = l..EndOf(l)
<1>1. EndOf(l) \in Lines /\ l <= EndOf(l) /\ l \in Nat /\ mem \in [Lines -> Contents] /\ mode \in Modes
  BY InstructionFits, SizesAssumption DEF Rest, Lines
<1>2. l..EndOf(l) \subseteq Lines /\ l \in l..EndOf(l)
  BY <1>1, SizesAssumption DEF Lines
<1> DEFINE bytes == [k \in l..EndOf(l) |-> mem[k]]
           x == Trace(l, ls)
<1>3. bytes \in [l..EndOf(l) -> Contents]
  BY <1>1, <1>2
<1>4. bytes \in UNION {[D -> Contents] : D \in SUBSET Lines}
  BY <1>2, <1>3
<1>5. DOMAIN bytes = l..EndOf(l) /\ bytes[l] = mem[l] /\ \A k \in l..EndOf(l) : bytes[k] = mem[k]
  BY <1>2
<1> HIDE DEF bytes
<1>6. x = [at |-> l, lines |-> ls, instr |-> [bytes |-> bytes, boundTo |-> mode]]
  BY DEF bytes, Trace, Decoded
<1>7. x.at = l /\ x.lines = ls /\ x.instr.bytes = bytes /\ x.instr.boundTo = mode
  BY <1>6
<1>8. x \in Entries
  <2>1. [bytes |-> bytes, boundTo |-> mode] \in Decodings
    BY <1>1, <1>4 DEF Decodings
  <2> QED BY <1>6, <2>1 DEF Entries
<1> HIDE DEF x
<1>9. Placed(x, hash(l, mode))
  BY <1>5, <1>7 DEF Placed, EndOf
<1>10. UpToDate(x, mem, u)
  BY <1>5, <1>7 DEF UpToDate
<1> QED BY <1>5, <1>7, <1>8, <1>9, <1>10 DEF x

\* A new trace beside those that are left.
LEMMA TraceAdded ==
  ASSUME NEW c, NEW u, Good(c, mem, u), NEW d \in Caches,
         NEW h \in Lines, NEW x \in Entries,
         Placed(x, h), UpToDate(x, mem, u),
         x.lines \cup DOMAIN x.instr.bytes \subseteq d.stamps,
         DOMAIN x.instr.bytes \subseteq x.lines \/ InRing(d, h) \/ d.entries[h] = NoEntry,
         c.stamps \subseteq d.stamps,
         \A e \in Lines : d.entries[e] # NoEntry =>
           \/ e = h /\ d.entries[e] = x
           \/ d.entries[e] = c.entries[e] /\ (InRing(c, e) => InRing(d, e))
  PROVE  Traces(d, mem, u)
<1>1. Traces(c, mem, u)
  BY DEF Good
<1>2. ASSUME NEW e \in Lines, d.entries[e] # NoEntry
      PROVE  /\ Placed(d.entries[e], e) /\ Findable(d, e) /\ Covered(d, e)
             /\ UpToDate(d.entries[e], mem, u)
  <2>1. CASE e = h /\ d.entries[e] = x
    BY <1>2, <2>1 DEF Findable, Covered
  <2>2. CASE d.entries[e] = c.entries[e] /\ (InRing(c, e) => InRing(d, e))
    <3>1. /\ Placed(c.entries[e], e) /\ Findable(c, e) /\ Covered(c, e)
          /\ UpToDate(c.entries[e], mem, u)
      BY <1>1, <1>2, <2>2 DEF Traces
    <3> QED BY <2>2, <3>1 DEF Findable, Covered
  <2> QED BY <1>2, <2>1, <2>2
<1> QED BY <1>2 DEF Traces

LEMMA WindowAfterMissIsWindow ==
  ASSUME NEW c \in Caches, NEW l
  PROVE  /\ WindowAfterMiss(c, l) \in Windows
         /\ WindowAfterMiss(c, l) # NoWindow =>
              WindowAfterMiss(c, l) = c.window /\ c.window.page # PageOf(l)
BY DEF WindowAfterMiss, Caches, Windows, NoWindow

LEMMA NothingBuilt ==
  ASSUME Rest, NEW c, NEW u, Good(c, mem, u), NEW l \in Lines
  PROVE  Good(BuildNothing(c, l), mem, u)
<1> DEFINE h == hash(l, mode)
           w == WindowAfterMiss(c, l)
           es == [c.entries EXCEPT ![h] = NoEntry]
           d == BuildNothing(c, l)
<1>1. h \in Lines /\ c \in Caches /\ Traces(c, mem, u) /\ Window(c) /\ w \in Windows
  BY HashStays, WindowAfterMissIsWindow DEF Rest, Good
<1>2. es \in [Lines -> Entries \cup {NoEntry}] /\ \A e \in Lines : es[e] # NoEntry => es[e] = c.entries[e]
  BY <1>1 DEF Caches
<1>3. w # NoWindow => w = c.window
  BY <1>1, WindowAfterMissIsWindow
<1>4. d = [c EXCEPT !.entries = es, !.window = w]
  BY <1>1 DEF BuildNothing, Caches
<1> HIDE DEF w, es, d
<1>5. d \in Caches /\ d.entries = es /\ d.window = w /\ d.stamps = c.stamps /\ d.split = c.split
  BY <1>1, <1>2, <1>4 DEF Caches
<1>6. Traces(d, mem, u)
  BY <1>1, <1>2, <1>5 DEF Traces, Findable, InRing, Covered
<1>7. Window(d)
  BY <1>1, <1>3, <1>5 DEF Window
<1> QED BY <1>5, <1>6, <1>7 DEF Good, d

LEMMA TraceBuilt ==
  ASSUME Rest, NEW c, NEW u, Good(c, mem, u), NEW l \in Lines,
         ~FetchFaults(l), ~Splits(l), NEW last \in EndOf(l)..LastOf(PageOf(l))
  PROVE  Good(BuildTrace(c, l, last), mem, u)
<1> DEFINE h == hash(l, mode)
           w == WindowAfterMiss(c, l)
           x == Trace(l, l..last)
           es == [c.entries EXCEPT ![h] = x]
           d == BuildTrace(c, l, last)
<1>1. h \in Lines /\ c \in Caches /\ Window(c) /\ w \in Windows
  BY HashStays, WindowAfterMissIsWindow DEF Rest, Good
<1>2. l..last \in SUBSET Lines /\ l..last \subseteq LinesOf(PageOf(l))
      /\ l..last \subseteq l..LastOf(PageOf(l)) /\ l..EndOf(l) \subseteq l..last
  <2>1. /\ l \in Nat /\ EndOf(l) \in Nat /\ LastOf(PageOf(l)) \in Nat /\ l <= EndOf(l)
        /\ First(PageOf(l)) \in Nat /\ First(PageOf(l)) <= l
        /\ LinesOf(PageOf(l)) \subseteq Lines
    BY InstructionFits, LinesHavePages, PageBounds DEF Rest
  <2>2. l..last \subseteq LinesOf(PageOf(l))
    BY <2>1 DEF LinesOf
  <2> QED BY <2>1, <2>2
<1>3. /\ x \in Entries /\ Placed(x, h) /\ UpToDate(x, mem, u)
      /\ x.lines = l..last /\ DOMAIN x.instr.bytes \subseteq x.lines
  <2>1. x.lines = l..last
    BY DEF Trace
  <2> QED BY <1>2, <2>1, DecodedIsRight
<1> HIDE DEF x
<1>4. es \in [Lines -> Entries \cup {NoEntry}]
      /\ \A e \in Lines : es[e] = IF e = h THEN x ELSE c.entries[e]
  BY <1>1, <1>3 DEF Caches
<1>5. d = [c EXCEPT !.entries = es, !.stamps = c.stamps \cup l..last, !.window = w]
  BY <1>1 DEF BuildTrace, Stamped, Caches, x, Trace
<1>6. w # NoWindow => w = c.window /\ c.window.page # PageOf(l)
  BY <1>1, WindowAfterMissIsWindow
<1> HIDE DEF w, es, d, h
<1>7. d \in Caches /\ d.entries = es /\ d.window = w /\ d.stamps = c.stamps \cup l..last
      /\ d.split = c.split
  BY <1>1, <1>2, <1>4, <1>5 DEF Caches
<1>8. Traces(d, mem, u)
  <2>1. \A e \in Lines : d.entries[e] # NoEntry =>
          \/ e = h /\ d.entries[e] = x
          \/ d.entries[e] = c.entries[e] /\ (InRing(c, e) => InRing(d, e))
    BY <1>4, <1>7 DEF InRing
  <2>2. x.lines \cup DOMAIN x.instr.bytes \subseteq d.stamps /\ c.stamps \subseteq d.stamps
    BY <1>3, <1>7
  <2>3. d \in Caches /\ h \in Lines /\ x \in Entries /\ Placed(x, h) /\ UpToDate(x, mem, u)
    BY <1>1, <1>3, <1>7
  <2>4. DOMAIN x.instr.bytes \subseteq x.lines \/ InRing(d, h) \/ d.entries[h] = NoEntry
    BY <1>3
  <2> QED BY <2>1, <2>2, <2>3, <2>4, TraceAdded, ZenonT(60)
<1>9. Window(d)
  <2>1. ASSUME w # NoWindow, ~w.mapping
        PROVE  d.stamps \cap LinesOf(w.page) \subseteq {First(w.page)}
    <3>1. /\ w = c.window /\ w.page # PageOf(l)
          /\ c.stamps \cap LinesOf(w.page) \subseteq {First(w.page)}
      BY <1>1, <1>6, <2>1 DEF Window
    <3>2. w.page \in PageNumbers
      BY <1>1, <2>1, <1>6, SizesAssumption DEF Windows, Window
    <3>3. LinesOf(w.page) \cap LinesOf(PageOf(l)) = {}
      BY <3>1, <3>2, PagesAreApart, LinesHavePages
    <3> QED BY <1>2, <1>7, <3>1, <3>3
  <2> QED BY <1>7, <2>1 DEF Window
<1> QED BY <1>7, <1>8, <1>9 DEF Good, d

\* A page-split trace starts on the last line of its page.
LEMMA SplitEnds ==
  ASSUME Rest, NEW l \in Lines, ~FetchFaults(l), Splits(l)
  PROVE  /\ EndOf(l) = l + 1 /\ l + 1 \in Lines /\ PageOf(l + 1) \in Nat
         /\ {l} \subseteq l..LastOf(PageOf(l)) /\ l..EndOf(l) = {l, l + 1}
         /\ l \in LinesOf(PageOf(l))
         /\ \A p \in PageNumbers : l + 1 \in LinesOf(p) => l + 1 = First(p)
<1>1. EndOf(l) = l + 1 /\ EndOf(l) \in Lines /\ l \in Nat /\ l = LastOf(PageOf(l))
      /\ PageOf(l) \in Nat /\ First(PageOf(l)) <= l /\ First(PageOf(l)) \in Nat
  BY InstructionFits, LinesHavePages, PageBounds DEF Splits, EndOf, Rest
<1>2. l + 1 = First(PageOf(l) + 1)
  BY <1>1, SizesAssumption DEF LastOf, First
<1>3. ASSUME NEW p \in PageNumbers, l + 1 \in LinesOf(p)
      PROVE  l + 1 = First(p)
  <2>1. p \in Nat /\ First(p) <= l + 1 /\ l + 1 <= LastOf(p)
    BY <1>1, <1>3, SizesAssumption DEF PageNumbers, LinesOf, First, LastOf
  <2>2. First(PageOf(l) + 1) <= l + 1 /\ l + 1 <= LastOf(PageOf(l) + 1)
    BY <1>1, <1>2, SizesAssumption DEF LastOf, First
  <2>3. p = PageOf(l + 1) /\ PageOf(l) + 1 = PageOf(l + 1)
    BY <1>1, <2>1, <2>2, PageIsUnique
  <2> QED BY <1>2, <2>3
<1>4. l + 1 \in Lines /\ PageOf(l + 1) \in Nat
  BY <1>1, PageBounds
<1>5. {l} \subseteq l..LastOf(PageOf(l)) /\ l..EndOf(l) = {l, l + 1} /\ l \in LinesOf(PageOf(l))
  BY <1>1 DEF LinesOf
<1> QED BY <1>1, <1>3, <1>4, <1>5

LEMMA SplitTraceBuilt ==
  ASSUME Rest, NEW c, NEW u, Good(c, mem, u), NEW l \in Lines, ~FetchFaults(l), Splits(l)
  PROVE  Good(BuildSplitTrace(c, l), mem, u)
<1> DEFINE h == hash(l, mode)
           w == WindowAfterMiss(c, l)
           x == Trace(l, {l})
           slot == [ppf |-> PageOf(l + 1), e |-> h]
           old == c.split[c.next]
           built == [c.entries EXCEPT ![h] = x]
           es == IF old = NoSplit THEN built ELSE [built EXCEPT ![old.e] = NoEntry]
           ring == [c.split EXCEPT ![c.next] = slot]
           d == BuildSplitTrace(c, l)
<1>1. h \in Lines /\ c \in Caches /\ Window(c) /\ w \in Windows
  BY HashStays, WindowAfterMissIsWindow DEF Rest, Good
<1>2. /\ x \in Entries /\ Placed(x, h) /\ UpToDate(x, mem, u)
      /\ x.lines = {l} /\ DOMAIN x.instr.bytes = {l, l + 1} /\ l + 1 \in Lines
  <2>1. x.lines = {l}
    BY DEF Trace
  <2> QED BY <2>1, DecodedIsRight, SplitEnds
<1>3. slot \in Remembered /\ slot # NoSplit /\ slot.e = h
  BY <1>1, SplitEnds DEF Remembered, NoSplit
<1>4. d = [entries |-> es, stamps |-> c.stamps \cup {l, l + 1}, split |-> ring,
           next |-> RingNext(c.next), window |-> w]
  BY DEF BuildSplitTrace, StampedSplit, Trace
<1>5. w # NoWindow => w = c.window /\ c.window.page # PageOf(l)
  BY <1>1, WindowAfterMissIsWindow
<1> HIDE DEF w, d, h, x, slot
<1>6. /\ c.split \in [0..(SplitEntries - 1) -> Remembered \cup {NoSplit}]
      /\ c.next \in 0..(SplitEntries - 1)
      /\ c.entries \in [Lines -> Entries \cup {NoEntry}] /\ c.stamps \subseteq Lines
  BY <1>1 DEF Caches
<1>7. es \in [Lines -> Entries \cup {NoEntry}]
      /\ \A e \in Lines : es[e] # NoEntry =>
           /\ es[e] = IF e = h THEN x ELSE c.entries[e]
           /\ old # NoSplit => e # old.e
  <2>1. built \in [Lines -> Entries \cup {NoEntry}]
        /\ \A e \in Lines : built[e] = IF e = h THEN x ELSE c.entries[e]
    BY <1>1, <1>2, <1>6
  <2> HIDE DEF built
  <2>2. CASE old = NoSplit
    BY <2>1, <2>2
  <2>3. CASE old # NoSplit
    <3>1. old.e \in Lines
      BY <1>6, <2>3 DEF Remembered
    <3> QED BY <2>1, <2>3, <3>1
  <2> QED BY <2>2, <2>3
<1>8. ring \in [0..(SplitEntries - 1) -> Remembered \cup {NoSplit}]
      /\ \A k \in DOMAIN c.split : ring[k] = IF k = c.next THEN slot ELSE c.split[k]
  BY <1>3, <1>6
<1>9. RingNext(c.next) \in 0..(SplitEntries - 1)
  BY <1>6, SizesAssumption DEF RingNext
<1> HIDE DEF es, ring
<1>10. /\ d \in Caches /\ d.entries = es /\ d.split = ring /\ d.window = w
       /\ d.stamps = c.stamps \cup {l, l + 1}
  BY <1>1, <1>2, <1>4, <1>6, <1>7, <1>8, <1>9 DEF Caches
<1>11. InRing(d, h)
  BY <1>3, <1>6, <1>8, <1>10 DEF InRing
<1>12. Traces(d, mem, u)
  <2>1. ASSUME NEW e \in Lines, d.entries[e] # NoEntry
        PROVE  \/ e = h /\ d.entries[e] = x
               \/ d.entries[e] = c.entries[e] /\ (InRing(c, e) => InRing(d, e))
    <3>1. CASE e = h
      BY <1>7, <1>10, <2>1, <3>1
    <3>2. CASE e # h
      <4>1. d.entries[e] = c.entries[e] /\ (old # NoSplit => e # old.e)
        BY <1>7, <1>10, <2>1, <3>2
      <4>2. ASSUME NEW k \in DOMAIN c.split, c.split[k] # NoSplit, c.split[k].e = e
            PROVE  InRing(d, e)
        <5>1. k # c.next
          BY <4>1, <4>2
        <5> QED BY <1>6, <1>8, <1>10, <4>2, <5>1 DEF InRing
      <4> QED BY <4>1, <4>2 DEF InRing
    <3> QED BY <3>1, <3>2
  <2>2. x.lines \cup DOMAIN x.instr.bytes \subseteq d.stamps /\ c.stamps \subseteq d.stamps
    BY <1>2, <1>10
  <2>3. d \in Caches /\ h \in Lines /\ x \in Entries /\ Placed(x, h) /\ UpToDate(x, mem, u)
    BY <1>1, <1>2, <1>10
  <2>4. DOMAIN x.instr.bytes \subseteq x.lines \/ InRing(d, h) \/ d.entries[h] = NoEntry
    BY <1>11
  <2> QED BY <2>1, <2>2, <2>3, <2>4, TraceAdded, ZenonT(60)
<1>13. Window(d)
  <2>1. ASSUME w # NoWindow, ~w.mapping
        PROVE  d.stamps \cap LinesOf(w.page) \subseteq {First(w.page)}
    <3>1. /\ w = c.window /\ w.page # PageOf(l)
          /\ c.stamps \cap LinesOf(w.page) \subseteq {First(w.page)}
      BY <1>1, <1>5, <2>1 DEF Window
    <3>2. w.page \in PageNumbers
      BY <1>1, <2>1 DEF Windows
    <3>3. l \notin LinesOf(w.page)
      BY <3>1, <3>2, PagesAreApart, LinesHavePages, SplitEnds
    <3>4. l + 1 \in LinesOf(w.page) => l + 1 = First(w.page)
      BY <3>2, SplitEnds
    <3> QED BY <1>10, <3>1, <3>3, <3>4
  <2> QED BY <1>10, <2>1 DEF Window
<1> QED BY <1>10, <1>12, <1>13 DEF Good, d

\* Whatever is fetched, the cache is as good afterwards as before.
LEMMA FetchIsGood ==
  ASSUME Rest, NEW c, NEW u, Good(c, mem, u), NEW l \in Lines, NEW d \in Fetches(c, l)
  PROVE  Good(d, mem, u)
<1>1. CASE Hit(c, l)
  BY <1>1 DEF Fetches
<1>2. CASE ~Hit(c, l) /\ FetchFaults(l)
  BY <1>2, NothingBuilt DEF Fetches
<1>3. CASE ~Hit(c, l) /\ ~FetchFaults(l) /\ Splits(l)
  BY <1>3, SplitTraceBuilt DEF Fetches
<1>4. CASE ~Hit(c, l) /\ ~FetchFaults(l) /\ ~Splits(l)
  BY <1>4, TraceBuilt DEF Fetches
<1> QED BY <1>1, <1>2, <1>3, <1>4

-----------------------------------------------------------------------------
(* The steps *)

LEMMA WriteTypes ==
  ASSUME Rest, NEW ls, NEW v \in Contents, Written(ls, v)
  PROVE  /\ mem' \in [Lines -> Contents] /\ writes' \in 0..MaxWrites
         /\ mem' = [l \in Lines |-> IF l \in ls THEN v ELSE mem[l]]
BY SizesAssumption DEF Rest, Written

\* Stores through the TLB, of either kind.
LEMMA StorePreserves ==
  ASSUME Rest, NEW c, Good(c, mem, unstamped), NEW t \in Lines, NEW v \in Contents,
         StoreFast(c, t, v) \/ StoreSlow(c, t, v)
  PROVE  DInv'
<1> USE DEF StoreFast, StoreSlow
<1>1. /\ mem' \in [Lines -> Contents] /\ writes' \in 0..MaxWrites
      /\ mem' = [l \in Lines |-> IF l \in {t} THEN v ELSE mem[l]]
      /\ PageOf(t) \in PageNumbers
  BY WriteTypes, LinesHavePages
<1>2. Rest'
  BY <1>1 DEF Rest
<1>3. CASE StoreFast(c, t, v)
  BY <1>1, <1>2, <1>3, StampedWrite DEF DInv
<1>4. CASE StoreSlow(c, t, v)
  BY <1>1, <1>2, <1>4, UnstampedByte DEF DInv
<1> QED BY <1>3, <1>4

LEMMA StoreAcrossPreserves ==
  ASSUME Rest, NEW c, Good(c, mem, unstamped), NEW p \in PageNumbers, NEW v \in Contents,
         StoreAcross(c, p, v)
  PROVE  DInv'
<1> DEFINE ls == {LastOf(p), First(p + 1)}
<1>1. /\ mem' \in [Lines -> Contents] /\ writes' \in 0..MaxWrites
      /\ mem' = [l \in Lines |-> IF l \in ls THEN v ELSE mem[l]]
  BY WriteTypes DEF StoreAcross
<1>2. ls \subseteq Lines
  <2>1. p \in Nat /\ p + 1 \in Nat /\ p + 1 < Pages
    BY SizesAssumption DEF StoreAcross, PageNumbers
  <2>2. (p + 1) * LinesPerPage + LinesPerPage <= Pages * LinesPerPage
    BY <2>1, SizesAssumption
  <2>3. (p + 1) * LinesPerPage = p * LinesPerPage + LinesPerPage /\ p * LinesPerPage \in Nat
    BY <2>1, SizesAssumption
  <2> QED BY <2>1, <2>2, <2>3, SizesAssumption DEF Lines, LastOf, First
<1>3. Rest'
  BY <1>1, <1>2 DEF Rest, StoreAcross
<1>4. PICK d : cache' = d /\ d \in {c, [c EXCEPT !.window = NoWindow]}
  BY DEF StoreAcross
<1>5. Good(d, mem, unstamped)
  BY <1>4, WindowMoves
<1>6. unstamped \cup (ls \cap d.stamps) \subseteq unstamped'
  BY DEF StoreAcross
<1>7. Good(d, mem', unstamped')
  <2> HIDE DEF ls
  <2> QED BY <1>1, <1>5, <1>6, UnstampedWrite, ZenonT(60)
<1> QED BY <1>3, <1>4, <1>7 DEF DInv

LEMMA WindowIsGood ==
  ASSUME NEW c, NEW m, NEW u, Good(c, m, u), NEW p \in PageNumbers
  PROVE  /\ Good([c EXCEPT !.window = StackWindow(c, p)], m, u)
         /\ [c EXCEPT !.window = StackWindow(c, p)].stamps = c.stamps
         /\ [c EXCEPT !.window = StackWindow(c, p)].window = StackWindow(c, p)
<1>1. \/ StackWindow(c, p) = c.window \/ StackWindow(c, p) = NoWindow
      \/ StackWindow(c, p) = [page |-> p, mapping |-> c.stamps \cap LinesOf(p) # {}]
  BY DEF StackWindow
<1> QED BY <1>1, WindowMoves DEF Good, Caches

\* Pushes, with the stack cache or without.
LEMMA PushPreserves ==
  ASSUME Rest, NEW c, Good(c, mem, unstamped), NEW t \in Lines, NEW v \in Contents,
         PushCached(c, t, v) \/ PushSlow(c, t, v)
  PROVE  DInv'
<1>1. CASE PushCached(c, t, v)
  <2> DEFINE w == StackWindow(c, PageOf(t))
             d == [c EXCEPT !.window = w]
  <2>1. Good(d, mem, unstamped) /\ d.stamps = c.stamps
    BY WindowIsGood, LinesHavePages
  <2>2. /\ mem' \in [Lines -> Contents] /\ writes' \in 0..MaxWrites
        /\ mem' = [l \in Lines |-> IF l \in {t} THEN v ELSE mem[l]]
    BY <1>1, WriteTypes DEF PushCached
  <2>3. Rest'
    BY <1>1, <2>2 DEF Rest, PushCached
  <2> HIDE DEF d
  <2>4. CASE w.mapping
    <3>1. cache' = decWriteStamp(d, t) /\ unstamped' = unstamped \ {t}
      BY <1>1, <2>4 DEF PushCached, d
    <3> QED BY <2>1, <2>2, <2>3, <3>1, StampedWrite DEF DInv
  <2>5. CASE ~w.mapping
    <3>1. cache' = d /\ unstamped' = unstamped \cup ({t} \cap d.stamps)
      BY <1>1, <2>1, <2>5 DEF PushCached, d
    <3> QED BY <2>1, <2>2, <2>3, <3>1, UnstampedByte DEF DInv
  <2> QED BY <2>4, <2>5
<1>2. CASE PushSlow(c, t, v)
  <2> DEFINE d == [c EXCEPT !.window = NoWindow]
  <2>1. Good(d, mem, unstamped)
    BY WindowMoves
  <2>2. StoreSlow(d, t, v)
    BY <1>2 DEF PushSlow
  <2> HIDE DEF d
  <2> QED BY <2>1, <2>2, StorePreserves
<1> QED BY <1>1, <1>2

LEMMA ExecutePreserves ==
  ASSUME Rest, NEW c, Good(c, mem, unstamped), Executes(c)
  PROVE  DInv'
<1>1. CASE Plain(c) \/ FlushTLB(c) \/ SwitchMode(c)
  <2>1. Rest'
    BY <1>1 DEF Rest, Plain, FlushTLB, SwitchMode, Modes
  <2>2. Good(Flushed(c), mem, unstamped)
    BY FlushIsGood
  <2> QED BY <1>1, <2>1, <2>2 DEF DInv, Plain, FlushTLB, SwitchMode
<1>2. CASE \E t \in Lines, v \in Contents : StoreFast(c, t, v) \/ StoreSlow(c, t, v)
  BY <1>2, StorePreserves
<1>3. CASE \E p \in PageNumbers, v \in Contents : StoreAcross(c, p, v)
  BY <1>3, StoreAcrossPreserves
<1>4. CASE \E t \in Lines, v \in Contents : PushCached(c, t, v) \/ PushSlow(c, t, v)
  BY <1>4, PushPreserves
<1>5. CASE \E p \in PageNumbers : Pop(c, p) \/ LoadEvicts(c, p)
  <2> PICK p \in PageNumbers : Pop(c, p) \/ LoadEvicts(c, p)
    BY <1>5
  <2>1. Rest'
    BY DEF Rest, Pop, LoadEvicts
  <2>2. Good([c EXCEPT !.window = StackWindow(c, p)], mem, unstamped)
    BY WindowIsGood
  <2> QED BY <2>1, <2>2 DEF DInv, Pop, LoadEvicts
<1> QED BY <1>1, <1>2, <1>3, <1>4, <1>5 DEF Executes

LEMMA StepPreserves == DInv /\ [Next]_vars => DInv'
<1> SUFFICES ASSUME DInv, [Next]_vars PROVE DInv'
  OBVIOUS
<1>1. ASSUME NEW l \in Lines, NEW v \in Contents, HostWrite(l, v) PROVE DInv'
  <2>1. /\ mem' \in [Lines -> Contents] /\ writes' \in 0..MaxWrites
        /\ mem' = [k \in Lines |-> IF k \in {l} THEN v ELSE mem[k]]
    BY <1>1, WriteTypes DEF HostWrite, DInv
  <2>2. Rest'
    BY <1>1, <2>1 DEF Rest, HostWrite, DInv
  <2> QED BY <1>1, <2>1, <2>2, StampedWrite DEF HostWrite, invalidate_decoded, DInv
<1>2. CASE set_cr
  BY <1>2, FlushIsGood DEF set_cr, DInv, Rest
<1>3. CASE Renew
  <2>1. Rest'
    BY <1>3, SizesAssumption DEF Renew, Rest, Contents, Modes
  <2> QED BY <1>3, <2>1, EmptyIsGood DEF Renew, DInv
<1>4. ASSUME NEW l \in Lines, Step(l) PROVE DInv'
  <2>1. PICK c \in Fetches(cache, l) : Executes(c)
    BY <1>4 DEF Step, Executes
  <2>2. Good(c, mem, unstamped)
    BY FetchIsGood DEF DInv
  <2> QED BY <2>1, <2>2, ExecutePreserves DEF DInv
<1>5. CASE UNCHANGED vars
  BY <1>5 DEF vars, DInv, Rest
<1> QED BY <1>1, <1>2, <1>3, <1>4, <1>5 DEF Next

-----------------------------------------------------------------------------
(* The theorems *)

LEMMA InitEstablishes == Init => DInv
<1> SUFFICES ASSUME Init PROVE DInv
  OBVIOUS
<1>1. Rest
  BY SizesAssumption DEF Init, Rest, Contents, Modes
<1> QED BY <1>1, EmptyIsGood DEF Init, DInv

\* The traces, their stamps and the stack cache are in order in every state, for
\* any memory size and any number of remembered page-split traces.
THEOREM CacheInvariant == Spec => []DInv
BY InitEstablishes, StepPreserves, PTL DEF Spec

\* Types; nextPageSplitIndex stays in the ring.
THEOREM CacheTypeOK == Spec => []TypeOK
<1>1. DInv => TypeOK
  <2> SUFFICES ASSUME DInv PROVE TypeOK
    OBVIOUS
  <2>1. cache \in Caches /\ Rest
    BY DEF DInv, Good
  <2>2. cache.window.page \in PageNumbers \cup {-1}
    BY <2>1 DEF Caches, Windows, NoWindow
  <2> QED BY <2>1, <2>2 DEF Caches, Rest, TypeOK
<1> QED BY <1>1, CacheInvariant, PTL

\* markICacheMask stamps every line a trace was decoded from, and no walk, link
\* break or eviction takes the stamp away and leaves the trace.
THEOREM TracesAreStamped == Spec => []StampsCoverTraces
<1>1. DInv => StampsCoverTraces
  BY DEF DInv, Good, Traces, Covered, StampsCoverTraces
<1> QED BY <1>1, CacheInvariant, PTL

\* serveICacheMiss keeps code off the page whose pushes no longer stamp.
THEOREM StackPageIsPlain == Spec => []StackPageHoldsNoCode
<1>1. DInv => StackPageHoldsNoCode
  BY DEF DInv, Good, Window, StackPageHoldsNoCode
<1> QED BY <1>1, CacheInvariant, PTL

\* A hit on an up-to-date trace executes what memory holds, in the current mode.
LEMMA HitIsCurrent ==
  ASSUME DInv, NEW l \in Lines, Hit(cache, l), {l, l + 1} \cap unstamped = {}
  PROVE  ~FetchFaults(l) /\ Executed(l) = Decoded(l)
<1> DEFINE e == hash(l, mode)
           x == cache.entries[e]
           bytes == x.instr.bytes
<1>1. e \in Lines /\ mode \in Modes /\ mem \in [Lines -> Contents] /\ cache \in Caches /\ l \in Nat
  BY HashStays, LinesHavePages DEF DInv, Rest, Good
<1>2. x.at = l /\ x # NoEntry
  BY <1>1, LinesHavePages DEF Hit, find_entry, NoEntry
<1>3. x \in Entries /\ Placed(x, e) /\ UpToDate(x, mem, unstamped)
      /\ DOMAIN bytes \subseteq Lines
  BY <1>1, <1>2 DEF DInv, Good, Traces, Covered, Caches
<1>4. x.instr.boundTo = mode
  BY <1>1, <1>2, <1>3, HashTellsModes DEF Placed, Entries, Decodings
<1>5. l \in DOMAIN bytes /\ DOMAIN bytes = l..(IF bytes[l] = "long" THEN l + 1 ELSE l)
  BY <1>1, <1>2, <1>3 DEF Placed
<1>6. bytes[l] = mem[l]
  BY <1>3, <1>5 DEF UpToDate
<1>7. DOMAIN bytes = l..EndOf(l) /\ DOMAIN bytes \subseteq {l, l + 1}
  BY <1>1, <1>5, <1>6 DEF EndOf
<1>8. \A k \in DOMAIN bytes : bytes[k] = mem[k]
  BY <1>3, <1>7 DEF UpToDate
<1>9. bytes = [k \in l..EndOf(l) |-> mem[k]]
  <2>1. PICK D \in SUBSET Lines : bytes \in [D -> Contents]
    BY <1>3 DEF Entries, Decodings
  <2> QED BY <1>7, <1>8, <2>1
<1>10. x.instr = Decoded(l)
  BY <1>3, <1>4, <1>9 DEF Entries, Decodings, Decoded
<1>11. ~FetchFaults(l)
  <2> SUFFICES ASSUME FetchFaults(l) PROVE FALSE
    OBVIOUS
  <2>1. l + 1 \in Lines
    BY <1>1, <1>3, <1>7 DEF FetchFaults, Splits, EndOf
  <2>2. l = Pages * LinesPerPage - 1
    <3>1. (Pages - 1) * LinesPerPage = Pages * LinesPerPage - LinesPerPage
      BY SizesAssumption
    <3> QED BY <1>1, <3>1, SizesAssumption DEF FetchFaults, LastOf, First
  <2> QED BY <1>1, <2>1, <2>2, SizesAssumption DEF Lines
<1> QED BY <1>10, <1>11 DEF Executed, find_entry

\* invalidate_decoded: a host write is always seen by the next step, in whatever
\* mode the bytes were decoded and across whatever pages they lie; only a store
\* that went behind the stamps' back can leave a stale instruction.
THEOREM HostWritesSeen == Spec => []HostWritesAreSeen
<1>1. DInv => HostWritesAreSeen
  <2> SUFFICES ASSUME DInv, NEW l \in Lines, {l, l + 1} \cap unstamped = {},
                      Hit(cache, l) \/ ~FetchFaults(l)
               PROVE  ~FetchFaults(l) /\ Executed(l) = Decoded(l)
    BY DEF HostWritesAreSeen, Current
  <2>1. CASE Hit(cache, l)
    BY <2>1, HitIsCurrent
  <2>2. CASE ~Hit(cache, l)
    BY <2>2 DEF Executed
  <2> QED BY <2>1, <2>2
<1> QED BY <1>1, CacheInvariant, PTL
=============================================================================
