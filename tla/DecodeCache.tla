---------------------------- MODULE DecodeCache ----------------------------
(***************************************************************************)
(* The cache of decoded instructions of the Bochs core (vendor/bochs/cpu/   *)
(* icache.h, icache.cc) and the write stamps that keep it honest, with the  *)
(* three kinds of write that reach memory: the shim's own (invalidate_     *)
(* decoded), guest stores, and guest pushes through the stack cache.        *)
(*                                                                          *)
(* Memory is a row of 128-byte lines, the grain of the stamps; a line holds *)
(* one instruction, short or running on into the next line.  The host API   *)
(* single-steps, so of a trace only the first instruction ever executes;    *)
(* the others are present in the lines the trace is said to cover.          *)
(***************************************************************************)
EXTENDS Integers

CONSTANTS
  Pages,          \* number of pages; the identity map ends after the last
  LinesPerPage,   \* 32 in the code
  SplitEntries,   \* page-split traces remembered (8 in the code)
  MaxWrites       \* bound: writes to memory in the life of one oracle

ASSUME SizesAssumption ==
  /\ Pages \in Nat \ {0} /\ LinesPerPage \in Nat \ {0}
  /\ LinesPerPage % 2 = 0
  /\ SplitEntries \in Nat \ {0} /\ MaxWrites \in Nat

VARIABLES
  mem,        \* what each line holds
  cache,      \* entries, stamps, page-split ring and stack window, see Empty
  dtlb,       \* the pages the data TLB lets the guest write directly
  mode,       \* bit 7 of fetchModeMask: are AMX instructions enabled
  unstamped,  \* history: lines a store has changed behind the stamps' back
  writes      \* writes so far

vars == <<mem, cache, dtlb, mode, unstamped, writes>>

-----------------------------------------------------------------------------
(* Lines and instructions *)

Lines == 0..(Pages * LinesPerPage - 1)
PageNumbers == 0..(Pages - 1)
PageOf(l) == l \div LinesPerPage
First(p) == p * LinesPerPage
LastOf(p) == First(p) + LinesPerPage - 1
LinesOf(p) == First(p)..LastOf(p)

Contents == {"short", "long"}
Modes == {0, 1}

\* The instruction at l runs on into the next page.
Splits(l) == mem[l] = "long" /\ l = LastOf(PageOf(l))

\* boundaryFetch prefetches the next page, and faults if there is none.
FetchFaults(l) == Splits(l) /\ l = LastOf(Pages - 1)

\* The last line of the instruction at l.
EndOf(l) == IF mem[l] = "long" THEN l + 1 ELSE l

\* fetchDecode64 and assignHandler: the bytes, and handlers bound to the mode.
Decoded(l) == [ bytes |-> [k \in l..EndOf(l) |-> mem[k]], boundTo |-> mode ]

-----------------------------------------------------------------------------
(* The cache *)

\* An entry sits at the index of its physical address, exclusive-or
\* fetchModeMask: bit 7 exchanges the lines of an even-odd pair.
hash(l, m) == IF m = 0 THEN l ELSE IF l % 2 = 0 THEN l + 1 ELSE l - 1

NoEntry == [at |-> -1]
NoSplit == [ppf |-> -1]
NoWindow == [page |-> -1, mapping |-> FALSE]

Empty == [ entries |-> [e \in Lines |-> NoEntry],
           stamps  |-> {},                  \* the stamped lines
           split   |-> [k \in 0..(SplitEntries - 1) |-> NoSplit],
           next    |-> 0,                   \* nextPageSplitIndex
           window  |-> NoWindow ]           \* the page of the stack cache, and
                                            \* whether it had stamps when cached

\* What getICacheEntry finds for an instruction at l in the current mode.
find_entry(c, l) == c.entries[hash(l, mode)]
Hit(c, l) == find_entry(c, l).at = l

\* invalidatePageSplitICacheEntries, and every remembered trace with it.
breakLinks(c) ==
  LET remembered == {c.split[k].e : k \in {j \in DOMAIN c.split : c.split[j] # NoSplit}}
  IN  [c EXCEPT !.entries = [e \in Lines |-> IF e \in remembered THEN NoEntry ELSE @[e]],
                !.split = Empty.split,
                !.next = 0]

\* Mutant: the walk stops at the line that was hit, as upstream Bochs has it.
WalkedToHit(p, hit) == {e \in LinesOf(p) : e <= hit}

\* The entries looked through for a write to a line: from the start of the page
\* to the line after it, where the mode may have put the traces of the line.
Walked(p, hit) == {e \in LinesOf(p) : e <= hit + 1}

handleSMC(c, l) ==
  LET b == breakLinks(c)
      stale == {e \in Walked(PageOf(l), l) :
                  /\ b.entries[e] # NoEntry
                  /\ PageOf(b.entries[e].at) = PageOf(l)
                  /\ l \in b.entries[e].lines}
  IN  [b EXCEPT !.entries = [e \in Lines |-> IF e \in stale THEN NoEntry ELSE @[e]]]

\* The stamp of the line, if set, is cleared and the traces go.
decWriteStamp(c, l) ==
  IF l \in c.stamps THEN [handleSMC(c, l) EXCEPT !.stamps = @ \ {l}] ELSE c

\* Mutant: a miss leaves the stack cache alone.
WindowKept(c, l) == c.window

\* serveICacheMiss drops a stack cache of the page the trace starts in.
WindowAfterMiss(c, l) == IF c.window.page = PageOf(l) THEN NoWindow ELSE c.window

\* markICacheMask, for every line of the trace.
Stamped(l, last) == l..last

\* A trace within the page: the instruction at l and any number of those after
\* it, decoded in turn or merged from their own traces, up to line last.
BuildTrace(c, l, last) ==
  [c EXCEPT !.entries[hash(l, mode)] = [at |-> l, lines |-> l..last, instr |-> Decoded(l)],
            !.stamps = @ \cup Stamped(l, last),
            !.window = WindowAfterMiss(c, l)]

\* Mutant: the ring index runs on.
RingOn(k) == k + 1

RingNext(k) == (k + 1) % SplitEntries

\* Mutant: the page the instruction runs on into is not marked.
StampedHere(l) == {l}

\* The last line of the page and, of pAddrFetchPage, the first.
StampedSplit(l) == {l, l + 1}

\* A page-split trace: one instruction, both lines stamped, and remembered at
\* the expense of the trace that had its place in the ring.
BuildSplitTrace(c, l) ==
  LET e == hash(l, mode)
      built == [c.entries EXCEPT ![e] = [at |-> l, lines |-> {l}, instr |-> Decoded(l)]]
      old == c.split[c.next]
  IN  [ entries |-> IF old = NoSplit THEN built ELSE [built EXCEPT ![old.e] = NoEntry],
        stamps  |-> c.stamps \cup StampedSplit(l),
        split   |-> [c.split EXCEPT ![c.next] = [ppf |-> PageOf(l + 1), e |-> e]],
        next    |-> RingNext(c.next),
        window  |-> WindowAfterMiss(c, l) ]

\* boundaryFetch faulted: the entry has been taken, and is left invalid.
BuildNothing(c, l) ==
  [c EXCEPT !.entries[hash(l, mode)] = NoEntry, !.window = WindowAfterMiss(c, l)]

\* The caches after a fetch at l.
Fetches(c, l) ==
  IF Hit(c, l) THEN {c}
  ELSE IF FetchFaults(l) THEN {BuildNothing(c, l)}
  ELSE IF Splits(l) THEN {BuildSplitTrace(c, l)}
  ELSE {BuildTrace(c, l, last) : last \in EndOf(l)..LastOf(PageOf(l))}

-----------------------------------------------------------------------------

Init ==
  /\ mem = [l \in Lines |-> "short"]        \* zeros decode as a short instruction
  /\ cache = Empty
  /\ dtlb = {}
  /\ mode = 1                              \* XCR0 enables the tile state
  /\ unstamped = {} /\ writes = 0

\* The oracle is dropped and another created: memory cleared, and bx_cpu.reset
\* empties cache and stamps; enter_long_mode flushes the TLB.
Renew ==
  /\ mem' = [l \in Lines |-> "short"]
  /\ cache' = Empty
  /\ dtlb' = {}
  /\ mode' = 1
  /\ unstamped' = {} /\ writes' = 0

Written(ls, v) ==
  /\ writes < MaxWrites
  /\ writes' = writes + 1
  /\ mem' = [l \in Lines |-> IF l \in ls THEN v ELSE mem[l]]

invalidate_decoded(l) == decWriteStamp(cache, l)

\* write_mem, one byte at a time, wherever it points: what step_bytes does first.
HostWrite(l, v) ==
  /\ Written({l}, v)
  /\ cache' = invalidate_decoded(l)
  /\ unstamped' = unstamped \ {l}
  /\ UNCHANGED <<dtlb, mode>>

\* TLB_flush: the links between traces, the TLBs and the stack cache go.
Flushed(c) == [breakLinks(c) EXCEPT !.window = NoWindow]

\* set_cr(3) and set_cr(4), and enable_shadow_stack.
set_cr ==
  /\ cache' = Flushed(cache)
  /\ dtlb' = {}
  /\ UNCHANGED <<mem, mode, unstamped, writes>>

-----------------------------------------------------------------------------
(* One step: an instruction is fetched at l, wherever the caller or the       *)
(* program has put RIP, and executes; c is the cache after the fetch.         *)

Plain(c) ==
  /\ cache' = c
  /\ UNCHANGED <<mem, dtlb, mode, unstamped, writes>>

\* The data TLB grants the write: the line is stamped and written directly.
StoreFast(c, t, v) ==
  /\ PageOf(t) \in dtlb
  /\ Written({t}, v)
  /\ cache' = decWriteStamp(c, t)
  /\ unstamped' = unstamped \ {t}
  /\ UNCHANGED <<dtlb, mode>>

\* It does not: access_write_linear walks the page tables, fills the TLB and
\* writes through the shim's writePhysicalPage, which does not stamp.
StoreSlow(c, t, v) ==
  /\ PageOf(t) \notin dtlb
  /\ Written({t}, v)
  /\ cache' = c
  /\ dtlb' = dtlb \cup {PageOf(t)}
  /\ unstamped' = unstamped \cup {t}
  /\ UNCHANGED mode

\* A store across two pages always goes that way, one page after the other; if
\* it is a push, the stack cache is given up.
StoreAcross(c, p, v) ==
  /\ p + 1 \in PageNumbers
  /\ Written({LastOf(p), First(p + 1)}, v)
  /\ cache' \in {c, [c EXCEPT !.window = NoWindow]}
  /\ dtlb' = dtlb \cup {p, p + 1}
  /\ unstamped' = unstamped \cup {LastOf(p), First(p + 1)}
  /\ UNCHANGED mode

\* stackPrefetch: the window moves to the page of the push, if it is writable,
\* and takes down whether the page has stamps now.
StackWindow(c, p) ==
  IF c.window.page = p THEN c.window
  ELSE IF p \in dtlb THEN [page |-> p, mapping |-> c.stamps \cap LinesOf(p) # {}]
  ELSE NoWindow

\* A push through the stack cache stamps only if the page had stamps then.
PushCached(c, t, v) ==
  LET w == StackWindow(c, PageOf(t))
      d == [c EXCEPT !.window = w]
  IN  /\ w # NoWindow
      /\ Written({t}, v)
      /\ cache' = IF w.mapping THEN decWriteStamp(d, t) ELSE d
      /\ unstamped' = IF w.mapping THEN unstamped \ {t} ELSE unstamped \cup ({t} \cap c.stamps)
      /\ UNCHANGED <<dtlb, mode>>

\* Without a window it is an ordinary store, to a page that is not writable yet.
PushSlow(c, t, v) ==
  /\ StackWindow(c, PageOf(t)) = NoWindow
  /\ StoreSlow([c EXCEPT !.window = NoWindow], t, v)

\* A pop only moves the window.
Pop(c, p) ==
  /\ cache' = [c EXCEPT !.window = StackWindow(c, p)]
  /\ UNCHANGED <<mem, dtlb, mode, unstamped, writes>>

\* A load from another page that shares the TLB entry takes the entry over.
LoadEvicts(c, p) ==
  /\ p \in dtlb
  /\ cache' = c
  /\ dtlb' = dtlb \ {p}
  /\ UNCHANGED <<mem, mode, unstamped, writes>>

\* MOV to CR3 or CR4.
FlushTLB(c) ==
  /\ cache' = Flushed(c)
  /\ dtlb' = {}
  /\ UNCHANGED <<mem, mode, unstamped, writes>>

\* XSETBV turns the tile state on or off.
SwitchMode(c) ==
  /\ cache' = c
  /\ mode' = 1 - mode
  /\ UNCHANGED <<mem, dtlb, unstamped, writes>>

Executes(c) ==
  \/ Plain(c)
  \/ \E t \in Lines, v \in Contents : StoreFast(c, t, v) \/ StoreSlow(c, t, v)
  \/ \E p \in PageNumbers, v \in Contents : StoreAcross(c, p, v)
  \/ \E t \in Lines, v \in Contents : PushCached(c, t, v) \/ PushSlow(c, t, v)
  \/ \E p \in PageNumbers : Pop(c, p) \/ LoadEvicts(c, p)
  \/ FlushTLB(c)
  \/ SwitchMode(c)

\* A fetch that faults executes nothing.
Step(l) ==
  \E c \in Fetches(cache, l) :
    IF ~Hit(cache, l) /\ FetchFaults(l) THEN Plain(c) ELSE Executes(c)

Next ==
  \/ \E l \in Lines, v \in Contents : HostWrite(l, v)
  \/ set_cr
  \/ \E l \in Lines : Step(l)
  \/ Renew

Spec == Init /\ [][Next]_vars

-----------------------------------------------------------------------------
(* Properties *)

\* The types; the ring index stays in the ring.
TypeOK ==
  /\ mem \in [Lines -> Contents]
  /\ DOMAIN cache.entries = Lines
  /\ cache.stamps \subseteq Lines
  /\ DOMAIN cache.split = 0..(SplitEntries - 1)
  /\ cache.next \in 0..(SplitEntries - 1)
  /\ cache.window.page \in PageNumbers \cup {-1}
  /\ dtlb \subseteq PageNumbers
  /\ mode \in Modes
  /\ unstamped \subseteq Lines
  /\ writes \in 0..MaxWrites

\* What a step at l would execute, if it can fetch at all.
Executed(l) == IF Hit(cache, l) THEN find_entry(cache, l).instr ELSE Decoded(l)

Current(l) == (Hit(cache, l) \/ ~FetchFaults(l)) => ~FetchFaults(l) /\ Executed(l) = Decoded(l)

\* Every line a trace was decoded from is stamped, the line a page-split trace
\* runs on into included: without the stamp no write would find the trace.
StampsCoverTraces ==
  \A e \in Lines : cache.entries[e] # NoEntry =>
    cache.entries[e].lines \cup DOMAIN cache.entries[e].instr.bytes \subseteq cache.stamps

\* The stack cache notes once that its page holds no code, and stops stamping.
\* Code decoded later must end that, or have only its tail on the page: the tail
\* of a page-split instruction, which the core overlooks.
StackPageHoldsNoCode ==
  cache.window # NoWindow /\ ~cache.window.mapping =>
    cache.stamps \cap LinesOf(cache.window.page) \subseteq {First(cache.window.page)}

\* A step executes what memory holds, under the current mode, unless a guest
\* store has changed the instruction behind the stamps' back and nobody has
\* written the line since: a host write is always seen, in every mode, for an
\* instruction across two pages, and after any history of fetches and stores.
HostWritesAreSeen ==
  \A l \in Lines : Current(l) \/ {l, l + 1} \cap unstamped # {}

\* csrc/bochs_shim.cpp, invalidate_decoded: the core's "own stores keep that cache
\* honest by stamping the written page".
GuestStoresAreSeen == \A l \in Lines : Current(l)
=============================================================================
