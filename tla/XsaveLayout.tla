----------------------------- MODULE XsaveLayout -----------------------------
(***************************************************************************)
(* The XSAVE image as the hardware backends read and write it (src/hw.rs):  *)
(* where its vector components lie, in the standard format and in the       *)
(* compacted one, and how a ZMM register is taken out of it and put back.   *)
(*                                                                          *)
(* XCR0, XCOMP_BV and XSTATE_BV are sets of component numbers.  An image is *)
(* [words, bv, xcomp, len]: its nonzero 64-bit words by byte offset,        *)
(* XSTATE_BV, XCOMP_BV (with 63 in it when compacted) and its length.       *)
(* cpuid[i] is the leaf (0xD, i): [size, offset, aligned].                  *)
(***************************************************************************)
EXTENDS Naturals, Functions, TLC

ZMM_CHUNKS == 8
ZMM_REGS == 32
XSAVE_XMM_OFFSET == 160
XSAVE_COMPACT_BASE == 576
COMPACTED == 63

\* A component that is not there, so that a layout is a function to records.
Absent == [offset |-> 0, size |-> 0]

-----------------------------------------------------------------------------
(* Locating the components *)

Align64(offset) == ((offset + 63) \div 64) * 64

CpuidSize(cpuid, i) == IF i \in DOMAIN cpuid THEN cpuid[i].size ELSE 0

\* Offset of a component of a compacted image: those below it that the image
\* has room for come first, from the end of the legacy region and the header.
CompactedOffset(cpuid, xcomp, index) ==
  LET counted(i) == i \in xcomp /\ CpuidSize(cpuid, i) # 0
      aligned(i, offset) == IF cpuid[i].aligned THEN Align64(offset) ELSE offset
      end[i \in 1..index] ==
        IF i = 1 THEN XSAVE_COMPACT_BASE
        ELSE IF counted(i) THEN aligned(i, end[i - 1]) + cpuid[i].size
        ELSE end[i - 1]
  IN aligned(index, end[index - 1])

\* Mutant: the standard offset is used whatever format the image has.
locate_standard(cpuid, xcr0, xcomp, index) ==
  IF index \in xcr0 /\ CpuidSize(cpuid, index) # 0
  THEN [offset |-> cpuid[index].offset, size |-> CpuidSize(cpuid, index)]
  ELSE Absent

locate(cpuid, xcr0, xcomp, index) ==
  LET size == CpuidSize(cpuid, index)
      standard == COMPACTED \notin xcomp
      offset == IF standard THEN cpuid[index].offset
                ELSE CompactedOffset(cpuid, xcomp, index)
  IN IF \/ index \notin xcr0 \/ size = 0
        \/ standard /\ cpuid[index].offset = 0
        \/ ~standard /\ index \notin xcomp
     THEN Absent ELSE [offset |-> offset, size |-> size]

\* 2 is YMM_Hi128, 6 is ZMM_Hi256 and 7 is Hi16_ZMM.
probe(cpuid, xcr0, xcomp) ==
  [i \in {2, 6, 7} |-> locate(cpuid, xcr0, xcomp, i)]

Has(layout, i) == layout[i] # Absent

vector_width(layout) ==
  IF Has(layout, 6) THEN 512 ELSE IF Has(layout, 2) THEN 256 ELSE 128

vector_regs(layout) == IF Has(layout, 7) THEN ZMM_REGS ELSE 16

-----------------------------------------------------------------------------
(* Registers in the image *)

Word(image, at) == IF at \in DOMAIN image.words THEN image.words[at] ELSE 0

Fits(image, layout, i) ==
  Has(layout, i) /\ layout[i].offset + layout[i].size <= image.len

\* Which component holds a chunk of a register, and at which offset; 1 is SSE.
Component(n, chunk) ==
  IF n >= 16 THEN 7 ELSE IF chunk < 2 THEN 1 ELSE IF chunk < 4 THEN 2 ELSE 6

ChunkOffset(layout, n, chunk) ==
  CASE Component(n, chunk) = 1 -> XSAVE_XMM_OFFSET + 16 * n + 8 * chunk
    [] Component(n, chunk) = 2 -> layout[2].offset + 16 * n + 8 * (chunk - 2)
    [] Component(n, chunk) = 6 -> layout[6].offset + 32 * n + 8 * (chunk - 4)
    [] Component(n, chunk) = 7 -> layout[7].offset + 64 * (n - 16) + 8 * chunk

\* The chunks of a register that this image has room for.
Held(image, layout, n) ==
  {c \in 0..(ZMM_CHUNKS - 1) :
     Component(n, c) = 1 \/ Fits(image, layout, Component(n, c))}

xsave_get_zmm(image, layout, n) ==
  [c \in 0..(ZMM_CHUNKS - 1) |->
     IF c \in Held(image, layout, n) THEN Word(image, ChunkOffset(layout, n, c)) ELSE 0]

\* data is shorter than a register when the caller gives fewer chunks.
Chunk(data, c) == IF c + 1 \in DOMAIN data THEN data[c + 1] ELSE 0

NewWords(image, layout, n, data) ==
  LET held == Held(image, layout, n)
  IN [at \in {ChunkOffset(layout, n, c) : c \in held} |->
        Chunk(data, CHOOSE c \in held : ChunkOffset(layout, n, c) = at)]

Overwritten(old, new) ==
  [at \in DOMAIN old \cup DOMAIN new |-> IF at \in DOMAIN new THEN new[at] ELSE old[at]]

\* Mutant: the touched components are not marked present.
xsave_set_zmm_unmarked(image, layout, n, data) ==
  [image EXCEPT !.words = Overwritten(image.words, NewWords(image, layout, n, data))]

xsave_set_zmm(image, layout, n, data) ==
  [image EXCEPT !.words = Overwritten(image.words, NewWords(image, layout, n, data)),
                !.bv = @ \cup {Component(n, c) : c \in Held(image, layout, n)}]

\* A fresh oracle's vectors are zero; MXCSR is not part of the model.
xsave_reset_vectors(image, layout) ==
  LET zeroed == (XSAVE_XMM_OFFSET .. XSAVE_XMM_OFFSET + 255)
                \cup UNION {layout[i].offset .. layout[i].offset + layout[i].size - 1 :
                              i \in {j \in {2, 6, 7} : Fits(image, layout, j)}}
  IN [image EXCEPT !.words = Restrict(image.words, DOMAIN image.words \ zeroed)]
=============================================================================
