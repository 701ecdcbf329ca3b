---- MODULE MCOracleState ----
(* Model-checking instance of OracleState. *)
EXTENDS OracleState

\* The vector components of Intel hosts: AVX, MPX (3, 4), AVX-512 (5, 6, 7), PKRU.
Leaf(size, offset) == [size |-> size, offset |-> offset, aligned |-> FALSE]
IntelLeaves == (2 :> Leaf(256, 576)) @@ (3 :> Leaf(64, 960)) @@ (4 :> Leaf(64, 1024))
               @@ (5 :> Leaf(64, 1088)) @@ (6 :> Leaf(512, 1152))
               @@ (7 :> Leaf(1024, 1664)) @@ (9 :> Leaf(8, 2688))
SSE == {0, 1}
AVX == SSE \cup {2}
WITH_AVX512 == AVX \cup {5, 6, 7}
ALL == WITH_AVX512 \cup {3, 4, 9}

\* base is where the components really are.
Standard(offered) ==
  [cpuid |-> IntelLeaves, offered |-> offered, accepted |-> {}, kept |-> {}, len |-> 4096,
   xcomp |-> {}, base |-> (2 :> 576) @@ (6 :> 1152) @@ (7 :> 1664)]

Compacted(accepted, kept, xcomp, mpx, zmm_hi, hi16) ==
  [cpuid |-> IntelLeaves, offered |-> ALL, accepted |-> accepted, kept |-> kept, len |-> 4096,
   xcomp |-> {63} \cup xcomp,
   base |-> (2 :> 576) @@ (3 :> mpx) @@ (4 :> mpx + 64) @@ (5 :> zmm_hi - 64)
            @@ (6 :> zmm_hi) @@ (7 :> hi16)]

NoHost == Standard({})

\* WHP hosts: one that refuses the optional components, one that takes any mask and
\* keeps MPX but not PKRU, one whose partition has no AVX-512.
Strict == Compacted({WITH_AVX512, AVX, SSE}, ALL, WITH_AVX512, 0, 896, 1408)
Normalising == Compacted({ALL, WITH_AVX512, AVX, SSE}, ALL \ {9}, ALL \ {9}, 832, 1024, 1536)
Narrow == Compacted({AVX, SSE}, ALL, AVX, 0, 832, 1344)

\* The flags are bit 1, ZF, TF and RF.
Flags == {<<RFLAGS, f>> : f \in {{}, {"one", "zf", "tf", "rf"}}}

MCCells == {<<"gpr", 1>>, <<"gpr", 3>>, RIP, RFLAGS, CR0, CR4, <<"ssp", 0>>}
           \cup {<<"msr", m>> : m \in {"EFER", "FS_BASE", "GS_BASE", "LSTAR", "U_CET", "OTHER"}}
           \cup {<<"cr", 3>>, <<"cr", 8>>, <<"sel", 4>>, <<"base", 0>>, <<"base", 4>>, <<"base", 5>>, <<"limit", 4>>}

RegisterWrites ==
  {<<c, 1>> : c \in MCCells \ {RFLAGS, CR0}} \cup Flags
  \cup {<<<<"msr", "EFER">>, 3>>, <<CR0, 0>>, <<CR0, 3>>, <<<<"base", 4>>, 3>>}

\* 8 bytes of RAM, pages of 2, Sail blocks and frames of 4.  5 ends on a page
\* boundary, 7 straddles the end of RAM, 17 is 1 on Bochs, 31 is the last address.
MCMemWrites == {<<1, <<0>>>>, <<1, <<1, 2>>>>, <<5, <<1>>>>, <<5, <<>>>>,
                <<7, <<1, 2>>>>, <<17, <<2>>>>, <<31, <<1, 2>>>>}
MCRanges == {<<0, 2>>, <<1, 2>>, <<5, 1>>, <<7, 1>>, <<7, 2>>, <<17, 1>>, <<31, 2>>}
GuestAddrs == {1, 5}

\* One frame, two frames, none, into the frame of the page tables but not the tables,
\* past the end of the map, starting there, and a length that would wrap.
MCShadowRanges == {<<2, 1>>, <<3, 2>>, <<0, 0>>, <<7, 2>>, <<11, 2>>, <<12, 1>>, <<5, 31>>}

MCVecRegs == {15, 16}
MCZmmData == {<<9, 9>>, <<1, 2, 3, 4, 5, 6, 7, 8>>}

\* Three kinds of call sequences: registers and snapshots, vectors and snapshots,
\* and memory with shadow stacks.  RIP 13 is outside every bounded memory.
RegisterCalls == [cells |-> RegisterWrites, zmm |-> {}, mem |-> {}, ops |-> {<<"nop", 0>>}, shadow |-> {}]
Vectors == [cells |-> {<<<<"gpr", 1>>, 1>>}, zmm |-> MCZmmData, mem |-> {},
            ops |-> {<<"vzeroupper", 0>>}, shadow |-> {}]
Memory == [cells |-> {<<RIP, 13>>}, zmm |-> {}, mem |-> MCMemWrites,
           ops |-> {<<"nop", 0>>} \cup {"load", "store"} \X GuestAddrs, shadow |-> {<<2, 1>>}]
Shadow == [cells |-> {<<CR0, 0>>, <<CR0, 1>>, <<CR4, 0>>, <<RIP, 13>>}, zmm |-> {},
           mem |-> {<<1, <<1, 2>>>>}, ops |-> {"load", "store"} \X GuestAddrs, shadow |-> MCShadowRanges]

MCCellWrites == UNION {i.cells : i \in {RegisterCalls, Vectors, Memory, Shadow}}
MCOps == UNION {i.ops : i \in {RegisterCalls, Vectors, Memory, Shadow}}

Hosts == {<<"sail", NoHost>>, <<"bochs", NoHost>>, <<"kvm", Standard(ALL)>>, <<"whp", Strict>>}
VectorHosts == Hosts \cup {<<"kvm", Standard(AVX)>>, <<"kvm", Standard(SSE)>>,
                           <<"whp", Normalising>>, <<"whp", Narrow>>}

Machine(h, inputs, n) ==
  [backend |-> h[1], host |-> h[2], inputs |-> inputs, calls |-> n]

MCMachines ==
  {Machine(h, RegisterCalls, 3) : h \in Hosts} \cup {Machine(h, Vectors, 4) : h \in VectorHosts}
  \cup {Machine(h, Memory, 3) : h \in Hosts} \cup {Machine(<<"bochs", NoHost>>, Shadow, 4)}
====
