---------------------------- MODULE BuildScript ----------------------------
(***************************************************************************)
(* The build script (build.rs) and the backends a finished build offers     *)
(* (src/any.rs, src/native.rs).  OUT_DIR outlives a build: it is shared by  *)
(* versions of the crate, and a build may be interrupted at any point.  The *)
(* script unpacks the model there, looks for the GMP a build may ask for,   *)
(* compiles the backends and tells Cargo what to watch.                     *)
(*                                                                          *)
(* Cargo, the compilers and the linker are external.  A path is a sequence  *)
(* of names; an archive is the sequence of its members.  Optimisation       *)
(* levels, symbol prefixes, zlib and config.h are left out.                 *)
(***************************************************************************)
EXTENDS Naturals, Sequences, SequencesExt, TLC

CONSTANTS
  Sites,     \* machines: [disk, INCLUDE, LIB, PATH, toolchain, refused, gone,
             \*            requests, asks]; refused are the hypervisor's calls that fail
             \*            there, gone the sources that are missing; the last two bound
             \*            what is asked there
  Trees,     \* source trees somebody may edit
  MaxEdits   \* bound on the edits

\* A request is [version, features, os, msvc, model, runtime, bochs, static, GMP_DIR,
\* GMP_INCLUDE_DIR, GMP_LIB_DIR, GMP_LIB_NAME].
Unset == <<"unset">>

\* A path is a sequence of names, and Unset is none of a disk's.
ASSUME SitesAssumption ==
  \A s \in Sites :
    /\ {s.INCLUDE, s.LIB, s.PATH} \subseteq Seq(Seq(STRING))
    /\ Unset \notin DOMAIN s.disk
    /\ \A d \in DOMAIN s.disk : \A f \in DOMAIN s.disk[d] : s.disk[d][f] \in Seq(STRING)

\* A runtime is the vendored one or another, and no version is taken for a model or a
\* stamp that is missing or half written.
ASSUME RequestsAssumption ==
  \A s \in Sites : \A r \in s.requests :
    /\ r.runtime \in {"runtime", "ext_runtime"}
    /\ r.version \notin {"none", "torn"} /\ r.static \in BOOLEAN /\ r.msvc \in BOOLEAN

VARIABLES
  site, request,
  out,       \* OUT_DIR: [model, stamp, gmp], gmp being where its gmp DLL is from
  pc,        \* where the build script is; "idle" when it does not run
  gmp,       \* [inc, lib]: gmp_include and gmp_lib_dir
  product,   \* what this build has compiled and linked
  outcome,   \* [kind, why] of the last build
  dirty,     \* external: trees edited since the last build began
  stale,     \* history: trees edited since they were compiled
  asks, edits

vars == <<site, request, out, pc, gmp, product, outcome, dirty, stale, asks, edits>>

Has(feature) == feature \in request.features

-----------------------------------------------------------------------------
(* The file system *)

Files(d) == IF d \in DOMAIN site.disk THEN site.disk[d] ELSE <<>>
IsFile(d, name) == name \in DOMAIN Files(d)

NotArchive == <<"not an archive">>
DllMembers == {"dll_table", "short_import", "dll_named"}

\* Mutant: only the short import format is known.
archive_is_static_short(lib) ==
  IF lib = NotArchive THEN "unknown"
  ELSE IF Contains(lib, "short_import") THEN "import" ELSE "static"

\* The first member that settles it does; one that cannot be parsed settles nothing.
archive_is_static(lib) ==
  LET decisive == SelectInSeq(lib, LAMBDA m : m \in DllMembers \cup {"broken"})
  IN IF lib = NotArchive THEN "unknown"
     ELSE IF decisive # 0 THEN IF lib[decisive] = "broken" THEN "unknown" ELSE "import"
     ELSE IF Contains(lib, "object") THEN "static" ELSE "unknown"

Archives == {"gmp.lib", "libgmp.a"}
SharedObjects == {"libgmp.so", "libgmp.dylib", "libgmp.so.10"}

gmp_lib_present(d, static_only) ==
  \/ \E name \in Archives : /\ IsFile(d, name)
                            /\ static_only => archive_is_static(Files(d)[name]) # "import"
  \/ ~static_only /\ \E name \in SharedObjects : IsFile(d, name)

-----------------------------------------------------------------------------
(* Which GMP *)

system_runtime(r) == r.runtime = "ext_runtime"
system_gmp(r) == system_runtime(r) \/ "system-gmp" \in r.features

First(dirs, good) == LET i == SelectInSeq(dirs, LAMBDA d : d \in good)
                     IN IF i = 0 THEN Unset ELSE dirs[i]
Or(a, b) == IF a # Unset THEN a ELSE b

\* <dir>/sub and <dir>/../sub of every directory on PATH.
Structured(sub) == [i \in 1..(2 * Len(site.PATH)) |->
  LET dir == site.PATH[(i + 1) \div 2]
  IN Append(IF i % 2 = 1 THEN dir ELSE Front(dir), sub)]

HasHeader(d) == IsFile(d, "gmp.h")
HeaderDirs == {d \in DOMAIN site.disk : HasHeader(d)}
LibDirs(static) == {d \in DOMAIN site.disk : gmp_lib_present(d, static)}

explicit_include(r) ==
  Or(r.GMP_INCLUDE_DIR, IF r.GMP_DIR = Unset THEN Unset ELSE Append(r.GMP_DIR, "include"))
explicit_lib(r) ==
  Or(r.GMP_LIB_DIR, IF r.GMP_DIR = Unset THEN Unset ELSE Append(r.GMP_DIR, "lib"))
Explicit(r) == explicit_include(r) # Unset \/ explicit_lib(r) # Unset

\* INCLUDE or LIB, then the structured PATH scan, then PATH itself.
Find(list, sub, good) ==
  Or(First(list, good), Or(First(Structured(sub), good), First(site.PATH, good)))

Resolved(r) ==
  IF Explicit(r) THEN [inc |-> explicit_include(r), lib |-> explicit_lib(r)]
  ELSE IF ~system_gmp(r) THEN [inc |-> Unset, lib |-> Unset]
  ELSE [inc |-> Find(site.INCLUDE, "include", HeaderDirs), lib |-> Find(site.LIB, "lib", LibDirs(r.static))]

\* External: the compiler finds gmp.h, the linker a library.
HeaderCompiles == HasHeader(gmp.inc) \/ site.toolchain
DllLinks(r) == IsFile(gmp.lib, IF r.GMP_LIB_NAME = "gmp" THEN "gmp.lib" ELSE "other.lib")
               \/ site.toolchain

LinkNames(r) == IF r.GMP_LIB_NAME = "gmp" THEN Archives ELSE {"other.lib", "libother.a"}

ImportLibs(r) == {name \in LinkNames(r) : /\ IsFile(gmp.lib, name)
                                          /\ archive_is_static(Files(gmp.lib)[name]) = "import"}

-----------------------------------------------------------------------------
(* Sources, and what Cargo watches *)

Sail(r) == "sail" \in r.features
Bochs(r) == "bochs" \in r.features

SailTrees(r) == IF Sail(r) THEN {r.model, r.runtime} ELSE {}
BochsTrees(r) == IF Bochs(r) THEN {r.bochs} ELSE {}

\* The vendored runtime is watched, an external one is not.
WatchedTrees(r) == (IF Sail(r) THEN {r.model, "runtime"} ELSE {}) \cup BochsTrees(r)

\* Features, target and version are Cargo's own; the rest are the environment
\* variables the backends in the build name.
Key(r) ==
  << r.version, r.features, r.os, r.msvc, r.static,
     IF Sail(r) THEN <<r.model, r.runtime, r.GMP_DIR, r.GMP_INCLUDE_DIR, r.GMP_LIB_DIR, r.GMP_LIB_NAME>>
     ELSE <<>>,
     IF Bochs(r) THEN r.bochs ELSE "">>

\* External: Cargo runs the script again after a failure, a change of a variable it
\* watches, or an edit of a tree it watches.
NeedsRun == outcome.kind = "built" => \/ Key(product.of) # Key(request)
                                       \/ dirty \cap WatchedTrees(product.of) # {}

-----------------------------------------------------------------------------
(* Backends of a finished build *)

emit_hardware_cfgs(r) == {b \in {"kvm", "whp"} : /\ b \in r.features
                                                 /\ r.os = IF b = "kvm" THEN "linux" ELSE "windows"}

Compiled == {b \in {"sail", "bochs"} : b \in product.of.features} \cup product.cfgs

\* What KvmOracle::is_available and WhpOracle::is_available ask: whether /dev/kvm opens;
\* whether the DLL loads and says that a hypervisor is present.
Probes(b) == IF b = "kvm" THEN {"open"} ELSE {"library", "present"}
is_available(b) == Probes(b) \cap site.refused = {}

Push(v, b) == IF b \in Compiled /\ (b \in product.cfgs => is_available(b)) THEN Append(v, b) ELSE v
available == Push(Push(Push(Push(<<>>, "sail"), "bochs"), "kvm"), "whp")

hardware == {b \in {"kvm", "whp"} : \E i \in DOMAIN available : available[i] = b}

pairs == {<<available[ij[1]], available[ij[2]]>> :
            ij \in {x \in (1..Len(available)) \X (1..Len(available)) : x[1] < x[2]}}

\* The calls of KvmOracle::try_new and WhpOracle::try_new whose failure is an error of
\* theirs, in order, those of enter_long_mode included.  External: no error number of
\* theirs is one that Rust calls Unsupported.
Calls(b) ==
  IF b = "kvm"
  THEN <<"open", "create_vm", "ram", "memory_region", "vcpu", "cpuid", "set_cpuid",
         "get_sregs", "set_sregs", "get_xcrs", "set_xcrs">>
  ELSE <<"library", "present", "partition", "processor_count", "setup", "ram", "vcpu",
         "map_range", "set_registers", "get_xsave", "set_xsave">>

\* The first call that fails is the error passed on.  Sail and Bochs panic or wait
\* rather than fail.
try_new(b) ==
  IF b \notin Compiled THEN "unsupported"
  ELSE LET failed == SelectInSeq(Calls(b), LAMBDA c : c \in site.refused)
       IN IF b \notin product.cfgs \/ failed = 0 THEN "created" ELSE Calls(b)[failed]

-----------------------------------------------------------------------------
NoProduct == [of |-> Unset, cfgs |-> {}, model |-> "none", trees |-> {}, exports |-> {}, dll |-> FALSE]

Init ==
  /\ site \in Sites
  /\ request \in site.requests
  /\ out = [model |-> "none", stamp |-> "none", gmp |-> Unset]
  /\ pc = "idle" /\ gmp = [inc |-> Unset, lib |-> Unset]
  /\ product = NoProduct /\ outcome = [kind |-> "none", why |-> ""]
  /\ dirty = {} /\ stale = {} /\ asks = 1 /\ edits = 0

world == <<site, request, dirty, stale, asks, edits>>

\* Another environment, or another version of the crate.
Ask(r) ==
  /\ pc = "idle" /\ asks < site.asks
  /\ request' = r /\ asks' = asks + 1
  /\ UNCHANGED <<site, out, pc, gmp, product, outcome, dirty, stale, edits>>

\* An edit, a build in progress or not.
Edit(t) ==
  /\ edits < MaxEdits /\ edits' = edits + 1
  /\ dirty' = dirty \cup {t} /\ stale' = stale \cup {t}
  /\ UNCHANGED <<site, request, out, pc, gmp, product, outcome, asks>>

End(kind, why) == pc' = "idle" /\ outcome' = [kind |-> kind, why |-> why]

\* A panic, or the process is killed, or a disk is full.
Panic(why) == End("failed", why) /\ UNCHANGED <<world, out, gmp, product>>

Interrupt == pc # "idle" /\ Panic("interrupted")

\* main: the cfgs, then the backends whose features are on.
Begin ==
  /\ pc = "idle" /\ NeedsRun
  /\ pc' = IF Has("sail") THEN "model" ELSE "bochs"
  /\ product' = [NoProduct EXCEPT !.of = request, !.cfgs = emit_hardware_cfgs(request)]
  /\ outcome' = [kind |-> "none", why |-> ""]
  /\ dirty' = {}
  /\ UNCHANGED <<site, request, out, gmp, stale, asks, edits>>

(* unpack_vendored_model, step by step *)

Fresh == out.model # "none" /\ out.stamp = request.version

\* Mutant: the stamp of the model being replaced stays until the new one is written.
Unpack_keeping_stamp ==
  /\ pc = "model" /\ request.model = "vendored"
  /\ IF "vendored" \in site.gone THEN Panic("sources")
     ELSE /\ pc' = IF Fresh THEN "resolve" ELSE "create"
          /\ UNCHANGED <<world, out, gmp, product, outcome>>

\* The archive must be there.  If the model beside it is not fresh, by its stamp, which is
\* the archive's trailer, the stamp goes first.
Unpack ==
  /\ pc = "model" /\ request.model = "vendored"
  /\ IF "vendored" \in site.gone THEN Panic("sources")
     ELSE /\ pc' = IF Fresh THEN "resolve" ELSE "create"
          /\ out' = IF Fresh THEN out ELSE [out EXCEPT !.stamp = "none"]
          /\ UNCHANGED <<world, gmp, product, outcome>>

\* X86_ORACLE_SAIL_MODEL_C names the model.
UseGivenModel ==
  /\ pc = "model" /\ request.model # "vendored"
  /\ IF request.model \in site.gone THEN Panic("sources")
     ELSE pc' = "resolve" /\ UNCHANGED <<world, out, gmp, product, outcome>>

CreateModel ==
  /\ pc = "create" /\ pc' = "copy"
  /\ out' = [out EXCEPT !.model = "torn"]
  /\ UNCHANGED <<world, gmp, product, outcome>>

CopyModel ==
  /\ pc = "copy" /\ pc' = "stamp"
  /\ out' = [out EXCEPT !.model = request.version]
  /\ UNCHANGED <<world, gmp, product, outcome>>

CreateStamp ==
  /\ pc = "stamp" /\ pc' = "trailer"
  /\ out' = [out EXCEPT !.stamp = "torn"]
  /\ UNCHANGED <<world, gmp, product, outcome>>

WriteStamp ==
  /\ pc = "trailer" /\ pc' = "resolve"
  /\ out' = [out EXCEPT !.stamp = request.version]
  /\ UNCHANGED <<world, gmp, product, outcome>>

(* The rest of build_sail *)

ResolveGmp ==
  /\ pc = "resolve"
  /\ IF request.runtime \in site.gone THEN Panic("sources")
     ELSE /\ gmp' = Resolved(request) /\ pc' = "probe"
          /\ UNCHANGED <<world, out, product, outcome>>

Probe ==
  /\ pc = "probe"
  /\ IF system_gmp(request) /\ ~HeaderCompiles THEN Panic("header")
     ELSE pc' = "sail" /\ UNCHANGED <<world, out, gmp, product, outcome>>

CompileSail ==
  /\ pc = "sail" /\ pc' = "static"
  /\ product' = [product EXCEPT !.model = IF request.model = "vendored" THEN out.model ELSE @,
                                !.trees = @ \cup SailTrees(request),
                                !.exports = IF request.msvc THEN @ \cup {"sail"} ELSE @]
  /\ stale' = stale \ SailTrees(request)
  /\ UNCHANGED <<site, request, out, gmp, outcome, dirty, asks, edits>>

CheckStatic ==
  /\ pc = "static"
  /\ IF system_gmp(request) /\ request.static /\ gmp.lib # Unset /\ ImportLibs(request) # {} THEN Panic("import")
     ELSE pc' = "bochs" /\ UNCHANGED <<world, out, gmp, product, outcome>>

(* build_bochs, link_dll *)

BuildBochs ==
  /\ pc = "bochs"
  /\ IF ~Has("bochs") THEN pc' = "dll" /\ UNCHANGED <<world, out, gmp, product, outcome>>
     ELSE IF request.bochs \in site.gone THEN Panic("sources")
     ELSE /\ pc' = "dll"
          /\ product' = [product EXCEPT !.trees = @ \cup BochsTrees(request),
                                        !.exports = IF request.msvc THEN @ \cup {"bochs"} ELSE @]
          /\ stale' = stale \ BochsTrees(request)
          /\ UNCHANGED <<site, request, out, gmp, outcome, dirty, asks, edits>>

\* The DLL of a dynamic gmp is copied beside x86oracle.dll, if it is where it should be.
gmp_bin == Append(Front(gmp.lib), "bin")
Copies(r) == Sail(r) /\ system_gmp(r) /\ ~r.static /\ gmp.lib # Unset
             /\ IsFile(gmp_bin, "gmp.dll")

LinkDll ==
  /\ pc = "dll"
  /\ IF ~request.msvc \/ product.exports = {}
     THEN End("built", "") /\ UNCHANGED <<world, out, gmp, product>>
     ELSE IF Has("sail") /\ system_gmp(request) /\ ~DllLinks(request) THEN Panic("link")
     ELSE /\ product' = [product EXCEPT !.dll = TRUE]
          /\ out' = IF Copies(request) THEN [out EXCEPT !.gmp = gmp_bin] ELSE out
          /\ End("built", "")
          /\ UNCHANGED <<world, gmp>>

Next ==
  \/ \E r \in site.requests : Ask(r)
  \/ \E t \in Trees : Edit(t)
  \/ Begin \/ Interrupt
  \/ Unpack \/ UseGivenModel \/ CreateModel \/ CopyModel \/ CreateStamp \/ WriteStamp
  \/ ResolveGmp \/ Probe \/ CompileSail \/ CheckStatic
  \/ BuildBochs \/ LinkDll
  \* The bounds: nothing is left to ask, and Cargo has nothing to do.
  \/ pc = "idle" /\ ~NeedsRun /\ asks = site.asks /\ edits = MaxEdits /\ UNCHANGED vars

Spec == Init /\ [][Next]_vars

-----------------------------------------------------------------------------
(* Properties *)

\* Cargo is content with what the last build left.
Satisfied == pc = "idle" /\ ~NeedsRun

\* What a build is asked for is what it gives, whatever earlier builds did and
\* wherever they were interrupted, and nobody edits a source it compiled unnoticed:
\* when Cargo has nothing left to do, the model compiled is the crate's own or the
\* one named, whole, and every source is as it was compiled, an external runtime
\* (which is not watched) aside.
LibraryIsCurrent ==
  Satisfied =>
    /\ "sail" \in request.features /\ request.model = "vendored" => product.model = request.version
    /\ product.trees = SailTrees(request) \cup BochsTrees(request)
    /\ stale \cap product.trees \subseteq {"ext_runtime"}
    /\ product.cfgs = {b \in {"kvm", "whp"} \cap request.features :
                         <<b, request.os>> \in {<<"kvm", "linux">>, <<"whp", "windows">>}}

\* The directories the module comment of build.rs lists for a half of GMP.
Searched(sub, list) ==
  {list[i] : i \in DOMAIN list} \cup {site.PATH[i] : i \in DOMAIN site.PATH}
  \cup {Structured(sub)[i] : i \in DOMAIN Structured(sub)}

\* An import library, for the linker: one that names a DLL.
IsImport(lib) == lib # NotArchive /\ ~Contains(lib, "broken") /\ \E m \in DllMembers : Contains(lib, m)
IsStatic(lib) == Contains(lib, "object") /\ \A m \in DllMembers \cup {"broken"} : ~Contains(lib, m)

HoldsStatic(d) == \E name \in Archives : IsFile(d, name) /\ IsStatic(Files(d)[name])

\* A build fails for a reason its user can act on and never for another: no
\* header anywhere it looks; an import library that was named, or that lies beside
\* the static archive a search found; a source that is missing.
Justified(r, why) ==
  CASE why = "header" -> ~site.toolchain /\ IF Explicit(r) THEN ~HasHeader(explicit_include(r))
                                            ELSE \A d \in Searched("include", site.INCLUDE) : ~HasHeader(d)
    [] why = "import" -> \/ Explicit(r) \/ r.GMP_LIB_NAME # "gmp"
                         \/ \E f \in Archives : IsFile(gmp.lib, f) /\ ~IsImport(Files(gmp.lib)[f])
    [] why = "sources" -> ({r.model, r.runtime} \cup BochsTrees(r)) \cap site.gone # {}
    [] why = "link" -> ~site.toolchain
    [] why = "interrupted" -> TRUE

\* A build that asks for the system's GMP gets it: it finds a header and a library if
\* there are any to find, and a static build links no import library, unless the
\* toolchain is left to find the library.
GmpIsSystems(r) ==
  /\ HeaderCompiles
  /\ r.static /\ gmp.lib # Unset =>
       \A name \in LinkNames(r) : IsFile(gmp.lib, name) => ~IsImport(Files(gmp.lib)[name])
  /\ r.static /\ ~Explicit(r) /\ gmp.lib = Unset =>
       \A d \in Searched("lib", site.LIB) : ~HoldsStatic(d)

\* The DLL exports what the backends in it are loaded for, beside the GMP it was linked with.
DllIsWhole(r) ==
  /\ product.dll /\ Copies(r) => out.gmp = gmp_bin
  /\ r.msvc => \A b \in {"sail", "bochs"} \cap r.features : product.dll /\ b \in product.exports

\* The backends that a request is for on its platform.
Asked(r) == {b \in {"sail", "bochs", "kvm", "whp"} :
               /\ b \in r.features
               /\ b = "kvm" => r.os = "linux"
               /\ b = "whp" => r.os = "windows"}

\* At most one backend listed is the hardware, and no pair comes twice; a backend that
\* starts is listed; and try_new calls exactly those unsupported that were not asked for
\* or belong to another platform, which tells them from one that did not start.  That a
\* listed backend starts is not promised: is_available makes the first calls of try_new.
BackendsAreTold(r) ==
  /\ \A b, c \in hardware : b = c
  /\ \A p \in pairs : p[1] # p[2] /\ <<p[2], p[1]>> \notin pairs
  /\ \A b \in {"sail", "bochs", "kvm", "whp"} :
       /\ try_new(b) = "created" => Contains(available, b)
       /\ try_new(b) = "unsupported" <=> b \notin Asked(r)

\* Every build fails for a reason or gives what was asked for.
OutcomeIsJustified ==
  /\ outcome.kind = "failed" => Justified(product.of, outcome.why)
  /\ Satisfied /\ Sail(request) /\ system_gmp(request) => GmpIsSystems(request)
  /\ Satisfied => DllIsWhole(request) /\ BackendsAreTold(request)
=============================================================================
