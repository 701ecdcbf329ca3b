---- MODULE MCBuildScript ----
(* Model-checking instance of BuildScript. *)
EXTENDS BuildScript

Request(features, static) ==
  [version |-> "v1", features |-> features, os |-> "linux", msvc |-> FALSE,
   model |-> "vendored", runtime |-> "runtime", bochs |-> "bochs", static |-> static,
   GMP_DIR |-> Unset, GMP_INCLUDE_DIR |-> Unset, GMP_LIB_DIR |-> Unset, GMP_LIB_NAME |-> "gmp"]

Windows(r) == [r EXCEPT !.os = "windows", !.msvc = TRUE]

Plain == Request({"sail", "bochs"}, FALSE)
Dynamic == Request({"sail", "system-gmp"}, FALSE)
Static == Request({"sail", "system-gmp", "system-gmp-static"}, TRUE)

\* Versions, overrides and backends, in a shared OUT_DIR.
Builds == {Plain, [Plain EXCEPT !.version = "v2"], [Plain EXCEPT !.model = "ext_model"],
           [Plain EXCEPT !.bochs = "other_bochs"]}
Variants == {[Plain EXCEPT !.runtime = "ext_runtime"], Request({"bochs", "kvm"}, FALSE),
             Request({"kvm", "whp"}, FALSE), Windows(Request({"whp"}, FALSE)),
             Windows(Plain), Windows(Request({"sail", "kvm", "whp"}, FALSE))}

\* Archives of every kind; the last two are parsed up to the damage.
StaticLib == <<"symbols", "object", "object">>
ShortImport == <<"symbols", "short_import">>
LongImport == <<"dll_table", "object">>
NamedImport == <<"object", "dll_named">>
Damaged == <<"object", "broken">>
NoMembers == <<"symbols">>
Libs == {StaticLib, ShortImport, LongImport, NamedImport, Damaged, NoMembers, NotArchive}

\* One prefix, one directory of its own, and gmp.h and libraries in them.
P == <<"prefix">>
Inc == Append(P, "include")
Lib == Append(P, "lib")
Bin == Append(P, "bin")
Flat == <<"flat">>
Other == <<"other">>

Header == "gmp.h" :> <<>>
GmpLib(l) == "gmp.lib" :> l
LibGmpA(l) == "libgmp.a" :> l
Shared == "libgmp.so.10" :> <<>>
Dll == "gmp.dll" :> <<>>

Prefix(lib) == (Inc :> Header) @@ (Lib :> lib) @@ (Bin :> Dll)

Disks == {Prefix(GmpLib(l)) : l \in Libs}
         \cup {Prefix(GmpLib(ShortImport) @@ LibGmpA(StaticLib)), Prefix(Shared),
               Flat :> (Header @@ LibGmpA(StaticLib)),
               Prefix(GmpLib(ShortImport)) @@ (Flat :> LibGmpA(StaticLib)),
               (Flat :> Header) @@ (Other :> Shared), Other :> GmpLib(StaticLib)}

Site(disk, include, lib, path, toolchain) ==
  [disk |-> disk, INCLUDE |-> include, LIB |-> lib, PATH |-> path, toolchain |-> toolchain,
   refused |-> {}, gone |-> {}, requests |-> {}, asks |-> 1]

GmpRequests ==
  UNION {{r, Windows(r), [r EXCEPT !.GMP_DIR = P], [r EXCEPT !.GMP_LIB_DIR = Other],
          [r EXCEPT !.GMP_LIB_NAME = "other"], [r EXCEPT !.GMP_INCLUDE_DIR = Flat, !.GMP_DIR = P]} :
           r \in {Dynamic, Static}}

\* bin on PATH, the prefix itself, INCLUDE and LIB, or only other directories.
GmpSites ==
  {[Site(d, e[1], e[2], e[3], t) EXCEPT !.requests = GmpRequests] :
     d \in Disks, t \in BOOLEAN,
     e \in {<<<<>>, <<>>, <<Bin, Flat>>>>, <<<<>>, <<>>, <<Flat, P>>>>,
            <<<<Inc>>, <<Other, Lib>>, <<>>>>, <<<<>>, <<>>, <<Other, Flat>>>>}}

Ordinary == Site(<<>>, <<>>, <<>>, <<Other>>, TRUE)

MCSites ==
  {[Ordinary EXCEPT !.requests = Builds, !.asks = 3],
   [Ordinary EXCEPT !.requests = Variants, !.asks = 2],
   [Ordinary EXCEPT !.requests = Variants, !.refused = {"open", "present"}],
   [Ordinary EXCEPT !.requests = Variants, !.refused = {"memory_region", "map_range"}, !.asks = 2],
   [Ordinary EXCEPT !.requests = Builds \cup Variants, !.gone = {"ext_model", "ext_runtime", "other_bochs"}],
   [Ordinary EXCEPT !.requests = {Plain}, !.gone = {"vendored"}]}
  \cup GmpSites

MCTrees == {"runtime", "ext_model", "ext_runtime", "bochs", "other_bochs"}
====
