------------------------- MODULE BuildScriptProofs -------------------------
(***************************************************************************)
(* Proofs about BuildScript, for any machines, requests, trees and edits.   *)
(***************************************************************************)
EXTENDS BuildScript, Integers, WellFoundedInduction, TLAPS

-----------------------------------------------------------------------------
(* The inductive invariant *)

\* The records stay records, and what is asked for is something the machine asks.
Shapes ==
  /\ out = [model |-> out.model, stamp |-> out.stamp, gmp |-> out.gmp]
  /\ product = [of |-> product.of, cfgs |-> product.cfgs, model |-> product.model,
                trees |-> product.trees, exports |-> product.exports, dll |-> product.dll]
  /\ site \in Sites /\ request \in site.requests

\* A whole stamp is that of the model beside it.
Stamped == out.stamp \in {"none", "torn"} \/ out.stamp = out.model

SailSteps == {"model", "create", "copy", "stamp", "trailer", "resolve", "probe", "sail"}

\* Where unpack_vendored_model has got to.
Unpacking ==
  /\ pc \in {"create", "copy", "stamp"} => out.stamp = "none"
  /\ pc \in {"create", "copy", "stamp", "trailer"} => request.model = "vendored"
  /\ pc \in {"stamp", "trailer"} => out.model = request.version
  /\ pc = "trailer" => out.stamp = "torn"
  /\ pc \in {"resolve", "probe", "sail"} /\ request.model = "vendored" =>
       out.model = request.version

\* The model compiled is the one the build was for.
ModelIsOwn(r) == Sail(r) /\ r.model = "vendored" => product.model = r.version

\* What the running build has compiled so far.
Compiling ==
  /\ pc # "idle" => /\ product.of = request
                    /\ product.cfgs = emit_hardware_cfgs(request)
                    /\ outcome.kind = "none"
  /\ pc \in SailSteps => Sail(request) /\ product.trees = {}
  /\ pc \in {"static", "bochs", "dll"} => ModelIsOwn(request)
  /\ pc \in {"static", "bochs"} => product.trees = SailTrees(request)
  /\ pc = "dll" => product.trees = SailTrees(request) \cup BochsTrees(request)
  /\ pc \in {"idle", "static", "bochs", "dll"} \cup SailSteps

\* What a finished build has compiled.
Built ==
  pc = "idle" /\ outcome.kind = "built" =>
    /\ product.trees = SailTrees(product.of) \cup BochsTrees(product.of)
    /\ product.cfgs = emit_hardware_cfgs(product.of)
    /\ ModelIsOwn(product.of)
    /\ Sail(product.of) => product.of.runtime \in {"runtime", "ext_runtime"}

\* A tree edited since it was compiled was edited since the build began.
EditsAreSeen == stale \cap product.trees \subseteq dirty

LInv == Shapes /\ Stamped /\ Unpacking /\ Compiling /\ Built /\ EditsAreSeen

-----------------------------------------------------------------------------
(* What every step relies on *)

LEMMA RequestFacts ==
  ASSUME LInv
  PROVE  request.runtime \in {"runtime", "ext_runtime"} /\ request.version \notin {"none", "torn"}
BY RequestsAssumption DEF LInv, Shapes

\* A build that fails leaves behind only what the next one repairs.
LEMMA PanicKeeps ==
  ASSUME LInv, NEW why, Panic(why)
  PROVE  LInv'
<1>1. /\ pc' = "idle" /\ outcome' = [kind |-> "failed", why |-> why]
      /\ UNCHANGED <<site, request, dirty, stale, out, product>>
  BY DEF Panic, End, world
<1>2. Shapes' /\ Stamped' /\ EditsAreSeen'
  BY <1>1 DEF LInv, Shapes, Stamped, EditsAreSeen
<1>3. Unpacking' /\ Compiling' /\ Built'
  BY <1>1 DEF Unpacking, Compiling, Built, SailSteps
<1> QED BY <1>2, <1>3 DEF LInv

LEMMA BeginKeeps ==
  ASSUME LInv, Begin
  PROVE  LInv'
<1>1. /\ pc = "idle" /\ pc' = IF Has("sail") THEN "model" ELSE "bochs"
      /\ product' = [NoProduct EXCEPT !.of = request, !.cfgs = emit_hardware_cfgs(request)]
      /\ outcome' = [kind |-> "none", why |-> ""]
      /\ UNCHANGED <<site, request, out, stale>>
  BY DEF Begin
<1>2. /\ product'.of = request /\ product'.cfgs = emit_hardware_cfgs(request)
      /\ product'.trees = {}
      /\ product' = [of |-> product'.of, cfgs |-> product'.cfgs, model |-> product'.model,
                     trees |-> product'.trees, exports |-> product'.exports, dll |-> product'.dll]
  <2> HIDE DEF emit_hardware_cfgs
  <2>1. product' = [of |-> request, cfgs |-> emit_hardware_cfgs(request), model |-> "none",
                    trees |-> {}, exports |-> {}, dll |-> FALSE]
    BY <1>1 DEF NoProduct
  <2> QED BY <2>1
<1>3. Shapes' /\ Stamped' /\ EditsAreSeen'
  BY <1>1, <1>2 DEF LInv, Shapes, Stamped, EditsAreSeen
<1>4. Unpacking' /\ Built'
  BY <1>1 DEF Unpacking, Built
<1>5. Compiling'
  <2>1. emit_hardware_cfgs(request)' = emit_hardware_cfgs(request)
    BY <1>1
  <2> QED BY <1>1, <1>2, <2>1 DEF Compiling, SailSteps, ModelIsOwn, SailTrees, Sail, Has
<1> QED BY <1>3, <1>4, <1>5 DEF LInv

LEMMA AskKeeps ==
  ASSUME LInv, NEW r \in site.requests, Ask(r)
  PROVE  LInv'
<1>1. /\ pc = "idle" /\ request' = r
      /\ UNCHANGED <<site, out, pc, product, outcome, dirty, stale>>
  BY DEF Ask
<1>2. Shapes' /\ Stamped' /\ EditsAreSeen'
  BY <1>1 DEF LInv, Shapes, Stamped, EditsAreSeen
<1>3. Unpacking' /\ Compiling' /\ Built'
  BY <1>1 DEF LInv, Unpacking, Compiling, Built, SailSteps, ModelIsOwn
<1> QED BY <1>2, <1>3 DEF LInv

LEMMA EditKeeps ==
  ASSUME LInv, NEW t \in Trees, Edit(t)
  PROVE  LInv'
<1>1. /\ dirty' = dirty \cup {t} /\ stale' = stale \cup {t}
      /\ UNCHANGED <<site, request, out, pc, product, outcome>>
  BY DEF Edit
<1>2. Shapes' /\ Stamped' /\ EditsAreSeen'
  BY <1>1 DEF LInv, Shapes, Stamped, EditsAreSeen
<1>3. Unpacking' /\ Compiling' /\ Built'
  BY <1>1 DEF LInv, Unpacking, Compiling, Built, SailSteps, ModelIsOwn
<1> QED BY <1>2, <1>3 DEF LInv

-----------------------------------------------------------------------------
(* unpack_vendored_model *)

\* A step of the unpacking changes OUT_DIR and where the script is, nothing else.
LEMMA UnpackStep ==
  ASSUME LInv, pc \in SailSteps, pc' \in SailSteps,
         NEW m, NEW s, out' = [out EXCEPT !.model = m, !.stamp = s],
         s \in {"none", "torn"} \/ s = m,
         UNCHANGED <<site, request, product, outcome, dirty, stale>>,
         [model |-> m, stamp |-> s, gmp |-> out.gmp] = out' => Unpacking'
  PROVE  LInv'
<1>1. out' = [model |-> m, stamp |-> s, gmp |-> out.gmp]
  BY DEF LInv, Shapes
<1>2. Shapes'
  BY <1>1 DEF LInv, Shapes
<1>3. Stamped' /\ EditsAreSeen'
  BY <1>1 DEF LInv, Stamped, EditsAreSeen
<1>4. Compiling' /\ Built'
  <2>1. pc # "idle" /\ pc' # "idle" /\ pc' \notin {"static", "bochs", "dll"}
    BY DEF SailSteps
  <2> QED BY <2>1 DEF LInv, Compiling, Built, ModelIsOwn
<1> QED BY <1>1, <1>2, <1>3, <1>4 DEF LInv

LEMMA UnpackKeeps ==
  ASSUME LInv, Unpack
  PROVE  LInv'
<1>1. CASE \E why : Panic(why)
  BY <1>1, PanicKeeps
<1>2. CASE /\ pc' = IF Fresh THEN "resolve" ELSE "create"
           /\ out' = IF Fresh THEN out ELSE [out EXCEPT !.stamp = "none"]
           /\ UNCHANGED <<world, gmp, product, outcome>>
  <2>1. /\ pc = "model" /\ request.model = "vendored"
        /\ UNCHANGED <<site, request, product, outcome, dirty, stale>>
        /\ out = [model |-> out.model, stamp |-> out.stamp, gmp |-> out.gmp] /\ Stamped
    BY <1>2 DEF Unpack, world, LInv, Shapes
  <2>2. CASE Fresh
    <3>1. pc' = "resolve" /\ out' = out
      BY <1>2, <2>2
    <3>2. out' = [out EXCEPT !.model = out.model, !.stamp = out.stamp]
      BY <2>1, <3>1
    <3>3. out.model = request.version
      BY <2>1, <2>2, RequestFacts DEF Stamped, Fresh
    <3>4. Unpacking'
      BY <2>1, <3>1, <3>3 DEF Unpacking
    <3>5. out.stamp \in {"none", "torn"} \/ out.stamp = out.model
      BY <2>1 DEF Stamped
    <3> QED BY <2>1, <3>1, <3>2, <3>4, <3>5, UnpackStep DEF SailSteps
  <2>3. CASE ~Fresh
    <3>1. pc' = "create" /\ out' = [out EXCEPT !.stamp = "none"]
      BY <1>2, <2>3
    <3>2. out' = [out EXCEPT !.model = out.model, !.stamp = "none"]
      BY <2>1, <3>1
    <3>3. out'.stamp = "none"
      BY <2>1, <3>1
    <3>4. Unpacking'
      BY <2>1, <3>1, <3>3 DEF Unpacking
    <3> QED BY <2>1, <3>1, <3>2, <3>4, UnpackStep DEF SailSteps
  <2> QED BY <2>2, <2>3
<1> QED BY <1>1, <1>2 DEF Unpack

LEMMA CreateModelKeeps ==
  ASSUME LInv, CreateModel \/ CopyModel
  PROVE  LInv'
<1>1. /\ UNCHANGED <<site, request, product, outcome, dirty, stale>>
      /\ out = [model |-> out.model, stamp |-> out.stamp, gmp |-> out.gmp]
      /\ pc \in {"create", "copy"} /\ out.stamp = "none" /\ request.model = "vendored"
  BY DEF CreateModel, CopyModel, world, LInv, Shapes, Unpacking
<1>2. PICK m : /\ out' = [out EXCEPT !.model = m]
               /\ \/ pc' = "copy"
                  \/ pc' = "stamp" /\ m = request.version
  BY DEF CreateModel, CopyModel
<1>3. out' = [out EXCEPT !.model = m, !.stamp = "none"] /\ out'.model = m /\ out'.stamp = "none"
  BY <1>1, <1>2
<1>4. Unpacking'
  BY <1>1, <1>2, <1>3 DEF Unpacking
<1> QED BY <1>1, <1>2, <1>3, <1>4, UnpackStep DEF SailSteps

LEMMA StampKeeps ==
  ASSUME LInv, CreateStamp \/ WriteStamp
  PROVE  LInv'
<1>1. /\ UNCHANGED <<site, request, product, outcome, dirty, stale>>
      /\ out = [model |-> out.model, stamp |-> out.stamp, gmp |-> out.gmp]
      /\ pc \in {"stamp", "trailer"} /\ out.model = request.version /\ request.model = "vendored"
  BY DEF CreateStamp, WriteStamp, world, LInv, Shapes, Unpacking
<1>2. PICK s : /\ out' = [out EXCEPT !.stamp = s]
               /\ \/ pc' = "trailer" /\ s = "torn"
                  \/ pc' = "resolve" /\ s = request.version
  BY DEF CreateStamp, WriteStamp
<1>3. /\ out' = [out EXCEPT !.model = request.version, !.stamp = s]
      /\ out'.model = request.version /\ out'.stamp = s
  BY <1>1, <1>2
<1>4. Unpacking'
  BY <1>1, <1>2, <1>3 DEF Unpacking
<1> QED BY <1>1, <1>2, <1>3, <1>4, UnpackStep DEF SailSteps

LEMMA InterruptKeeps ==
  ASSUME LInv, Interrupt
  PROVE  LInv'
BY PanicKeeps DEF Interrupt

-----------------------------------------------------------------------------
(* The rest of build_sail *)

\* A step that only moves on, past the unpacking, to the next part of the build.
LEMMA MoveKeeps ==
  ASSUME LInv, pc # "idle",
         UNCHANGED <<site, request, out, product, outcome, dirty, stale>>,
         \/ pc = "model" /\ pc' = "resolve" /\ request.model # "vendored"
         \/ pc = "resolve" /\ pc' = "probe"
         \/ pc = "probe" /\ pc' = "sail"
         \/ pc = "static" /\ pc' = "bochs"
         \/ pc = "bochs" /\ pc' = "dll" /\ ~Has("bochs")
  PROVE  LInv'
<1>1. Shapes' /\ Stamped' /\ EditsAreSeen'
  BY DEF LInv, Shapes, Stamped, EditsAreSeen
<1>2. Unpacking' /\ Built'
  BY DEF LInv, Unpacking, Built
<1>3. Compiling'
  <2>1. ~Has("bochs") => SailTrees(request) \cup BochsTrees(request) = SailTrees(request)
    BY DEF BochsTrees, Bochs, Has
  <2>2. /\ emit_hardware_cfgs(request)' = emit_hardware_cfgs(request)
        /\ SailTrees(request)' = SailTrees(request) /\ BochsTrees(request)' = BochsTrees(request)
        /\ Sail(request)' = Sail(request) /\ ModelIsOwn(request)' = ModelIsOwn(request)
    BY DEF ModelIsOwn
  <2>3. pc \in {"resolve", "probe", "model"} \/ pc = "static" \/ pc = "bochs"
    OBVIOUS
  <2> HIDE DEF emit_hardware_cfgs, SailTrees, BochsTrees, Sail, ModelIsOwn, Has
  <2>4. CASE pc \in {"model", "resolve", "probe"}
    <3>1. pc' \in {"resolve", "probe", "sail"}
      BY <2>4
    <3> QED BY <2>2, <2>4, <3>1 DEF LInv, Compiling, SailSteps
  <2>5. CASE pc \in {"static", "bochs"}
    BY <2>1, <2>2, <2>5 DEF LInv, Compiling, SailSteps
  <2> QED BY <2>3, <2>4, <2>5
<1> QED BY <1>1, <1>2, <1>3 DEF LInv

LEMMA ChecksKeep ==
  ASSUME LInv, UseGivenModel \/ ResolveGmp \/ Probe \/ CheckStatic
  PROVE  LInv'
<1>1. CASE UseGivenModel
  BY <1>1, PanicKeeps, MoveKeeps DEF UseGivenModel, world
<1>2. CASE ResolveGmp
  BY <1>2, PanicKeeps, MoveKeeps DEF ResolveGmp, world
<1>3. CASE Probe
  <2>1. \/ \E why : Panic(why)
        \/ pc = "probe" /\ pc' = "sail" /\ UNCHANGED <<world, out, gmp, product, outcome>>
    BY <1>3 DEF Probe
  <2> QED BY <2>1, PanicKeeps, MoveKeeps DEF world
<1>4. CASE CheckStatic
  <2>1. \/ \E why : Panic(why)
        \/ pc = "static" /\ pc' = "bochs" /\ UNCHANGED <<world, out, gmp, product, outcome>>
    BY <1>4 DEF CheckStatic
  <2> QED BY <2>1, PanicKeeps, MoveKeeps DEF world
<1> QED BY <1>1, <1>2, <1>3, <1>4

\* The trees compiled are no longer stale, and the model compiled is the one unpacked.
LEMMA CompileSailKeeps ==
  ASSUME LInv, CompileSail
  PROVE  LInv'
<1>1. PICK m, e : product' = [product EXCEPT !.model = m, !.trees = @ \cup SailTrees(request), !.exports = e]
                  /\ m = IF request.model = "vendored" THEN out.model ELSE product.model
  BY DEF CompileSail
<1>2. /\ pc = "sail" /\ pc' = "static" /\ stale' = stale \ SailTrees(request)
      /\ UNCHANGED <<site, request, out, outcome, dirty>>
  BY DEF CompileSail
<1>3. product.trees = {}
  BY <1>2 DEF LInv, Compiling, SailSteps
<1>4. product' = [of |-> product.of, cfgs |-> product.cfgs, model |-> m,
                  trees |-> SailTrees(request), exports |-> e, dll |-> product.dll]
  <2> HIDE DEF SailTrees
  <2>1. product.trees \cup SailTrees(request) = SailTrees(request)
    BY <1>3
  <2> QED BY <1>1, <2>1 DEF LInv, Shapes
<1>5. Shapes' /\ Stamped'
  BY <1>2, <1>4 DEF LInv, Shapes, Stamped
<1>6. EditsAreSeen'
  BY <1>2, <1>4 DEF EditsAreSeen
<1>7. Unpacking' /\ Built'
  BY <1>2 DEF Unpacking, Built
<1>8. Compiling'
  <2>1. ModelIsOwn(request)'
    BY <1>1, <1>2, <1>4 DEF ModelIsOwn, LInv, Unpacking
  <2>2. emit_hardware_cfgs(request)' = emit_hardware_cfgs(request) /\ SailTrees(request)' = SailTrees(request)
    BY <1>2
  <2> HIDE DEF emit_hardware_cfgs, SailTrees, ModelIsOwn
  <2> QED BY <1>2, <1>4, <2>1, <2>2 DEF LInv, Compiling, SailSteps
<1> QED BY <1>5, <1>6, <1>7, <1>8 DEF LInv

-----------------------------------------------------------------------------
(* build_bochs, link_dll *)

LEMMA BuildBochsKeeps ==
  ASSUME LInv, BuildBochs
  PROVE  LInv'
<1>1. CASE \E why : Panic(why)
  BY <1>1, PanicKeeps
<1>2. CASE /\ ~Has("bochs") /\ pc' = "dll"
           /\ UNCHANGED <<world, out, gmp, product, outcome>>
  BY <1>2, MoveKeeps DEF BuildBochs, world
<1>3. CASE /\ pc' = "dll" /\ stale' = stale \ BochsTrees(request)
           /\ \E e : product' = [product EXCEPT !.trees = @ \cup BochsTrees(request), !.exports = e]
           /\ UNCHANGED <<site, request, out, gmp, outcome, dirty, asks, edits>>
  <2>1. PICK e : product' = [product EXCEPT !.trees = @ \cup BochsTrees(request), !.exports = e]
    BY <1>3
  <2>2. pc = "bochs" /\ product.trees = SailTrees(request)
    BY DEF BuildBochs, LInv, Compiling
  <2>3. product' = [of |-> product.of, cfgs |-> product.cfgs, model |-> product.model,
                    trees |-> SailTrees(request) \cup BochsTrees(request), exports |-> e, dll |-> product.dll]
    <3> HIDE DEF SailTrees, BochsTrees
    <3> QED BY <2>1, <2>2 DEF LInv, Shapes
  <2>4. Shapes' /\ Stamped'
    BY <1>3, <2>3 DEF LInv, Shapes, Stamped
  <2>5. EditsAreSeen'
    <3> HIDE DEF SailTrees, BochsTrees
    <3> QED BY <1>3, <2>2, <2>3 DEF LInv, EditsAreSeen
  <2>6. Unpacking' /\ Built'
    BY <1>3 DEF Unpacking, Built
  <2>7. Compiling'
    <3>1. ModelIsOwn(request)'
      BY <1>3, <2>2, <2>3 DEF ModelIsOwn, LInv, Compiling
    <3>2. /\ emit_hardware_cfgs(request)' = emit_hardware_cfgs(request)
          /\ (SailTrees(request) \cup BochsTrees(request))' = SailTrees(request) \cup BochsTrees(request)
      BY <1>3
    <3> HIDE DEF emit_hardware_cfgs, SailTrees, BochsTrees, ModelIsOwn
    <3> QED BY <1>3, <2>2, <2>3, <3>1, <3>2 DEF LInv, Compiling, SailSteps
  <2> QED BY <2>4, <2>5, <2>6, <2>7 DEF LInv
<1> QED BY <1>1, <1>2, <1>3 DEF BuildBochs

LEMMA LinkDllKeeps ==
  ASSUME LInv, LinkDll
  PROVE  LInv'
<1>1. CASE \E why : Panic(why)
  BY <1>1, PanicKeeps
<1>2. CASE \E dll, g : /\ product' = [product EXCEPT !.dll = dll] /\ out' = [out EXCEPT !.gmp = g]
                       /\ End("built", "") /\ UNCHANGED <<world, gmp>>
  <2>1. PICK dll, g : product' = [product EXCEPT !.dll = dll] /\ out' = [out EXCEPT !.gmp = g]
    BY <1>2
  <2>2. /\ pc' = "idle" /\ UNCHANGED <<site, request, dirty, stale>>
    BY <1>2 DEF End, world
  <2>3. /\ product' = [of |-> product.of, cfgs |-> product.cfgs, model |-> product.model,
                       trees |-> product.trees, exports |-> product.exports, dll |-> dll]
        /\ out' = [model |-> out.model, stamp |-> out.stamp, gmp |-> g]
    BY <2>1 DEF LInv, Shapes
  <2>4. Shapes' /\ Stamped' /\ EditsAreSeen'
    BY <2>2, <2>3 DEF LInv, Shapes, Stamped, EditsAreSeen
  <2>5. Unpacking' /\ Compiling'
    BY <2>2 DEF Unpacking, Compiling, SailSteps
  <2>6. pc = "dll"
    BY DEF LinkDll
  <2>7. Built'
    <3>1. /\ product.of = request /\ product.cfgs = emit_hardware_cfgs(request)
          /\ product.trees = SailTrees(request) \cup BochsTrees(request) /\ ModelIsOwn(request)
      BY <2>6 DEF LInv, Compiling
    <3>2. product'.of = request /\ product'.cfgs = product.cfgs /\ product'.trees = product.trees
          /\ product'.model = product.model
      BY <2>3, <3>1
    <3>3. ModelIsOwn(request)'
      BY <2>2, <3>1, <3>2 DEF ModelIsOwn
    <3>4. request.runtime \in {"runtime", "ext_runtime"}
      BY RequestFacts
    <3>5. (product.of)' = request /\ request' = request
      BY <2>2, <3>2
    <3>6. /\ (SailTrees(product.of) \cup BochsTrees(product.of))' = SailTrees(request) \cup BochsTrees(request)
          /\ emit_hardware_cfgs(product.of)' = emit_hardware_cfgs(request)
      BY <3>5
    <3>7. ModelIsOwn(product.of)'
      BY <3>3, <3>5 DEF ModelIsOwn
    <3> HIDE DEF emit_hardware_cfgs, SailTrees, BochsTrees, ModelIsOwn
    <3> QED BY <3>1, <3>2, <3>4, <3>5, <3>6, <3>7 DEF Built
  <2> QED BY <2>4, <2>5, <2>7 DEF LInv
<1>3. \/ \E why : Panic(why)
      \/ End("built", "") /\ UNCHANGED <<world, out, gmp, product>>
      \/ /\ product' = [product EXCEPT !.dll = TRUE] /\ End("built", "") /\ UNCHANGED <<world, gmp>>
         /\ UNCHANGED out \/ out' = [out EXCEPT !.gmp = gmp_bin]
  BY DEF LinkDll
<1>4. product = [product EXCEPT !.dll = product.dll] /\ out = [out EXCEPT !.gmp = out.gmp]
  BY DEF LInv, Shapes
<1>5. End("built", "") /\ UNCHANGED <<world, out, gmp, product>>
      => \E dll, g : /\ product' = [product EXCEPT !.dll = dll] /\ out' = [out EXCEPT !.gmp = g]
                     /\ End("built", "") /\ UNCHANGED <<world, gmp>>
  <2> SUFFICES ASSUME End("built", ""), UNCHANGED <<world, out, gmp, product>>
               PROVE  product' = [product EXCEPT !.dll = product.dll] /\ out' = [out EXCEPT !.gmp = out.gmp]
    OBVIOUS
  <2> QED BY <1>4
<1> HIDE DEF gmp_bin, End, Panic
<1> QED BY <1>1, <1>2, <1>3, <1>4, <1>5

-----------------------------------------------------------------------------
(* The invariant *)

LEMMA LInit == Init => LInv
<1> SUFFICES ASSUME Init PROVE LInv
  OBVIOUS
<1>1. /\ out = [model |-> "none", stamp |-> "none", gmp |-> Unset]
      /\ product = NoProduct /\ stale = {} /\ pc = "idle" /\ outcome.kind = "none"
      /\ site \in Sites /\ request \in site.requests
  BY DEF Init
<1>2. Shapes /\ Stamped /\ EditsAreSeen
  BY <1>1 DEF NoProduct, Shapes, Stamped, EditsAreSeen
<1>3. Unpacking /\ Compiling /\ Built
  BY <1>1 DEF Unpacking, Compiling, Built, SailSteps
<1> QED BY <1>2, <1>3 DEF LInv

LEMMA StutterKeeps ==
  ASSUME LInv, UNCHANGED vars
  PROVE  LInv'
<1>1. UNCHANGED <<site, request, out, pc, product, outcome, dirty, stale>>
  BY DEF vars
<1>2. Shapes' /\ Stamped' /\ EditsAreSeen'
  BY <1>1 DEF LInv, Shapes, Stamped, EditsAreSeen
<1>3. Unpacking' /\ Compiling' /\ Built'
  BY <1>1 DEF LInv, Unpacking, Compiling, Built, SailSteps, ModelIsOwn
<1> QED BY <1>2, <1>3 DEF LInv

LEMMA LStep == LInv /\ [Next]_vars => LInv'
<1> SUFFICES ASSUME LInv, [Next]_vars PROVE LInv'
  OBVIOUS
<1>1. CASE UNCHANGED vars
  BY <1>1, StutterKeeps
<1>2. CASE \E r \in site.requests : Ask(r)
  BY <1>2, AskKeeps
<1>3. CASE \E t \in Trees : Edit(t)
  BY <1>3, EditKeeps
<1>4. CASE Begin \/ Interrupt
  BY <1>4, BeginKeeps, InterruptKeeps
<1>5. CASE Unpack \/ CreateModel \/ CopyModel \/ CreateStamp \/ WriteStamp
  BY <1>5, UnpackKeeps, CreateModelKeeps, StampKeeps
<1>6. CASE UseGivenModel \/ ResolveGmp \/ Probe \/ CheckStatic
  BY <1>6, ChecksKeep
<1>7. CASE CompileSail
  BY <1>7, CompileSailKeeps
<1>8. CASE BuildBochs \/ LinkDll
  BY <1>8, BuildBochsKeeps, LinkDllKeeps
<1> QED BY <1>1, <1>2, <1>3, <1>4, <1>5, <1>6, <1>7, <1>8 DEF Next

\* OUT_DIR outlives builds and interruptions, but a stamp that is whole always vouches
\* for the model beside it, and every edit since a tree was compiled is one Cargo has
\* yet to see: what build.rs relies on when it skips the unpacking or is not run.
THEOREM LibraryInvariant == Spec => []LInv
BY LInit, LStep, PTL DEF Spec

\* Requests that differ in nothing Cargo watches are for the same build.
LEMMA SameKey ==
  ASSUME NEW p, NEW r, Key(p) = Key(r)
  PROVE  /\ p.version = r.version /\ p.features = r.features /\ p.os = r.os
         /\ p.msvc = r.msvc /\ p.static = r.static
         /\ Sail(p) = Sail(r) /\ Bochs(p) = Bochs(r)
         /\ Sail(r) => /\ p.model = r.model /\ p.runtime = r.runtime
                       /\ p.GMP_DIR = r.GMP_DIR /\ p.GMP_INCLUDE_DIR = r.GMP_INCLUDE_DIR
                       /\ p.GMP_LIB_DIR = r.GMP_LIB_DIR /\ p.GMP_LIB_NAME = r.GMP_LIB_NAME
         /\ Bochs(r) => p.bochs = r.bochs
<1>1. /\ p.version = r.version /\ p.features = r.features /\ p.os = r.os
      /\ p.msvc = r.msvc /\ p.static = r.static
  BY DEF Key
<1>2. Sail(p) = Sail(r) /\ Bochs(p) = Bochs(r)
  BY <1>1 DEF Sail, Bochs
<1>3. ASSUME Sail(r)
      PROVE  /\ p.model = r.model /\ p.runtime = r.runtime
             /\ p.GMP_DIR = r.GMP_DIR /\ p.GMP_INCLUDE_DIR = r.GMP_INCLUDE_DIR
             /\ p.GMP_LIB_DIR = r.GMP_LIB_DIR /\ p.GMP_LIB_NAME = r.GMP_LIB_NAME
  <2>1. Key(p)[6] = Key(r)[6]
    OBVIOUS
  <2>2. << p.model, p.runtime, p.GMP_DIR, p.GMP_INCLUDE_DIR, p.GMP_LIB_DIR, p.GMP_LIB_NAME >>
        = << r.model, r.runtime, r.GMP_DIR, r.GMP_INCLUDE_DIR, r.GMP_LIB_DIR, r.GMP_LIB_NAME >>
    BY <1>2, <1>3, <2>1 DEF Key
  <2> QED BY <2>2
<1>4. ASSUME Bochs(r) PROVE p.bochs = r.bochs
  <2>1. Key(p)[7] = Key(r)[7]
    OBVIOUS
  <2> QED BY <1>2, <1>4, <2>1 DEF Key
<1> QED BY <1>1, <1>2, <1>3, <1>4

LEMMA InvariantIsCurrent == LInv => LibraryIsCurrent
<1> SUFFICES ASSUME LInv, Satisfied
             PROVE  /\ Sail(request) /\ request.model = "vendored" => product.model = request.version
                    /\ product.trees = SailTrees(request) \cup BochsTrees(request)
                    /\ stale \cap product.trees \subseteq {"ext_runtime"}
                    /\ product.cfgs = {b \in {"kvm", "whp"} \cap request.features :
                         <<b, request.os>> \in {<<"kvm", "linux">>, <<"whp", "windows">>}}
  BY DEF LibraryIsCurrent, Sail
<1>1. /\ Key(product.of) = Key(request) /\ dirty \cap WatchedTrees(product.of) = {}
      /\ product.trees = SailTrees(product.of) \cup BochsTrees(product.of)
      /\ product.cfgs = emit_hardware_cfgs(product.of)
      /\ ModelIsOwn(product.of)
      /\ Sail(product.of) => product.of.runtime \in {"runtime", "ext_runtime"}
  <2>1. pc = "idle" /\ ~NeedsRun
    BY DEF Satisfied
  <2>2. outcome.kind = "built" /\ Key(product.of) = Key(request) /\ dirty \cap WatchedTrees(product.of) = {}
    <3> HIDE DEF Key, WatchedTrees
    <3> QED BY <2>1 DEF NeedsRun
  <2> HIDE DEF Key, WatchedTrees, SailTrees, BochsTrees, emit_hardware_cfgs, ModelIsOwn, Sail
  <2>3. Built
    BY DEF LInv
  <2> QED BY <2>1, <2>2, <2>3 DEF Built
<1> DEFINE p == product.of
<1>2. /\ p.version = request.version /\ p.features = request.features /\ p.os = request.os
      /\ Sail(p) = Sail(request) /\ Bochs(p) = Bochs(request)
      /\ Sail(request) => p.model = request.model /\ p.runtime = request.runtime
      /\ Bochs(request) => p.bochs = request.bochs
  <2> HIDE DEF p
  <2> QED BY <1>1, SameKey DEF p
<1>3. Sail(request) /\ request.model = "vendored" => product.model = request.version
  BY <1>1, <1>2 DEF ModelIsOwn
<1>4. product.trees = SailTrees(request) \cup BochsTrees(request)
  BY <1>1, <1>2 DEF SailTrees, BochsTrees
<1>5. stale \cap product.trees \subseteq {"ext_runtime"}
  <2>1. product.trees \subseteq WatchedTrees(p) \cup {"ext_runtime"}
    BY <1>1 DEF SailTrees, BochsTrees, WatchedTrees
  <2>2. stale \cap product.trees \subseteq dirty
    BY DEF LInv, EditsAreSeen
  <2> QED BY <1>1, <2>1, <2>2
<1>6. product.cfgs = {b \in {"kvm", "whp"} \cap request.features :
                        <<b, request.os>> \in {<<"kvm", "linux">>, <<"whp", "windows">>}}
  <2>1. product.cfgs = {b \in {"kvm", "whp"} : b \in request.features
                                               /\ request.os = IF b = "kvm" THEN "linux" ELSE "windows"}
    BY <1>1, <1>2 DEF emit_hardware_cfgs
  <2> QED BY <2>1
<1> QED BY <1>3, <1>4, <1>5, <1>6

\* When Cargo has nothing left to do, the library is what was asked for: the crate's
\* own model, whole, or the one named, no compiled tree edited unnoticed (an external
\* runtime, which is not watched, aside), and the cfgs of this target, whatever builds
\* came before and wherever they were interrupted.
THEOREM BuildIsCurrent == Spec => []LibraryIsCurrent
BY LibraryInvariant, InvariantIsCurrent, PTL

-----------------------------------------------------------------------------
(* Searches *)

LEMMA LeastExists ==
  ASSUME NEW S, S \subseteq Nat, S # {}
  PROVE  Min(S) \in S
<1> DEFINE R == {ss \in Nat \X Nat : ss[1] < ss[2]}
<1>1. IsWellFoundedOn(R, Nat)
  BY NatLessThanWellFounded DEF OpToRel
<1>2. \A x, y \in Nat : y < x => <<y, x>> \in R
  OBVIOUS
<1> HIDE DEF R
<1>3. PICK x \in S : \A y \in S : ~(<<y, x>> \in R)
  BY <1>1, WFMin
<1>4. ASSUME NEW y \in S PROVE x <= y
  <2>1. x \in Nat /\ y \in Nat
    OBVIOUS
  <2>2. ~(y < x)
    BY <1>2, <1>3, <2>1, Zenon
  <2> QED BY <2>1, <2>2
<1> QED BY <1>3, <1>4 DEF Min

\* First finds one of the directories looked for, or there is none on the list.
LEMMA FirstFacts ==
  ASSUME NEW dirs, Len(dirs) \in Nat, NEW good
  PROVE  \/ First(dirs, good) \in good
         \/ First(dirs, good) = Unset /\ \A i \in 1..Len(dirs) : dirs[i] \notin good
<1> DEFINE I == {i \in 1..Len(dirs) : dirs[i] \in good}
<1>1. SelectInSeq(dirs, LAMBDA d : d \in good) = IF I # {} THEN Min(I) ELSE 0
  BY DEF SelectInSeq
<1>2. First(dirs, good) = IF I # {} THEN (IF Min(I) = 0 THEN Unset ELSE dirs[Min(I)]) ELSE Unset
  BY <1>1 DEF First
<1>3. CASE I = {}
  BY <1>2, <1>3
<1>4. CASE I # {}
  <2>1. Min(I) \in I
    BY <1>4, LeastExists
  <2> HIDE DEF I
  <2>2. Min(I) # 0 /\ dirs[Min(I)] \in good
    BY <2>1 DEF I
  <2> QED BY <1>2, <1>4, <2>2
<1> QED BY <1>3, <1>4

LEMMA PathFacts ==
  ASSUME site \in Sites
  PROVE  /\ \A l \in {site.INCLUDE, site.LIB, site.PATH} : Len(l) \in Nat /\ DOMAIN l = 1..Len(l)
         /\ \A sub : /\ Len(Structured(sub)) \in Nat
                     /\ DOMAIN Structured(sub) = 1..Len(Structured(sub))
<1>1. \A l \in {site.INCLUDE, site.LIB, site.PATH} : Len(l) \in Nat /\ DOMAIN l = 1..Len(l)
  <2>1. {site.INCLUDE, site.LIB, site.PATH} \subseteq Seq(Seq(STRING))
    BY SitesAssumption
  <2> QED BY <2>1
<1>2. 2 * Len(site.PATH) \in Nat
  BY <1>1
<1>3. ASSUME NEW sub
      PROVE  Len(Structured(sub)) \in Nat /\ DOMAIN Structured(sub) = 1..Len(Structured(sub))
  <2>1. DOMAIN Structured(sub) = 1..(2 * Len(site.PATH))
    BY DEF Structured
  <2>2. Len(Structured(sub)) = 2 * Len(site.PATH)
    BY <1>2, <2>1
  <2> QED BY <1>2, <2>1, <2>2
<1> QED BY <1>1, <1>3

\* What build_sail finds, or else nothing it searched would have done.
LEMMA FindFacts ==
  ASSUME site \in Sites, NEW list \in {site.INCLUDE, site.LIB}, NEW sub,
         NEW good, Unset \notin good
  PROVE  \/ Find(list, sub, good) \in good
         \/ Find(list, sub, good) = Unset /\ \A d \in Searched(sub, list) : d \notin good
<1> DEFINE a == First(list, good)
           b == First(Structured(sub), good)
           c == First(site.PATH, good)
<1>1. a \in good \/ (a = Unset /\ \A i \in 1..Len(list) : list[i] \notin good)
  BY PathFacts, FirstFacts
<1>2. b \in good \/ (b = Unset /\ \A i \in 1..Len(Structured(sub)) : Structured(sub)[i] \notin good)
  BY PathFacts, FirstFacts
<1>3. c \in good \/ (c = Unset /\ \A i \in 1..Len(site.PATH) : site.PATH[i] \notin good)
  BY PathFacts, FirstFacts
<1>4. Find(list, sub, good) = IF a # Unset THEN a ELSE IF b # Unset THEN b ELSE c
  BY DEF Find, Or
<1>5. /\ DOMAIN list = 1..Len(list) /\ DOMAIN site.PATH = 1..Len(site.PATH)
      /\ DOMAIN Structured(sub) = 1..Len(Structured(sub))
  BY PathFacts
<1> HIDE DEF a, b, c
<1>6. CASE a \in good \/ b \in good \/ c \in good
  BY <1>1, <1>2, <1>3, <1>4, <1>6
<1>7. CASE a \notin good /\ b \notin good /\ c \notin good
  <2>1. Find(list, sub, good) = Unset
    BY <1>1, <1>2, <1>3, <1>4, <1>7
  <2>2. \A d \in Searched(sub, list) : d \notin good
    BY <1>1, <1>2, <1>3, <1>5, <1>7 DEF Searched
  <2> QED BY <2>1, <2>2
<1> QED BY <1>6, <1>7

\* The member that settles what an archive is: an import library is seen for what it
\* is, and a static one is not taken for it.
LEMMA ArchiveFacts ==
  ASSUME NEW lib \in Seq(STRING)
  PROVE  /\ IsImport(lib) => archive_is_static(lib) = "import"
         /\ IsStatic(lib) => archive_is_static(lib) # "import"
<1> DEFINE Decisive == DllMembers \cup {"broken"}
           I == {i \in 1..Len(lib) : lib[i] \in Decisive}
           decisive == IF I # {} THEN Min(I) ELSE 0
<1>1. SelectInSeq(lib, LAMBDA m : m \in Decisive) = decisive
  BY DEF SelectInSeq
<1>2. archive_is_static(lib) =
        IF lib = NotArchive THEN "unknown"
        ELSE IF decisive # 0 THEN IF lib[decisive] = "broken" THEN "unknown" ELSE "import"
        ELSE IF Contains(lib, "object") THEN "static" ELSE "unknown"
  <2> HIDE DEF decisive
  <2> QED BY <1>1 DEF archive_is_static
<1>3. I # {} => decisive \in I
  <2>1. I \subseteq Nat
    OBVIOUS
  <2> HIDE DEF I
  <2> QED BY <2>1, LeastExists
<1>4. IsImport(lib) => lib # NotArchive /\ I # {} /\ \A i \in I : lib[i] # "broken"
  BY DEF IsImport, Contains
<1>5. IsStatic(lib) => I = {}
  BY DEF IsStatic, Contains
<1>6. \A i \in I : i # 0
  OBVIOUS
<1>7. I = {} => decisive = 0
  OBVIOUS
<1> HIDE DEF I, decisive
<1> QED BY <1>2, <1>3, <1>4, <1>5, <1>6, <1>7

LEMMA FileFacts ==
  ASSUME site \in Sites, NEW d, NEW f, IsFile(d, f)
  PROVE  d \in DOMAIN site.disk /\ Files(d)[f] \in Seq(STRING)
<1>1. d \in DOMAIN site.disk
  BY DEF IsFile, Files
<1>2. f \in DOMAIN site.disk[d] /\ Files(d) = site.disk[d]
  BY <1>1 DEF IsFile, Files
<1> QED BY <1>1, <1>2, SitesAssumption

\* What the search for each half of GMP comes to, if nothing names it.
LEMMA ResolvedFacts ==
  ASSUME site \in Sites, NEW r, gmp = Resolved(r), system_gmp(r), ~Explicit(r)
  PROVE  /\ \/ gmp.inc \in HeaderDirs
            \/ gmp.inc = Unset /\ \A d \in Searched("include", site.INCLUDE) : d \notin HeaderDirs
         /\ \/ gmp.lib \in LibDirs(r.static)
            \/ gmp.lib = Unset /\ \A d \in Searched("lib", site.LIB) : d \notin LibDirs(r.static)
<1>1. Unset \notin HeaderDirs /\ Unset \notin LibDirs(r.static)
  BY SitesAssumption DEF HeaderDirs, LibDirs
<1>2. /\ gmp.inc = Find(site.INCLUDE, "include", HeaderDirs)
      /\ gmp.lib = Find(site.LIB, "lib", LibDirs(r.static))
  BY DEF Resolved
<1> HIDE DEF HeaderDirs, LibDirs
<1>3. \/ Find(site.INCLUDE, "include", HeaderDirs) \in HeaderDirs
      \/ /\ Find(site.INCLUDE, "include", HeaderDirs) = Unset
         /\ \A d \in Searched("include", site.INCLUDE) : d \notin HeaderDirs
  BY <1>1, FindFacts
<1>4. \/ Find(site.LIB, "lib", LibDirs(r.static)) \in LibDirs(r.static)
      \/ /\ Find(site.LIB, "lib", LibDirs(r.static)) = Unset
         /\ \A d \in Searched("lib", site.LIB) : d \notin LibDirs(r.static)
  BY <1>1, FindFacts
<1> QED BY <1>2, <1>3, <1>4

\* The probe fails only if there is no header to find.
LEMMA HeaderIsMissing ==
  ASSUME site \in Sites, NEW r, gmp = Resolved(r), system_gmp(r), ~HeaderCompiles
  PROVE  Justified(r, "header")
<1>1. ~site.toolchain /\ ~HasHeader(gmp.inc)
  BY DEF HeaderCompiles
<1>2. CASE Explicit(r)
  <2>1. gmp.inc = explicit_include(r)
    BY <1>2 DEF Resolved
  <2> QED BY <1>1, <1>2, <2>1 DEF Justified
<1>3. CASE ~Explicit(r)
  <2>1. \A d : HasHeader(d) => d \in HeaderDirs
    BY FileFacts DEF HasHeader, HeaderDirs
  <2>2. gmp.inc \notin HeaderDirs
    BY <1>1 DEF HeaderDirs
  <2>3. \A d \in Searched("include", site.INCLUDE) : d \notin HeaderDirs
    BY <1>3, <2>2, ResolvedFacts
  <2>4. \A d \in Searched("include", site.INCLUDE) : ~HasHeader(d)
    BY <2>1, <2>3
  <2> QED BY <1>1, <1>3, <2>4 DEF Justified
<1> QED BY <1>2, <1>3

\* A directory that a search for static archives found has one that is no import library.
LEMMA ImportIsNamed ==
  ASSUME site \in Sites, NEW r, gmp = Resolved(r), system_gmp(r), r.static = TRUE, gmp.lib # Unset
  PROVE  Justified(r, "import")
<1>1. CASE Explicit(r)
  BY <1>1 DEF Justified
<1>2. CASE ~Explicit(r)
  <2>1. gmp.lib \in LibDirs(TRUE)
    BY <1>2, ResolvedFacts
  <2>2. PICK f \in Archives : IsFile(gmp.lib, f) /\ archive_is_static(Files(gmp.lib)[f]) # "import"
    BY <2>1 DEF LibDirs, gmp_lib_present
  <2>3. Files(gmp.lib)[f] \in Seq(STRING)
    BY <2>2, FileFacts
  <2>4. ~IsImport(Files(gmp.lib)[f])
    BY <2>2, <2>3, ArchiveFacts
  <2> QED BY <2>2, <2>4 DEF Justified
<1> QED BY <1>1, <1>2

\* A build that passes both checks has the system's GMP.
LEMMA ChecksSuffice ==
  ASSUME site \in Sites, NEW r, r.static \in BOOLEAN, gmp = Resolved(r), system_gmp(r),
         HeaderCompiles, ~(r.static /\ gmp.lib # Unset /\ ImportLibs(r) # {})
  PROVE  GmpIsSystems(r)
<1>1. ASSUME r.static, gmp.lib # Unset, NEW name \in LinkNames(r), IsFile(gmp.lib, name)
      PROVE  ~IsImport(Files(gmp.lib)[name])
  <2>1. archive_is_static(Files(gmp.lib)[name]) # "import"
    BY <1>1 DEF ImportLibs
  <2>2. Files(gmp.lib)[name] \in Seq(STRING)
    BY <1>1, FileFacts
  <2> QED BY <2>1, <2>2, ArchiveFacts
<1>2. ASSUME r.static, ~Explicit(r), gmp.lib = Unset, NEW d \in Searched("lib", site.LIB)
      PROVE  ~HoldsStatic(d)
  <2> SUFFICES ASSUME HoldsStatic(d) PROVE FALSE
    OBVIOUS
  <2>1. PICK name \in Archives : IsFile(d, name) /\ IsStatic(Files(d)[name])
    BY DEF HoldsStatic
  <2>2. d \in DOMAIN site.disk /\ archive_is_static(Files(d)[name]) # "import"
    BY <2>1, FileFacts, ArchiveFacts
  <2>3. d \in LibDirs(TRUE)
    BY <2>1, <2>2 DEF LibDirs, gmp_lib_present
  <2>4. Unset \notin LibDirs(TRUE)
    BY SitesAssumption DEF LibDirs
  <2>5. r.static = TRUE
    BY <1>2
  <2> QED BY <1>2, <2>3, <2>4, <2>5, ResolvedFacts
<1> QED BY <1>1, <1>2 DEF GmpIsSystems

-----------------------------------------------------------------------------
(* What a build was promised: the invariant *)

\* What the checks of build_sail have established, and what they need.
Checked ==
  /\ pc \in {"probe", "sail", "static"} => gmp = Resolved(request)
  /\ pc \in {"sail", "static"} /\ system_gmp(request) => HeaderCompiles
  /\ pc \in {"bochs", "dll"} /\ Sail(request) /\ system_gmp(request) => GmpIsSystems(request)

\* What a running build has for its DLL.
Exporting ==
  /\ pc # "idle" => product.dll = FALSE
  /\ pc \in {"static", "bochs", "dll"} /\ Sail(request) /\ request.msvc => "sail" \in product.exports
  /\ pc = "dll" /\ Bochs(request) /\ request.msvc => "bochs" \in product.exports

\* How a build ends, told of the request it was for.
Finished ==
  pc = "idle" /\ outcome.kind = "built" =>
    /\ Sail(product.of) /\ system_gmp(product.of) => GmpIsSystems(product.of)
    /\ DllIsWhole(product.of)

Failed == outcome.kind = "failed" => Justified(product.of, outcome.why)

OInv == Checked /\ Exporting /\ Finished /\ Failed

\* Only ResolveGmp changes where GMP is, and nothing changes the machine.
LEMMA SameMachine ==
  ASSUME UNCHANGED <<site, gmp>>
  PROVE  /\ HeaderCompiles' = HeaderCompiles /\ gmp_bin' = gmp_bin
         /\ \A d, f : IsFile(d, f)' = IsFile(d, f) /\ (Files(d)[f])' = Files(d)[f]
<1>1. \A d : Files(d)' = Files(d)
  BY DEF Files
<1>2. \A d, f : IsFile(d, f)' = IsFile(d, f)
  BY <1>1 DEF IsFile
<1>3. gmp_bin' = gmp_bin
  BY DEF gmp_bin
<1>4. HeaderCompiles' = HeaderCompiles
  BY <1>1 DEF HeaderCompiles, HasHeader, IsFile
<1> QED BY <1>1, <1>2, <1>3, <1>4

LEMMA SameDirectories ==
  ASSUME UNCHANGED site
  PROVE  /\ HeaderDirs' = HeaderDirs /\ \A s : LibDirs(s)' = LibDirs(s)
         /\ \A sub : Structured(sub)' = Structured(sub)
         /\ \A d : HasHeader(d)' = HasHeader(d) /\ HoldsStatic(d)' = HoldsStatic(d)
<1>1. \A d : Files(d)' = Files(d)
  BY DEF Files
<1>2. \A d, f : IsFile(d, f)' = IsFile(d, f)
  BY <1>1 DEF IsFile
<1>3. \A d : HasHeader(d)' = HasHeader(d) /\ HoldsStatic(d)' = HoldsStatic(d)
  BY <1>1, <1>2 DEF HasHeader, HoldsStatic
<1>4. \A d, s : gmp_lib_present(d, s)' = gmp_lib_present(d, s)
  BY <1>1, <1>2 DEF gmp_lib_present
<1>5. HeaderDirs' = HeaderDirs /\ \A s : LibDirs(s)' = LibDirs(s)
  BY <1>3, <1>4 DEF HeaderDirs, LibDirs
<1>6. \A sub : Structured(sub)' = Structured(sub)
  BY DEF Structured
<1> QED BY <1>3, <1>5, <1>6

LEMMA SameSearch ==
  ASSUME UNCHANGED site
  PROVE  /\ \A r : Resolved(r)' = Resolved(r)
         /\ \A sub : /\ Searched(sub, site.INCLUDE)' = Searched(sub, site.INCLUDE)
                     /\ Searched(sub, site.LIB)' = Searched(sub, site.LIB)
<1>1. \A sub : /\ Searched(sub, site.INCLUDE)' = Searched(sub, site.INCLUDE)
               /\ Searched(sub, site.LIB)' = Searched(sub, site.LIB)
  BY SameDirectories DEF Searched
<1>2. \A list, sub, good : Find(list, sub, good)' = Find(list, sub, good)
  BY SameDirectories DEF Find
<1>3. \A r : Resolved(r)' = Resolved(r)
  BY <1>2, SameDirectories DEF Resolved
<1> QED BY <1>1, <1>3

LEMMA SameVerdicts ==
  ASSUME UNCHANGED <<site, gmp>>
  PROVE  /\ \A r : GmpIsSystems(r)' = GmpIsSystems(r) /\ Copies(r)' = Copies(r)
         /\ \A r, why : Justified(r, why)' = Justified(r, why)
<1>1. \A r : GmpIsSystems(r)' = GmpIsSystems(r)
  BY SameMachine, SameDirectories, SameSearch DEF GmpIsSystems
<1>2. \A r : Copies(r)' = Copies(r)
  BY SameMachine DEF Copies
<1>3. \A r, why : Justified(r, why)' = Justified(r, why)
  BY SameMachine, SameDirectories, SameSearch DEF Justified
<1> QED BY <1>1, <1>2, <1>3

-----------------------------------------------------------------------------
(* Every step of the build *)

\* A build that fails, fails for a reason.
LEMMA PanicIsJustified ==
  ASSUME LInv, OInv, pc # "idle", NEW why, Justified(request, why), Panic(why)
  PROVE  OInv'
<1>1. /\ pc' = "idle" /\ outcome' = [kind |-> "failed", why |-> why]
      /\ UNCHANGED <<site, request, out, gmp, product>>
  BY DEF Panic, End, world
<1>2. Checked' /\ Exporting' /\ Finished'
  BY <1>1 DEF Checked, Exporting, Finished
<1>3. product.of = request
  BY DEF LInv, Compiling
<1>4. Justified(product.of, why)'
  BY <1>1, <1>3, SameVerdicts
<1>5. Failed'
  BY <1>1, <1>4 DEF Failed
<1> QED BY <1>2, <1>5 DEF OInv

LEMMA IdleKeepsPromises ==
  ASSUME OInv, pc = "idle", UNCHANGED <<site, out, pc, gmp, product, outcome>>
  PROVE  OInv'
<1>1. Checked' /\ Exporting'
  BY DEF Checked, Exporting
<1>2. GmpIsSystems(product.of)' = GmpIsSystems(product.of)
  BY SameVerdicts
<1>3. DllIsWhole(product.of)' = DllIsWhole(product.of)
  BY SameVerdicts, SameMachine DEF DllIsWhole
<1>4. \A why : Justified(product.of, why)' = Justified(product.of, why)
  BY SameVerdicts
<1>5. Sail(product.of)' = Sail(product.of) /\ system_gmp(product.of)' = system_gmp(product.of)
  OBVIOUS
<1>6. Finished'
  BY <1>2, <1>3, <1>5 DEF OInv, Finished
<1>7. Failed'
  BY <1>4 DEF OInv, Failed
<1> QED BY <1>1, <1>6, <1>7 DEF OInv

\* A step of a running build that moves on without ending it.
LEMMA MoveKeepsPromises ==
  ASSUME LInv, OInv, pc # "idle", pc' # "idle", outcome' = outcome,
         Checked', Exporting'
  PROVE  OInv'
<1>1. outcome.kind = "none"
  BY DEF LInv, Compiling
<1>2. Finished' /\ Failed'
  BY <1>1 DEF Finished, Failed
<1> QED BY <1>2 DEF OInv

\* Nothing a build relies on or has promised depends on what is edited, or on what
\* is asked once it has ended.
LEMMA BystandersKeepPromises ==
  ASSUME LInv, OInv, UNCHANGED <<site, out, pc, gmp, product, outcome>>,
         pc = "idle" \/ request' = request
  PROVE  OInv'
<1>1. CASE pc = "idle"
  BY <1>1, IdleKeepsPromises
<1>2. CASE pc # "idle"
  <2>1. /\ Resolved(request)' = Resolved(request) /\ HeaderCompiles' = HeaderCompiles
        /\ GmpIsSystems(request)' = GmpIsSystems(request)
    BY <1>2, SameSearch, SameMachine, SameVerdicts
  <2>2. Checked' /\ Exporting'
    BY <1>2, <2>1 DEF OInv, Checked, Exporting
  <2> QED BY <1>2, <2>2, MoveKeepsPromises
<1> QED BY <1>1, <1>2

LEMMA BeginKeepsPromises ==
  ASSUME Begin
  PROVE  OInv'
<1>1. /\ pc' = IF Has("sail") THEN "model" ELSE "bochs"
      /\ product' = [NoProduct EXCEPT !.of = request, !.cfgs = emit_hardware_cfgs(request)]
      /\ outcome' = [kind |-> "none", why |-> ""] /\ request' = request
  BY DEF Begin
<1>2. product'.dll = FALSE
  BY <1>1 DEF NoProduct
<1>3. pc' = "bochs" => ~Sail(request)'
  BY <1>1 DEF Has, Sail
<1>4. pc' \in {"model", "bochs"}
  BY <1>1
<1>5. Checked' /\ Exporting'
  BY <1>2, <1>3, <1>4 DEF Checked, Exporting
<1>6. Finished' /\ Failed'
  BY <1>1, <1>4 DEF Finished, Failed
<1> QED BY <1>5, <1>6 DEF OInv

LEMMA UnpackingKeepsPromises ==
  ASSUME LInv, OInv, Unpack \/ UseGivenModel \/ CreateModel \/ CopyModel \/ CreateStamp \/ WriteStamp
  PROVE  OInv'
<1>1. CASE Panic("sources") /\ request.model \in site.gone /\ pc = "model"
  BY <1>1, PanicIsJustified DEF Justified
<1>2. CASE /\ pc \in SailSteps /\ pc' \in {"create", "copy", "stamp", "trailer", "resolve"}
           /\ UNCHANGED <<site, request, gmp, product, outcome>>
  <2>1. product.dll = FALSE
    BY <1>2 DEF OInv, Exporting, SailSteps
  <2>2. Checked' /\ Exporting'
    BY <1>2, <2>1 DEF Checked, Exporting
  <2> QED BY <1>2, <2>2, MoveKeepsPromises DEF SailSteps
<1>3. CASE CreateModel \/ CopyModel \/ CreateStamp \/ WriteStamp
  BY <1>2, <1>3 DEF CreateModel, CopyModel, CreateStamp, WriteStamp, world, SailSteps
<1>4. CASE UseGivenModel
  BY <1>1, <1>2, <1>4 DEF UseGivenModel, world, SailSteps
<1>5. CASE Unpack
  BY <1>1, <1>2, <1>5 DEF Unpack, world, SailSteps
<1> QED BY <1>3, <1>4, <1>5

LEMMA ResolveKeepsPromises ==
  ASSUME LInv, OInv, ResolveGmp
  PROVE  OInv'
<1>1. CASE Panic("sources") /\ request.runtime \in site.gone
  BY <1>1, PanicIsJustified DEF ResolveGmp, Justified
<1>2. CASE gmp' = Resolved(request) /\ pc' = "probe" /\ UNCHANGED <<world, out, product, outcome>>
  <2>1. pc = "resolve" /\ UNCHANGED <<site, request, product, outcome>>
    BY <1>2 DEF ResolveGmp, world
  <2>2. (gmp = Resolved(request))'
    BY <1>2, <2>1, SameSearch
  <2>3. product.dll = FALSE
    BY <2>1 DEF OInv, Exporting
  <2>4. Checked' /\ Exporting'
    BY <1>2, <2>1, <2>2, <2>3 DEF Checked, Exporting
  <2> QED BY <1>2, <2>1, <2>4, MoveKeepsPromises
<1> QED BY <1>1, <1>2 DEF ResolveGmp

LEMMA ProbeKeepsPromises ==
  ASSUME LInv, OInv, Probe
  PROVE  OInv'
<1>1. pc = "probe" /\ gmp = Resolved(request) /\ site \in Sites /\ product.dll = FALSE
  BY DEF Probe, LInv, Shapes, OInv, Checked, Exporting
<1>2. CASE Panic("header") /\ system_gmp(request) /\ ~HeaderCompiles
  BY <1>1, <1>2, HeaderIsMissing, PanicIsJustified
<1>3. CASE /\ pc' = "sail" /\ UNCHANGED <<world, out, gmp, product, outcome>>
           /\ system_gmp(request) => HeaderCompiles
  <2>1. UNCHANGED <<site, request, gmp, product, outcome>>
    BY <1>3 DEF world
  <2>2. (gmp = Resolved(request))' /\ HeaderCompiles' = HeaderCompiles
    BY <1>1, <2>1, SameSearch, SameMachine
  <2>3. system_gmp(request)' = system_gmp(request)
    BY <2>1
  <2>4. Checked' /\ Exporting'
    BY <1>1, <1>3, <2>1, <2>2, <2>3 DEF Checked, Exporting
  <2> QED BY <1>1, <1>3, <2>1, <2>4, MoveKeepsPromises
<1> QED BY <1>2, <1>3 DEF Probe

LEMMA CompileKeepsPromises ==
  ASSUME LInv, OInv, CompileSail
  PROVE  OInv'
<1>1. PICK m, t : product' = [product EXCEPT !.model = m, !.trees = t,
                                !.exports = IF request.msvc THEN @ \cup {"sail"} ELSE @]
  BY DEF CompileSail
<1>2. pc = "sail" /\ pc' = "static" /\ UNCHANGED <<site, request, gmp, outcome>>
  BY DEF CompileSail
<1>3. product.dll = FALSE /\ gmp = Resolved(request) /\ (system_gmp(request) => HeaderCompiles)
  BY <1>2 DEF OInv, Exporting, Checked
<1>4. product'.dll = FALSE /\ (request.msvc => "sail" \in product'.exports)
  BY <1>1, <1>3 DEF LInv, Shapes
<1>5. (gmp = Resolved(request))' /\ HeaderCompiles' = HeaderCompiles
  BY <1>2, <1>3, SameSearch, SameMachine
<1>6. system_gmp(request)' = system_gmp(request)
  BY <1>2
<1>7. Checked' /\ Exporting'
  BY <1>2, <1>3, <1>4, <1>5, <1>6 DEF Checked, Exporting
<1> QED BY <1>2, <1>7, MoveKeepsPromises

LEMMA CheckKeepsPromises ==
  ASSUME LInv, OInv, CheckStatic
  PROVE  OInv'
<1> DEFINE Refused == system_gmp(request) /\ request.static /\ gmp.lib # Unset /\ ImportLibs(request) # {}
<1>1. /\ pc = "static" /\ gmp = Resolved(request) /\ site \in Sites /\ product.dll = FALSE
      /\ system_gmp(request) => HeaderCompiles
      /\ request.msvc /\ Sail(request) => "sail" \in product.exports
      /\ request.static \in BOOLEAN
  BY RequestsAssumption DEF CheckStatic, LInv, Shapes, OInv, Checked, Exporting
<1>2. CASE Panic("import") /\ Refused
  BY <1>1, <1>2, ImportIsNamed, PanicIsJustified
<1>3. CASE pc' = "bochs" /\ UNCHANGED <<world, out, gmp, product, outcome>> /\ ~Refused
  <2>1. UNCHANGED <<site, request, gmp, product, outcome>>
    BY <1>3 DEF world
  <2>2. system_gmp(request) => GmpIsSystems(request)
    BY <1>1, <1>3, ChecksSuffice
  <2>3. GmpIsSystems(request)' = GmpIsSystems(request) /\ system_gmp(request)' = system_gmp(request)
    BY <2>1, SameVerdicts
  <2>4. Checked' /\ Exporting'
    BY <1>1, <1>3, <2>1, <2>2, <2>3 DEF Checked, Exporting, Sail
  <2> QED BY <1>1, <1>3, <2>1, <2>4, MoveKeepsPromises
<1> QED BY <1>2, <1>3 DEF CheckStatic

LEMMA BochsKeepsPromises ==
  ASSUME LInv, OInv, BuildBochs
  PROVE  OInv'
<1>1. /\ pc = "bochs" /\ product.dll = FALSE
      /\ Sail(request) /\ system_gmp(request) => GmpIsSystems(request)
      /\ request.msvc /\ Sail(request) => "sail" \in product.exports
  BY DEF BuildBochs, OInv, Checked, Exporting
<1>2. CASE Panic("sources") /\ request.bochs \in site.gone /\ Has("bochs")
  BY <1>1, <1>2, PanicIsJustified DEF Justified, BochsTrees, Bochs, Has
<1>3. CASE /\ pc' = "dll" /\ UNCHANGED <<site, request, gmp, outcome>>
           /\ product'.dll = FALSE /\ product.exports \subseteq product'.exports
           /\ request.msvc /\ Bochs(request) => "bochs" \in product'.exports
  <2>1. GmpIsSystems(request)' = GmpIsSystems(request) /\ system_gmp(request)' = system_gmp(request)
    BY <1>3, SameVerdicts
  <2>2. Checked' /\ Exporting'
    BY <1>1, <1>3, <2>1 DEF Checked, Exporting, Sail, Bochs
  <2> QED BY <1>1, <1>3, <2>2, MoveKeepsPromises
<1>4. CASE ~Has("bochs") /\ pc' = "dll" /\ UNCHANGED <<world, out, gmp, product, outcome>>
  BY <1>1, <1>3, <1>4 DEF Has, Bochs, world
<1>5. CASE /\ pc' = "dll" /\ UNCHANGED <<site, request, gmp, outcome>>
           /\ \E t : product' = [product EXCEPT !.trees = t,
                                   !.exports = IF request.msvc THEN @ \cup {"bochs"} ELSE @]
  <2>1. PICK t : product' = [product EXCEPT !.trees = t,
                               !.exports = IF request.msvc THEN @ \cup {"bochs"} ELSE @]
    BY <1>5
  <2>2. /\ product'.dll = product.dll
        /\ product'.exports = IF request.msvc THEN product.exports \cup {"bochs"} ELSE product.exports
    BY <2>1 DEF LInv, Shapes
  <2> QED BY <1>1, <1>3, <1>5, <2>2
<1> QED BY <1>2, <1>4, <1>5 DEF BuildBochs

LEMMA LinkKeepsPromises ==
  ASSUME LInv, OInv, LinkDll
  PROVE  OInv'
<1>1. /\ pc = "dll" /\ product.of = request /\ product.dll = FALSE
      /\ Sail(request) /\ system_gmp(request) => GmpIsSystems(request)
      /\ request.msvc => \A b \in {"sail", "bochs"} \cap request.features : b \in product.exports
      /\ request.msvc \in BOOLEAN
  BY RequestsAssumption DEF LinkDll, LInv, Shapes, Compiling, OInv, Checked, Exporting, Sail, Bochs
<1>2. CASE Panic("link") /\ ~DllLinks(request)
  BY <1>1, <1>2, PanicIsJustified DEF Justified, DllLinks
<1>3. CASE /\ pc' = "idle" /\ outcome' = [kind |-> "built", why |-> ""]
           /\ UNCHANGED <<site, request, gmp>>
           /\ product'.of = product.of /\ DllIsWhole(product.of)'
  <2>1. (product.of)' = request
    BY <1>1, <1>3
  <2>2. /\ GmpIsSystems(product.of)' = GmpIsSystems(request)
        /\ system_gmp(product.of)' = system_gmp(request) /\ Sail(product.of)' = Sail(request)
    BY <1>3, <2>1, SameVerdicts
  <2>3. Finished' /\ Failed'
    BY <1>1, <1>3, <2>2 DEF Finished, Failed
  <2>4. Checked' /\ Exporting'
    BY <1>3 DEF Checked, Exporting
  <2> QED BY <2>3, <2>4 DEF OInv
<1>4. CASE /\ ~request.msvc \/ product.exports = {}
           /\ End("built", "") /\ UNCHANGED <<world, out, gmp, product>>
  <2>1. /\ pc' = "idle" /\ outcome' = [kind |-> "built", why |-> ""]
        /\ UNCHANGED <<site, request, gmp, product>>
    BY <1>4 DEF End, world
  <2>2. DllIsWhole(product.of)'
    BY <1>1, <1>4, <2>1 DEF DllIsWhole
  <2> QED BY <1>3, <2>1, <2>2
<1>5. CASE /\ product' = [product EXCEPT !.dll = TRUE]
           /\ out' = IF Copies(request) THEN [out EXCEPT !.gmp = gmp_bin] ELSE out
           /\ End("built", "") /\ UNCHANGED <<world, gmp>>
  <2>1. /\ pc' = "idle" /\ outcome' = [kind |-> "built", why |-> ""]
        /\ UNCHANGED <<site, request, gmp>>
    BY <1>5 DEF End, world
  <2>2. product'.of = product.of /\ product'.dll = TRUE /\ product'.exports = product.exports
    BY <1>5 DEF LInv, Shapes
  <2>3. Copies(request) => out'.gmp = gmp_bin
    BY <1>5 DEF LInv, Shapes
  <2>4. Copies(product.of)' = Copies(request) /\ gmp_bin' = gmp_bin
    BY <1>1, <2>1, <2>2, SameVerdicts, SameMachine
  <2>5. DllIsWhole(product.of)'
    BY <1>1, <2>2, <2>3, <2>4 DEF DllIsWhole
  <2> QED BY <1>3, <2>1, <2>2, <2>5
<1> QED BY <1>2, <1>4, <1>5 DEF LinkDll

LEMMA PromisesInit == Init => OInv
<1> SUFFICES ASSUME Init PROVE OInv
  OBVIOUS
<1>1. pc = "idle" /\ outcome.kind = "none"
  BY DEF Init
<1> QED BY <1>1 DEF OInv, Checked, Exporting, Finished, Failed

LEMMA PromisesStep == LInv /\ OInv /\ [Next]_vars => OInv'
<1> SUFFICES ASSUME LInv, OInv, [Next]_vars PROVE OInv'
  OBVIOUS
<1>1. CASE UNCHANGED vars
  BY <1>1, BystandersKeepPromises DEF vars
<1>2. CASE \E r \in site.requests : Ask(r)
  BY <1>2, BystandersKeepPromises DEF Ask
<1>3. CASE \E t \in Trees : Edit(t)
  BY <1>3, BystandersKeepPromises DEF Edit
<1>4. CASE Interrupt
  BY <1>4, PanicIsJustified DEF Interrupt, Justified
<1>5. CASE Begin
  BY <1>5, BeginKeepsPromises
<1>6. CASE Unpack \/ UseGivenModel \/ CreateModel \/ CopyModel \/ CreateStamp \/ WriteStamp
  BY <1>6, UnpackingKeepsPromises
<1>7. CASE ResolveGmp \/ Probe \/ CompileSail \/ CheckStatic
  BY <1>7, ResolveKeepsPromises, ProbeKeepsPromises, CompileKeepsPromises, CheckKeepsPromises
<1>8. CASE BuildBochs \/ LinkDll
  BY <1>8, BochsKeepsPromises, LinkKeepsPromises
<1> QED BY <1>1, <1>2, <1>3, <1>4, <1>5, <1>6, <1>7, <1>8 DEF Next

\* What a build relies on at each of its steps, and what it has promised once it ends:
\* the header and the directory its checks saw are those it links with (build_sail),
\* and a failure is blamed on what the machine was like when it happened.
THEOREM PromisesInvariant == Spec => [](LInv /\ OInv)
BY LInit, LStep, PromisesInit, PromisesStep, PTL DEF Spec

-----------------------------------------------------------------------------
(* Backends *)

\* The order in which Backend::available lists them.
Rank == [sail |-> 1, bochs |-> 2, kvm |-> 3, whp |-> 4]

Usable(b) == b \in Compiled /\ (b \in product.cfgs => is_available(b))

\* The list of the usable backends in that order, up to a rank.
ListedTo(v, n) ==
  /\ v \in Seq({"sail", "bochs", "kvm", "whp"})
  /\ \A i \in 1..Len(v) : Usable(v[i]) /\ Rank[v[i]] <= n
  /\ \A i, j \in 1..Len(v) : i < j => Rank[v[i]] < Rank[v[j]]
  /\ \A b \in {"sail", "bochs", "kvm", "whp"} :
       Usable(b) /\ Rank[b] <= n => \E i \in 1..Len(v) : v[i] = b

LEMMA PushKeepsOrder ==
  ASSUME NEW b \in {"sail", "bochs", "kvm", "whp"}, NEW v, ListedTo(v, Rank[b] - 1)
  PROVE  ListedTo(Push(v, b), Rank[b])
<1> DEFINE All == {"sail", "bochs", "kvm", "whp"}
<1>1. Rank[b] \in Nat /\ \A c \in All : Rank[c] \in Nat
  BY DEF Rank
<1>2. /\ v \in Seq(All) /\ Len(v) \in Nat /\ \A i \in 1..Len(v) : v[i] \in All
      /\ \A i \in 1..Len(v) : Usable(v[i]) /\ Rank[v[i]] <= Rank[b] - 1
      /\ \A i, j \in 1..Len(v) : i < j => Rank[v[i]] < Rank[v[j]]
      /\ \A c \in All : Usable(c) /\ Rank[c] <= Rank[b] - 1 => \E i \in 1..Len(v) : v[i] = c
  BY DEF ListedTo
<1>3. \A c \in All : c = b \/ (Rank[c] <= Rank[b] => Rank[c] <= Rank[b] - 1)
  BY DEF Rank
<1> HIDE DEF All
<1>4. CASE Usable(b)
  <2>1. Push(v, b) = Append(v, b)
    BY <1>4 DEF Push, Usable
  <2>2. /\ Append(v, b) \in Seq(All) /\ Len(Append(v, b)) = Len(v) + 1
        /\ \A i \in 1..(Len(v) + 1) : Append(v, b)[i] = IF i = Len(v) + 1 THEN b ELSE v[i]
    <3>1. b \in All
      BY DEF All
    <3> QED BY <1>2, <3>1
  <2>3. \A i \in 1..(Len(v) + 1) : Usable(Append(v, b)[i]) /\ Rank[Append(v, b)[i]] <= Rank[b]
    <3> SUFFICES ASSUME NEW i \in 1..(Len(v) + 1)
                 PROVE  Usable(Append(v, b)[i]) /\ Rank[Append(v, b)[i]] <= Rank[b]
      OBVIOUS
    <3>1. CASE i = Len(v) + 1
      <4>1. Append(v, b)[i] = b
        BY <2>2, <3>1
      <4> QED BY <1>1, <1>4, <4>1
    <3>2. CASE i # Len(v) + 1
      <4>1. i \in 1..Len(v) /\ Append(v, b)[i] = v[i]
        BY <1>2, <2>2, <3>2
      <4> QED BY <1>1, <1>2, <4>1
    <3> QED BY <3>1, <3>2
  <2>4. ASSUME NEW i \in 1..(Len(v) + 1), NEW j \in 1..(Len(v) + 1), i < j
        PROVE  Rank[Append(v, b)[i]] < Rank[Append(v, b)[j]]
    <3>1. i \in 1..Len(v) /\ Append(v, b)[i] = v[i]
      BY <1>2, <2>2, <2>4
    <3>2. CASE j = Len(v) + 1
      <4>1. Append(v, b)[j] = b
        BY <2>2, <3>2
      <4> QED BY <1>1, <1>2, <3>1, <4>1
    <3>3. CASE j # Len(v) + 1
      <4>1. j \in 1..Len(v) /\ Append(v, b)[j] = v[j]
        BY <1>2, <2>2, <3>3
      <4> QED BY <1>2, <2>4, <3>1, <4>1
    <3> QED BY <3>2, <3>3
  <2>5. ASSUME NEW c \in All, Usable(c), Rank[c] <= Rank[b]
        PROVE  \E i \in 1..(Len(v) + 1) : Append(v, b)[i] = c
    <3>1. CASE c = b
      BY <1>2, <2>2, <3>1
    <3>2. CASE c # b
      <4>1. PICK i \in 1..Len(v) : v[i] = c
        BY <1>2, <1>3, <2>5, <3>2
      <4>2. i \in 1..(Len(v) + 1) /\ i # Len(v) + 1
        BY <1>2
      <4> QED BY <2>2, <4>1, <4>2
    <3> QED BY <3>1, <3>2
  <2> QED BY <2>1, <2>2, <2>3, <2>4, <2>5 DEF ListedTo, All
<1>5. CASE ~Usable(b)
  <2>1. Push(v, b) = v
    BY <1>5 DEF Push, Usable
  <2>2. \A i \in 1..Len(v) : Rank[v[i]] <= Rank[b]
    BY <1>1, <1>2
  <2>3. \A c \in All : Usable(c) /\ Rank[c] <= Rank[b] => \E i \in 1..Len(v) : v[i] = c
    BY <1>2, <1>3, <1>5
  <2> QED BY <1>2, <2>1, <2>2, <2>3 DEF ListedTo, All
<1> QED BY <1>4, <1>5

\* What Backend::available returns is the usable backends in order.
LEMMA AvailableFacts == ListedTo(available, 4)
<1> DEFINE a == Push(<<>>, "sail")
           b == Push(a, "bochs")
           c == Push(b, "kvm")
<1>1. Rank["sail"] = 1 /\ Rank["bochs"] = 2 /\ Rank["kvm"] = 3 /\ Rank["whp"] = 4
  BY DEF Rank
<1>2. ListedTo(<<>>, Rank["sail"] - 1)
  BY DEF ListedTo, Rank
<1>3. ListedTo(a, 1)
  BY <1>1, <1>2, PushKeepsOrder
<1> HIDE DEF a
<1>4. ListedTo(b, 2)
  <2>1. ListedTo(a, Rank["bochs"] - 1)
    BY <1>1, <1>3
  <2> QED BY <1>1, <2>1, PushKeepsOrder
<1> HIDE DEF b
<1>5. ListedTo(c, 3)
  <2>1. ListedTo(b, Rank["kvm"] - 1)
    BY <1>1, <1>4
  <2> QED BY <1>1, <2>1, PushKeepsOrder
<1> HIDE DEF c
<1>6. ListedTo(Push(c, "whp"), 4)
  <2>1. ListedTo(c, Rank["whp"] - 1)
    BY <1>1, <1>5
  <2> QED BY <1>1, <2>1, PushKeepsOrder
<1> QED BY <1>6 DEF a, b, c, available

\* A backend that starts answers what is_available asks, for try_new asks it too; and
\* no error of a backend's own reads as "unsupported".
LEMMA TryFacts ==
  ASSUME NEW b \in {"sail", "bochs", "kvm", "whp"}, product.cfgs \subseteq {"kvm", "whp"}
  PROVE  /\ try_new(b) = "created" => Usable(b)
         /\ try_new(b) = "unsupported" <=> b \notin Compiled
<1> DEFINE I == {i \in 1..Len(Calls(b)) : Calls(b)[i] \in site.refused}
           failed == IF I # {} THEN Min(I) ELSE 0
<1>1. SelectInSeq(Calls(b), LAMBDA c : c \in site.refused) = failed
  BY DEF SelectInSeq
<1>2. try_new(b) = IF b \notin Compiled THEN "unsupported"
                   ELSE IF b \notin product.cfgs \/ failed = 0 THEN "created" ELSE Calls(b)[failed]
  <2> HIDE DEF failed
  <2> QED BY <1>1 DEF try_new
<1>3. Len(Calls(b)) = 11 /\ \A i \in 1..11 : Calls(b)[i] \notin {"created", "unsupported"}
  BY DEF Calls
<1>4. I = {} => is_available(b)
  <2>1. \A c \in Probes(b) : \E i \in 1..11 : Calls(b)[i] = c
    <3>1. CASE b = "kvm"
      <4>1. Calls(b)[1] = "open"
        BY <3>1 DEF Calls
      <4> QED BY <3>1, <4>1 DEF Probes
    <3>2. CASE b # "kvm"
      <4>1. Calls(b)[1] = "library" /\ Calls(b)[2] = "present"
        BY <3>2 DEF Calls
      <4> QED BY <3>2, <4>1 DEF Probes
    <3> QED BY <3>1, <3>2
  <2> QED BY <1>3, <2>1 DEF is_available
<1>5. I # {} => failed \in I
  <2>1. I \subseteq Nat
    OBVIOUS
  <2> HIDE DEF I
  <2> QED BY <2>1, LeastExists
<1>6. I # {} => failed \in 1..11 /\ failed # 0
  BY <1>3, <1>5
<1> HIDE DEF I, failed
<1>7. failed = 0 => I = {}
  BY <1>6
<1>8. CASE b \notin Compiled
  BY <1>2, <1>8
<1>9. CASE b \in Compiled /\ (b \notin product.cfgs \/ failed = 0)
  BY <1>2, <1>4, <1>7, <1>9 DEF Usable
<1>10. CASE b \in Compiled /\ ~(b \notin product.cfgs \/ failed = 0)
  <2>1. I # {}
    BY <1>10 DEF failed
  <2> QED BY <1>2, <1>3, <1>6, <1>10, <2>1
<1> QED BY <1>8, <1>9, <1>10

\* What is listed and what try_new says, of a build for a request with the features and
\* the platform of this one.
LEMMA ListIsTold ==
  ASSUME product.cfgs = emit_hardware_cfgs(product.of), NEW r,
         product.of.features = r.features, product.of.os = r.os
  PROVE  BackendsAreTold(r)
<1> DEFINE n == Len(available)
<1>1. /\ available \in Seq({"sail", "bochs", "kvm", "whp"}) /\ n \in Nat /\ DOMAIN available = 1..n
      /\ \A i \in 1..n : Usable(available[i]) /\ Rank[available[i]] \in Nat
      /\ \A i, j \in 1..n : i < j => Rank[available[i]] < Rank[available[j]]
      /\ \A b \in {"sail", "bochs", "kvm", "whp"} : Usable(b) => \E i \in 1..n : available[i] = b
  <2>1. ListedTo(available, 4)
    BY AvailableFacts
  <2>2. available \in Seq({"sail", "bochs", "kvm", "whp"})
    BY <2>1 DEF ListedTo
  <2> HIDE DEF available
  <2>3. \A i \in 1..n : Rank[available[i]] \in Nat
    BY <2>2 DEF Rank
  <2>4. \A b \in {"sail", "bochs", "kvm", "whp"} : Rank[b] <= 4
    BY DEF Rank
  <2> QED BY <2>1, <2>2, <2>3, <2>4 DEF ListedTo
<1> HIDE DEF n
<1>2. ASSUME NEW b \in {"sail", "bochs", "kvm", "whp"}
      PROVE  /\ try_new(b) = "created" => Contains(available, b)
             /\ try_new(b) = "unsupported" <=> b \notin Asked(r)
  <2>1. b \in Compiled <=> b \in Asked(r)
    BY DEF Compiled, Asked, emit_hardware_cfgs
  <2>2. product.cfgs \subseteq {"kvm", "whp"}
    BY DEF emit_hardware_cfgs
  <2>3. Usable(b) => Contains(available, b)
    <3> HIDE DEF available
    <3> QED BY <1>1 DEF Contains, n
  <2> QED BY <2>1, <2>2, <2>3, TryFacts
<1>3. \A b, c \in hardware : b = c
  <2>1. \A b \in hardware : b \in {"kvm", "whp"} /\ b \in Compiled
    BY <1>1 DEF hardware, Usable
  <2>2. \A b \in hardware : b \in emit_hardware_cfgs(product.of)
    BY <2>1 DEF Compiled
  <2> QED BY <2>1, <2>2 DEF emit_hardware_cfgs
<1>4. \A p \in pairs : p[1] # p[2] /\ <<p[2], p[1]>> \notin pairs
  <2>1. ASSUME NEW p \in pairs
        PROVE  Rank[p[1]] \in Nat /\ Rank[p[2]] \in Nat /\ Rank[p[1]] < Rank[p[2]]
    <3>1. PICK i \in 1..n, j \in 1..n : i < j /\ p = <<available[i], available[j]>>
      BY DEF pairs, n
    <3> QED BY <1>1, <3>1
  <2>2. ASSUME NEW p \in pairs, <<p[2], p[1]>> \in pairs PROVE FALSE
    <3> DEFINE q == <<p[2], p[1]>>
    <3>1. q \in pairs /\ q[1] = p[2] /\ q[2] = p[1]
      BY <2>2
    <3> HIDE DEF q
    <3>2. Rank[q[1]] < Rank[q[2]]
      BY <2>1, <3>1
    <3> QED BY <2>1, <3>1, <3>2
  <2>3. ASSUME NEW p \in pairs PROVE p[1] # p[2]
    BY <2>1
  <2> QED BY <2>2, <2>3
<1> QED BY <1>2, <1>3, <1>4 DEF BackendsAreTold

-----------------------------------------------------------------------------
(* What was built for one request stands for another that differs in nothing *)

LEMMA SameKeySamePromises ==
  ASSUME NEW p, NEW r, Key(p) = Key(r)
  PROVE  /\ Sail(r) /\ system_gmp(r) /\ (Sail(p) /\ system_gmp(p) => GmpIsSystems(p)) => GmpIsSystems(r)
         /\ DllIsWhole(p) => DllIsWhole(r)
<1> HIDE DEF Key
<1>1. /\ p.features = r.features /\ p.msvc = r.msvc /\ p.static = r.static /\ Sail(p) = Sail(r)
      /\ Sail(r) => /\ p.runtime = r.runtime
                    /\ p.GMP_DIR = r.GMP_DIR /\ p.GMP_INCLUDE_DIR = r.GMP_INCLUDE_DIR
                    /\ p.GMP_LIB_DIR = r.GMP_LIB_DIR /\ p.GMP_LIB_NAME = r.GMP_LIB_NAME
  BY SameKey
<1>2. Sail(r) => system_gmp(p) = system_gmp(r)
  BY <1>1 DEF system_gmp, system_runtime
<1>3. Sail(r) => Explicit(p) = Explicit(r) /\ LinkNames(p) = LinkNames(r)
  BY <1>1 DEF Explicit, explicit_include, explicit_lib, LinkNames
<1>4. ASSUME Sail(r), system_gmp(r), Sail(p) /\ system_gmp(p) => GmpIsSystems(p)
      PROVE  GmpIsSystems(r)
  <2>1. GmpIsSystems(p)
    BY <1>1, <1>2, <1>4
  <2> QED BY <1>1, <1>3, <1>4, <2>1 DEF GmpIsSystems
<1>5. Copies(p) = Copies(r)
  BY <1>1, <1>2 DEF Copies
<1>6. DllIsWhole(p) => DllIsWhole(r)
  BY <1>1, <1>5 DEF DllIsWhole
<1> QED BY <1>4, <1>6

LEMMA PromisesSuffice == LInv /\ OInv => OutcomeIsJustified
<1> SUFFICES ASSUME LInv, OInv PROVE OutcomeIsJustified
  OBVIOUS
<1>1. outcome.kind = "failed" => Justified(product.of, outcome.why)
  BY DEF OInv, Failed
<1>2. ASSUME Satisfied
      PROVE  /\ Sail(request) /\ system_gmp(request) => GmpIsSystems(request)
             /\ DllIsWhole(request) /\ BackendsAreTold(request)
  <2> HIDE DEF Key, WatchedTrees, GmpIsSystems, DllIsWhole, emit_hardware_cfgs, BackendsAreTold
  <2>1. pc = "idle" /\ outcome.kind = "built" /\ Key(product.of) = Key(request)
    BY <1>2 DEF Satisfied, NeedsRun
  <2>2. /\ Sail(product.of) /\ system_gmp(product.of) => GmpIsSystems(product.of)
        /\ DllIsWhole(product.of)
    BY <2>1 DEF OInv, Finished
  <2>3. product.cfgs = emit_hardware_cfgs(product.of)
    BY <2>1 DEF LInv, Built
  <2>4. BackendsAreTold(request)
    BY <2>1, <2>3, SameKey, ListIsTold
  <2> QED BY <2>1, <2>2, <2>4, SameKeySamePromises
<1> QED BY <1>1, <1>2 DEF OutcomeIsJustified

\* On any machine, whatever is asked and in whatever order, and wherever a build was
\* interrupted, a build fails only for a reason its user can act on, and when Cargo has
\* nothing left to do it has what was asked for: the system's GMP, searched for where
\* build.rs says, no import library in a static build, a DLL that exports its backends,
\* at most one hardware backend listed, and backends whose absence is told from their
\* failing to start: one that starts is listed, and try_new says unsupported of exactly
\* those not asked for or of another platform.
THEOREM OutcomesAreJustified == Spec => []OutcomeIsJustified
BY PromisesInvariant, PromisesSuffice, PTL
=============================================================================
