---- MODULE MCDecodeCache ----
(* Model-checking instances of DecodeCache: two pages, so that an instruction *)
(* can cross, of two lines each, so that a mode can exchange them.            *)
EXTENDS DecodeCache
====
