---------------------------- MODULE MCDownloader ----------------------------
(* Model checking of Downloader: b is an alias of a (youtu.be, a playlist  *)
(* parameter, ...), a is canonical.                          *)
EXTENDS Downloader, TLC

CONSTANTS a, b

Aliased == [url \in Url |-> IF url = b THEN a ELSE url]

Symmetry == Permutations(Worker)
=============================================================================
