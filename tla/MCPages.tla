------------------------------ MODULE MCPages ------------------------------
(***************************************************************************)
(* What the store keeps in pages and log files side by side: trees, the    *)
(* node cache and the reuse of log validations.  Each behaviour exercises  *)
(* one of them, which part names; the others stay as they begin.           *)
(***************************************************************************)
EXTENDS Tree, PageCache, LogReuse, TLC

VARIABLE part

pagesVars == <<part, vars, cacheVars, logVars>>

(* Nodes of two cells, so that a few keys make three levels; larger ones,  *)
(* with inline and overflow values; and no tree at all.                    *)
Deep ==
  [KEYS |-> 9, LongKeys |-> {1, 2, 4, 5, 6, 7, 8, 9}, Values |-> {0}, PAGE_SIZE |-> 4]
Wide ==
  [KEYS |-> 6, LongKeys |-> {1, 2, 3, 5, 6}, Values |-> {0, 1}, PAGE_SIZE |-> 6]
NoKeys == [KEYS |-> 0, LongKeys |-> {}, Values |-> {}, PAGE_SIZE |-> 4]
MCShapes == {Deep, Wide, NoKeys}

(* A leaf, a larger node that refers to the third page, before or after it *)
(* is written, and a leaf of another tree.                                 *)
MCNodes ==
  {[tree |-> "state", maxRef |-> 0, bytes |-> 1],
   [tree |-> "state", maxRef |-> 3, bytes |-> 2],
   [tree |-> "records", maxRef |-> 0, bytes |-> 2]}

(* Short logs over several publications, whose proofs overflow; longer     *)
(* ones that a publication cuts in the middle; and no log at all.          *)
Scenario(records, publications, most, pending) ==
  [records |-> records, publications |-> publications, files |-> most, pending |-> pending]
NoLogs == Scenario(0, 0, 0, 0)
MCScenarios == {Scenario(2, 3, 2, 1), Scenario(3, 2, 2, 2), NoLogs}

-----------------------------------------------------------------------------
PagesInit ==
  /\ Init /\ CacheInit /\ LogInit
  /\ \/ part = "tree" /\ shape # NoKeys /\ bounds = NoLogs
     \/ part = "cache" /\ shape = NoKeys /\ bounds = NoLogs
     \/ part = "logs" /\ shape = NoKeys /\ bounds # NoLogs

PagesNext ==
  /\ \/ part = "tree" /\ Next /\ UNCHANGED <<cacheVars, logVars>>
     \/ part = "cache" /\ CacheNext /\ UNCHANGED <<vars, logVars>>
     \/ part = "logs" /\ LogNext /\ UNCHANGED <<vars, cacheVars>>
  /\ UNCHANGED part

PagesSpec == PagesInit /\ [][PagesNext]_pagesVars

Symmetry == Permutations(Readers)
=============================================================================
