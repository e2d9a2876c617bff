--------------------------- MODULE MCPublication ---------------------------
(***************************************************************************)
(* Small instances of Publication: a directory that is created, with       *)
(* compaction and a reader, the copy of a backup that is attached, and a   *)
(* shorter life in which collections remove something.                     *)
(***************************************************************************)
EXTENDS Publication

Created ==
  [Copied |-> FALSE, Collects |-> FALSE, MaxSequence |-> 2, MaxGeneration |-> 4, MaxFile |-> 2,
   MaxPages |-> 4, MaxFailures |-> 2, MaxPins |-> 1, MaxAttaches |-> 0]
Attached ==
  [Copied |-> TRUE, Collects |-> FALSE, MaxSequence |-> 1, MaxGeneration |-> 4, MaxFile |-> 1,
   MaxPages |-> 3, MaxFailures |-> 3, MaxPins |-> 0, MaxAttaches |-> 2]
Collected ==
  [Copied |-> FALSE, Collects |-> TRUE, MaxSequence |-> 1, MaxGeneration |-> 4, MaxFile |-> 2,
   MaxPages |-> 3, MaxFailures |-> 1, MaxPins |-> 1, MaxAttaches |-> 0]
MCScenarios == {Created, Attached, Collected}

=============================================================================
