------------------------------ MODULE MCState ------------------------------
(***************************************************************************)
(* Versioned trees side by side: reads of versioned rows, and the reuse of *)
(* the validation of checkpoints.  Each behaviour exercises one of them,   *)
(* which part names; the other stays as it begins.                         *)
(***************************************************************************)
EXTENDS VersionedState, CheckpointReuse, TLC

VARIABLE part

stateVars == <<part, vars, reuseVars>>

(* Histories without private writes, damaged rows among them; private      *)
(* writes over single versions; and no rows at all.                        *)
MCKeys == {<<>>, <<0>>, <<0, 0>>}
MCSequences == {3, 4}
History(a, b) == (3 :> a) @@ (4 :> b)

Histories ==
  {History(a, b) : a \in {"none", "put3", "delete", "bad"}, b \in {"none", "put4", "delete"}}
SingleVersions == {History("none", "none"), History("put3", "none"), History("none", "bad")}

MCCases ==
  {[histories |-> Histories, overlays |-> {[k \in Keys |-> "none"]}, limits |-> {2}],
   [histories |-> SingleVersions, overlays |-> [Keys -> OverlayValue], limits |-> {1, 3}]}

-----------------------------------------------------------------------------
NoReads ==
  /\ rows = <<>> /\ overlay = <<>> /\ query = <<>> /\ iter = <<>>
  /\ answer = <<>> /\ status = "new"

StateInit ==
  /\ ReuseInit
  /\ \/ part = "reads" /\ Init
     \/ part = "reuse" /\ NoReads

StateNext ==
  /\ \/ part = "reads" /\ Next /\ UNCHANGED reuseVars
     \/ part = "reuse" /\ ReuseNext /\ UNCHANGED vars
  /\ UNCHANGED part

StateSpec == StateInit /\ [][StateNext]_stateVars
=============================================================================
