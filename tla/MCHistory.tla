----------------------------- MODULE MCHistory -----------------------------
(* History with two table names and three programs.                         *)
EXTENDS History

MCPrograms ==
  "flip" :> <<[op |-> "load", key |-> 1], [op |-> "store", key |-> 1]>>
    @@ "fill" :> <<[op |-> "insert", key |-> 1], [op |-> "store", key |-> 2]>>
    @@ "clear" :> <<[op |-> "delete", key |-> 1]>>
MCSchemaOf == "a" :> "x" @@ "b" :> "y"
Flip == Transaction("flip", 1, 1)
Clear == Transaction("clear", 1, 1)
MCCommands ==
  <<{Create("a")},
    {Create("b"), Transaction("fill", 1, 2), Transaction("fill", 1, 1)},
    {Rename(1, "b"), Drop(1), Limits(1), Flip},
    {Drop(1), Limits(0), Flip, Clear},
    {Create("a"), Transaction("fill", 1, 1), Transaction("fill", 2, 1)}>>
=============================================================================
