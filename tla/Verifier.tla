------------------------------ MODULE Verifier ------------------------------
(***************************************************************************)
(* The one-pass verifier of vm/program.rs against the paths of a program.  *)
(* A program grows by one instruction a step, so that every program over   *)
(* the instructions of the instance is met.                                *)
(***************************************************************************)
EXTENDS Program

CONSTANTS Instructions, MAX_LENGTH

VARIABLE program

Init == program = <<>>
Emit ==
  /\ Len(program) < MAX_LENGTH
  /\ \E ins \in Instructions : program' = Append(program, ins)
Next == Emit
Spec == Init /\ [][Next]_program

Typed ==
  [types |-> <<BoolT, BoolT>>, argtypes |-> <<BoolT>>, consttypes |-> <<>>, tables |-> <<>>,
   result |-> BoolT, ins |-> program]

-----------------------------------------------------------------------------
(* The reference: every pair of a position and the registers set there.    *)

Successors(pc) ==
  LET ins == program[pc]
  IN  (IF ins.op \in {"jump", "abort", "return"} THEN {} ELSE {pc + 1})
        \cup (IF ins.op \in Jumps THEN {ins.x} ELSE {})

RECURSIVE Walk(_)
Walk(states) ==
  LET next == states \cup UNION {
        {<<pc, s[2] \cup IF HasDestination(program[s[1]]) THEN {program[s[1]].dst} ELSE {}>> :
           pc \in Successors(s[1])} : s \in {t \in states : t[1] \in DOMAIN program}}
  IN  IF next = states THEN states ELSE Walk(next)

Sound ==
  LET walk == Walk({<<1, {}>>})
  IN  /\ {s[1] : s \in walk} = DOMAIN program
      /\ \A s \in walk : Sources(program[s[1]]) \subseteq s[2]
      /\ \A i \in DOMAIN program : program[i].op \in Jumps => program[i].x > i

(* verify answers exactly what the paths say: it accepts a program if and  *)
(* only if every instruction is reached, every jump goes forward, no path  *)
(* runs off the end, and every register that an instruction reads is set   *)
(* on every path to it.                                                    *)
VerifierIsExact ==
  program # <<>> => (Verify(Typed, [id \in 1 .. 17 |-> 99]) <=> Sound)

=============================================================================
