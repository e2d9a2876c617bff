------------------------------ MODULE SerialDB ------------------------------
(***************************************************************************)
(* What the engine promises its callers, without workers, checkpoints or   *)
(* recovery: commands are put into one durable order, a prefix of that     *)
(* order is visible, each visible outcome is the one of running the        *)
(* commands one after the other, and each caller is answered at most once  *)
(* with an answer that is true and remains true.                           *)
(***************************************************************************)
EXTENDS Execution

VARIABLES
  log,       \* the accepted commands, in order
  observed,  \* the outcomes of the visible prefix
  reply      \* what the caller of each command knows

vars == <<log, observed, reply>>

Kind(c) == reply[c].kind

Init ==
  /\ log = <<>>
  /\ observed = [n \in {} |-> {}]
  /\ reply = [c \in Command |-> [kind |-> "unsent"]]

(* Some waiting commands, none of them logged before, join the log.        *)
Accept ==
  /\ Len(log) <= Len(log') /\ SubSeq(log', 1, Len(log)) = log
  /\ \A i \in Len(log) + 1 .. Len(log') :
       /\ Kind(log'[i]) = "waiting"
       /\ \A j \in 1 .. i - 1 : log'[j] # log'[i]

(* More of the log becomes visible, with its serial outcomes.              *)
Reveal ==
  \E k \in 0 .. Len(log') :
    /\ DOMAIN observed \subseteq 1 .. k
    /\ DOMAIN observed' = 1 .. k
    /\ \A n \in 1 .. k :
         observed'[n] = IF n \in DOMAIN observed
                          THEN observed[n]
                          ELSE Interpretation(log'[n], observed', n)

(* A receipt for a visible record, a refusal of a command that is not in   *)
(* the log, or no certainty at all.                                        *)
Answers ==
  \A c \in Command :
    \/ reply'[c] = reply[c]
    \/ Kind(c) = "unsent" /\ reply'[c] \in {[kind |-> "waiting"], [kind |-> "closed"]}
    \/ /\ Kind(c) = "waiting"
       /\ \/ reply'[c].kind \in {"rejected", "closed"}
             /\ \A i \in 1 .. Len(log') : log'[i] # c
          \/ reply'[c].kind = "uncertain"
          \/ \E n \in DOMAIN observed' :
               /\ log'[n] = c
               /\ reply'[c] = [kind |-> "receipt", sequence |-> n,
                               outcome |-> observed'[n]]

Next == Accept /\ Reveal /\ Answers

Spec == Init /\ [][Next]_vars
=============================================================================
