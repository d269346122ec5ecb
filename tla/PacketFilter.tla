----------------------------- MODULE PacketFilter ----------------------------
(***************************************************************************)
(* What the hooks promise of everything that passes them: each packet that *)
(* arrives is judged at most once and ends once, delivered, dropped or     *)
(* lost, as the judgement says.  Malformed packets are not judged.         *)
(***************************************************************************)
CONSTANTS
    Packets,
    Malformed,
    Default         \* the words there may be on a packet that nobody judges

VARIABLES outcome, verdict

vars == <<outcome, verdict>>

Init == /\ outcome = [p \in Packets |-> "absent"]
        /\ verdict = [p \in Packets |-> "none"]

Arrive(p) == /\ outcome[p] = "absent"
             /\ outcome' = [outcome EXCEPT ![p] = "pending"]
             /\ UNCHANGED verdict

\* What becomes of a packet that got verdict v.
Fate(v) == CASE v = "allow" -> "delivered"
             [] v = "refuse" -> "dropped"
             [] v = "throw" -> "lost"

Resolved(p, v) == [outcome EXCEPT ![p] = Fate(v)]

Judge(p, v) == /\ outcome[p] = "pending"
               /\ verdict[p] = "none"
               /\ p \notin Malformed
               /\ verdict' = [verdict EXCEPT ![p] = v]
               /\ outcome' \in {outcome, Resolved(p, v)}

\* Without a verdict the default has the word, if it has any.
Words(p) == IF verdict[p] = "none" THEN Default[p] ELSE {verdict[p]}

Resolve(p) == /\ outcome[p] = "pending"
              /\ \E v \in Words(p) : outcome' = Resolved(p, v)
              /\ UNCHANGED verdict

Next == \E p \in Packets :
            \/ Arrive(p)
            \/ \E v \in {"allow", "refuse", "throw"} : Judge(p, v)
            \/ Resolve(p)

Spec == Init /\ [][Next]_vars
=============================================================================
