------------------------------ MODULE MCTyping ------------------------------
(* Two members, one of them with a composer in both topics. A page names   *)
(* one member, so that the other is counted.                               *)
EXTENDS Typing, TLC

CONSTANTS ann, bob, t1, t2

Issued == [c \in 1..3 |-> CASE c = 1 -> [member |-> ann, topic |-> t1]
                            [] c = 2 -> [member |-> ann, topic |-> t2]
                            [] c = 3 -> [member |-> bob, topic |-> t1]]
Looked == {[viewer |-> bob, place |-> Feed], [viewer |-> None, place |-> t1]}
Symmetry == Permutations(Timers) \cup Permutations(Closures)
=============================================================================
