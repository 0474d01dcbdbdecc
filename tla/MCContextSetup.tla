----------------------------- MODULE MCContextSetup -----------------------------
(* Instances of ContextSetup for TLC: two channels and two dispatchers, so   *)
(* that each can be replaced; recorders of which two share an id; filters of *)
(* which two share type and priority.                                        *)
EXTENDS ContextSetup, TLC

CONSTANTS c1, c2, d1, d2, r1, r2, r3, f1, f2, f3, m1, x, y

MCRecorderId == [r \in Recorders |-> IF r = r3 THEN 2 ELSE 1]
MCFilterType == [f \in Filters |-> "post"]
MCPriority == [f \in Filters |-> IF f = f3 THEN 2 ELSE 1]
ObjectSymmetry == Permutations(Channels) \cup Permutations(Dispatchers) \cup Permutations(Formats)
                    \cup Permutations({r1, r2}) \cup Permutations({f1, f2})

================================================================================
