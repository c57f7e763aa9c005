---------------------------- MODULE MCPersistence ----------------------------
(***************************************************************************)
(* Persistence for TLC: two keys of which one is the other with a tail     *)
(* that has an '=' in it, so that both lines read back as the same key.    *)
(***************************************************************************)
EXTENDS Persistence, TLC

TwoKeys == {"a", "a=b"}
TwoValues == {"1", "2"}
Glue == [v \in TwoValues |-> "b=" \o v]
AllTexts == TwoValues \cup {Glue[v] : v \in TwoValues} \cup {"cut"}

FirstEquals ==
    [l \in TwoKeys \X AllTexts |->
        <<"a", IF l[1] = "a=b" /\ l[2] \in TwoValues THEN Glue[l[2]] ELSE l[2]>>]

=============================================================================
