----------------------------- MODULE RemoteCall -----------------------------
(***************************************************************************)
(* What a thread may take a connection of the pool for: a server that runs *)
(* each command at most once, between the call and its end, and replies    *)
(* only to what it has run: with an answer, or with an error that refuses  *)
(* one.  When no reply comes the connection is broken, and whether the     *)
(* command was run cannot be told.                                         *)
(***************************************************************************)
EXTENDS Naturals, Sequences

VARIABLES
    fate,    \* of every call: was it run, and how did it end?
    sound    \* has the connection not been broken?

vars == <<fate, sound>>

Init == fate = <<>> /\ sound = TRUE

UnderWay == fate # <<>> /\ fate[Len(fate)].end = "pending"

Ask ==
    /\ ~UnderWay
    /\ fate' = Append(fate, [ran |-> "never", end |-> "pending"])
    /\ UNCHANGED sound

Run ==
    /\ UnderWay /\ sound
    /\ fate[Len(fate)].ran = "never"
    /\ fate' = [fate EXCEPT ![Len(fate)].ran = "once"]
    /\ UNCHANGED sound

\* The reply may have arrived before the connection broke.
Reply(end) ==
    /\ UnderWay
    /\ fate[Len(fate)].ran = "once"
    /\ fate' = [fate EXCEPT ![Len(fate)].end = end]
    /\ UNCHANGED sound

Answer == Reply("answered")
Refuse == Reply("refused")

GiveUp ==
    /\ UnderWay /\ ~sound
    /\ fate' = [fate EXCEPT ![Len(fate)].end = "unanswered"]
    /\ UNCHANGED sound

Break == sound /\ sound' = FALSE /\ UNCHANGED fate

Next == Ask \/ Run \/ Answer \/ Refuse \/ GiveUp \/ Break

Spec == Init /\ [][Next]_vars

=============================================================================
