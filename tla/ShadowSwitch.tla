---------------------------- MODULE ShadowSwitch ----------------------------
(***************************************************************************)
(* What a switch between a current and a target implementation promises    *)
(* whoever calls it: one of the two is due, and the call ends with what    *)
(* that one answered, or with its error.  Whether the other one is asked   *)
(* as well, and what becomes of that, cannot be told from outside.         *)
(***************************************************************************)
CONSTANT Call

VARIABLES due, ended

svars == <<due, ended>>

Implementation == {"current", "target"}

Ending == [by : Implementation, how : {"pending", "answer", "error"}]

Init ==
  /\ due \in [Call -> Implementation]
  /\ ended \in [Call -> Ending]
  /\ \A c \in Call : ended[c].how # "pending"

Begin(c) ==
  /\ ended[c].how # "pending"
  /\ \E i \in Implementation :
       /\ due' = [due EXCEPT ![c] = i]
       /\ ended' = [ended EXCEPT ![c] = [by |-> i, how |-> "pending"]]

Finish(c) ==
  /\ ended[c].how = "pending"
  /\ \E how \in {"answer", "error"} : ended' = [ended EXCEPT ![c] = [by |-> due[c], how |-> how]]
  /\ UNCHANGED due

Next == \E c \in Call : Begin(c) \/ Finish(c)

Spec == Init /\ [][Next]_svars
=============================================================================
