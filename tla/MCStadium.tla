----------------------------- MODULE MCStadium -----------------------------
(* Instances of Stadium for TLC.                                           *)
EXTENDS Stadium

\* An away fan and a neutral fan, who may take the one seat open to the other
\* when the threads of the zones hold those of zones 0 and 1.
Types == <<"A", "N">>
Limits == <<1, 1>>
Teams == <<"A">>
Seats == [z \in Zones |-> 1]
=============================================================================
