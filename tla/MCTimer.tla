------------------------------ MODULE MCTimer ------------------------------
(* Instances of Timer for TLC.                                             *)
EXTENDS Timer, TLC

CONSTANTS h1, h2, h3, s1, s2, s3, delay

Once(time)  == [time |-> time, periodic |-> FALSE]
Every(time) == [time |-> time, periodic |-> TRUE]

MCSettings ==
    (h1 :> {Once(1), Every(2)}) @@ (h2 :> {Once(1), Once(2)}) @@ (h3 :> {Every(2)})
    @@ (s1 :> {Every(1)}) @@ (s2 :> {Once(2)}) @@ (s3 :> {Once(1)})
    @@ (delay :> {Once(1)})
=============================================================================
