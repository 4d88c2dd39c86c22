-------------------------------- MODULE Vector --------------------------------
(***************************************************************************)
(* What a DataBuffer promises: an array whose cells keep what was stored   *)
(* in them, and which grows by zeros.                                      *)
(***************************************************************************)
EXTENDS Naturals

CONSTANTS Value, Zero, MaxSize

VARIABLE contents  \* cells 0 .. n-1

Init == \E n \in 0 .. MaxSize : contents = [k \in 0 .. n-1 |-> Zero]

Resize(n) ==
  contents' = [k \in 0 .. n-1 |-> IF k \in DOMAIN contents THEN contents[k] ELSE Zero]

Store(k, v) ==
  /\ k \in DOMAIN contents
  /\ contents' = [contents EXCEPT ![k] = v]

Next ==
  \/ \E n \in 0 .. MaxSize : Resize(n)
  \/ \E k \in 0 .. MaxSize, v \in Value : Store(k, v)

Spec == Init /\ [][Next]_contents
=============================================================================
