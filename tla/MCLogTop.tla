------------------------------ MODULE MCLogTop ------------------------------
(* A small instance of LogTop: four names, the first a prefix of the second. *)
EXTENDS LogTop

MCPrefix == {<<1, 1>>, <<2, 2>>, <<3, 3>>, <<4, 4>>, <<1, 2>>}

=============================================================================
