---------------------------- MODULE SizeRegister ----------------------------
(***************************************************************************)
(* What fsize_info promises its clients, whatever its threads do: the size *)
(* is one register that is written and read in single steps.  It never     *)
(* goes back to an older size, and a client is given, once, the size the   *)
(* register holds, and only after a first size has been stored.            *)
(***************************************************************************)
CONSTANTS
    Client,       \* the clients
    Value,        \* the sizes a register can hold
    Empty,        \* the register before the first size, and "no answer"
    Newer(_, _)   \* Newer(v, u): v was sampled after u

VARIABLES
    register,     \* the published size
    answer        \* [Client -> the size the client was given]

Init == register = Empty /\ answer = [c \in Client |-> Empty]

Publish(v) == /\ Newer(v, register)
              /\ register' = v
              /\ UNCHANGED answer

Answer(c) == /\ register # Empty /\ answer[c] = Empty
             /\ answer' = [answer EXCEPT ![c] = register]
             /\ UNCHANGED register

Next == (\E v \in Value : Publish(v)) \/ (\E c \in Client : Answer(c))

Spec == Init /\ [][Next]_<<register, answer>>

=============================================================================
