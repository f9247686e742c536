------------------------------ MODULE MCRequests ------------------------------
(***************************************************************************)
(* Requests for all functions of all drivers, up to the length of a        *)
(* response.                                                               *)
(***************************************************************************)
EXTENDS Requests

B == INSTANCE Bricklets

\* Payloads are compared with each other, with 0 and with that of get_identity only: one
\* length stands for all others
MCCalls == {[c EXCEPT !.payload = IF @ \in {0, 25} THEN @ ELSE 2] : c \in B!AllCalls}

================================================================================
