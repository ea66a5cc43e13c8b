--------------------------- MODULE MCReservation ---------------------------
(* Small instances of Reservation: one session per line, as the unique      *)
(* waxum_session_id of whatsapp_numbers makes it.                           *)
EXTENDS Reservation, TLC

MCSessionOf == [n \in Line |-> n]

Symmetry == Permutations(Token) \cup Permutations(Lead) \cup Permutations(Sdr)
              \cup Permutations(Line)
=============================================================================
