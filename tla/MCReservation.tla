--------------------------- MODULE MCReservation ---------------------------
(* Two tasks that share two words. *)
EXTENDS Reservation
=============================================================================
