--------------------------- MODULE MCReservations ---------------------------
(* Reservations for TLC: symmetric devices, users and threads where a run's  *)
(* properties allow it.                                                      *)
EXTENDS Reservations, TLC

ThreadSymmetry == Permutations(Thread)
DeviceSymmetry == Permutations(Device)
Symmetry == ThreadSymmetry \cup DeviceSymmetry
=============================================================================
