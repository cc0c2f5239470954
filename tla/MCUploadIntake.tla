--------------------------- MODULE MCUploadIntake ---------------------------
(* Small instances of UploadIntake for TLC. *)
EXTENDS UploadIntake, TLC

\* Users are interchangeable: no definition tells two apart.
MCSymmetry == Permutations(Users)

=============================================================================
