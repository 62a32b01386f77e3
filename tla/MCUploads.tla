------------------------------- MODULE MCUploads -------------------------------
(* Instances of Uploads for TLC. *)
EXTENDS Uploads, TLC

\* Uploads are interchangeable (safety runs only).
UploadSymmetry == Permutations(Uploads)
================================================================================
