------------------------------ MODULE MCUpload ------------------------------
(* A file is put on the board and downloaded.                              *)
EXTENDS Upload
=============================================================================
