--------------------------- MODULE MCPhotoDownload ---------------------------
(* A small instance of PhotoDownload for TLC.                              *)
EXTENDS PhotoDownload
=============================================================================
