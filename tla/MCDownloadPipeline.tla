------------------------ MODULE MCDownloadPipeline ------------------------
(***************************************************************************)
(* Small instances of DownloadPipeline.                                    *)
(***************************************************************************)
EXTENDS DownloadPipeline

CONSTANTS p1, p2
=============================================================================
