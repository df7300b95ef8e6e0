----------------------------- MODULE MCFilePush -----------------------------
(* One playback with up to three seeks; the inner loop gives up after two  *)
(* empty reads instead of ten.                                             *)
EXTENDS FilePush
=============================================================================
