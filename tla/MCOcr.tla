-------------------------------- MODULE MCOcr --------------------------------
(* Two uploads, the complaints worker and a Word export.                      *)
EXTENDS Ocr
CONSTANTS u1, u2, w, x
MCUploads == {u1, u2}
MCWorkers == {w}
MCExports == {x}
=============================================================================
