------------------------------ MODULE MCWorkbench ------------------------------
(* Three jobs in all, of the window and of another process.                   *)
EXTENDS Workbench

CONSTANTS gui, cli, img, snd, k

MCPathSets == {{"release", "identity"}, {"assets", "release", "identity"}}
MCSelections == {<<img, snd>>, <<img, img>>}
===============================================================================
