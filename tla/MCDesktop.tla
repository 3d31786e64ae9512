------------------------------- MODULE MCDesktop -------------------------------
(* A small instance of Desktop: one thread logs, all the icons or only the      *)
(* default one.                                                                 *)
EXTENDS Desktop

\* All the icons, or none but the default one.
MCIconSets == {{}, {"off", "animated"}}
=============================================================================
