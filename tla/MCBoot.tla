------------------------------- MODULE MCBoot -------------------------------
(* Syscall entry points in two images. *)
EXTENDS Boot, TLC

CONSTANTS v1, v2, nt, other
MCImageOf == (v1 :> nt) @@ (v2 :> other)
=============================================================================
