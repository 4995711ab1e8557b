----------------------------- MODULE AccountMC -----------------------------
(* Two commands of the pages at once, one command of the tool, one restart. *)
EXTENDS Account

=============================================================================
