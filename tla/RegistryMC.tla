------------------------------ MODULE RegistryMC ------------------------------
(***************************************************************************)
(* An application with two tasks and, beside it, a command line; a model   *)
(* with a plain id and one with a repository's id, each with a single file *)
(* and the first of several shards. The repository's model is installed    *)
(* when a run begins, the plain one is not.                                *)
(***************************************************************************)
EXTENDS RegistryCommands

CONSTANTS app, cli, a1, a2, c1

MCProcOf == [t \in Tasks |-> IF t = c1 THEN cli ELSE app]
MCModels == {<<"m">>, <<"o", "r">>}
MCStarts == {{[dir |-> <<"o", "r">>, name |-> "single"]}}
MCBlobs == {<<"ollama", "b">>}
MCShard == [g \in Ggufs |-> IF g = "part" THEN 1 ELSE 0]
MCWeight == [f \in [dir : MCModels, name : {"single", "part", Tokenizer}] |->
               (IF f.dir = <<"m">> THEN 0 ELSE 3)
               + CASE f.name = Tokenizer -> 0 [] f.name = "single" -> 1 [] OTHER -> 2]
===============================================================================
