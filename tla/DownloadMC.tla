---------------------------- MODULE DownloadMC ----------------------------
(* Calls for two sources of different lengths under one file name.          *)
EXTENDS Download, TLC

CONSTANTS c1, c2, c3, u1, u2

MCUrl  == c1 :> u1 @@ c2 :> u2 @@ c3 :> u1
MCSize == u1 :> 3 @@ u2 :> 2
=============================================================================
