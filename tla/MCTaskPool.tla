----------------------------- MODULE MCTaskPool -----------------------------
(***************************************************************************)
(* TaskPool with its constants' symmetries, for the runs without liveness. *)
(***************************************************************************)
EXTENDS TaskPool, TLC

Symmetry == Permutations(Conn) \cup Permutations(ServerID) \cup Permutations(VerifyThread)
=============================================================================
