-------------------------------- MODULE Sums --------------------------------
(***************************************************************************)
(* Sums of a function over a finite set.  The services add up quantities   *)
(* with Prisma aggregates and array reduces; Inbound, Returns, ChannelSync *)
(* and the loop of Planner take their sums from here, and module           *)
(* SumTheorems proves what a sum is.                                       *)
(***************************************************************************)
EXTENDS Integers, FiniteSetsExt

(* f[x] for every x in S, added up. *)
Sum(f, S) == MapThenSumSet(LAMBDA x : f[x], S)
=============================================================================
