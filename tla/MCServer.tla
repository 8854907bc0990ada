------------------------------ MODULE MCServer ------------------------------
(***************************************************************************)
(* An instance of Server for TLC: two acceptors share the counter, two     *)
(* connections share one worker.                                           *)
(***************************************************************************)
EXTENDS ServerProperties

MCIdRange == 2   \* the counter wraps around while connections are open
MCMaxInput == 1  \* one request waits while another is worked on
=============================================================================
