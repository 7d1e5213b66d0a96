----------------------------- MODULE MC_Connect -----------------------------
(* Two sessions; the backend moves once, from three addresses of which one   *)
(* is IPv6 to an IPv6-only one.                                              *)
EXTENDS Connect

MCAnswers == << <<1, 2, 3>>, <<2>> >>
=============================================================================
