------------------------------- MODULE MCPoll -------------------------------
(* A short polling loop over all functions the program calls.              *)
EXTENDS M70Poll
MCFns == {read_basic_info[k] : k \in 1..27} \union Lists
=============================================================================
