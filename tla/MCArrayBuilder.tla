--------------------------- MODULE MCArrayBuilder ---------------------------
(* A script that uses an array as a stack or as a queue, at either end.  One   *)
(* that uses both ends is not among them: its array is mixed up (arrbld.cpp:75, *)
(* 121).                                                                        *)
EXTENDS ArrayBuilder

StacksAndQueues == {{"push_back", "pop_back"}, {"push_front", "pop_front"},
                    {"push_back", "pop_front"}, {"push_front", "pop_back"}}
LiteralSizes == 0..4
=============================================================================
