------------------------------ MODULE MCSuite ------------------------------
(* Two workloads and a list of two scenarios for TLC.                       *)
EXTENDS Suite

Both == {"gang", "crowd"}
Gang == {"gang"}
NoGang == {}
NoRun == {}
OnlySecond == {2}

Two == { <<>>, <<"a", "b">> }
=============================================================================
