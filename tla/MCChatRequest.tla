---------------------------- MODULE MCChatRequest ----------------------------
(* Instances of ChatRequest for TLC. *)
EXTENDS ChatRequest

TwoRequests == 1 .. 2
ThreeRequests == 1 .. 3
OneRank == {0}
BothLanes == {"local", "upstream"}
UpstreamLane == {"upstream"}
=============================================================================
