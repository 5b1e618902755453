--------------------------- MODULE MCFlowListing ---------------------------
(* FlowListing for TLC: four connections, three of them on skyline_cc.     *)
EXTENDS FlowListing

MCDetail ==
  [a |-> <<<<"cc", "skyline_cc">>, <<"bytes_sent", 1>>>>,
   b |-> <<<<"flag", 0>>, <<"cc", "skyline_cc">>, <<"pacing_rate", 0>>, <<"rate", 5>>,
           <<"bytes_sent", 3>>>>,
   c |-> <<<<"cc", "cubic">>, <<"bytes_sent", 9>>>>,
   d |-> <<<<"cc", "skyline_cc">>, <<"bytes_sent", 2>>>>]
MCSockets == DOMAIN MCDetail
=============================================================================
