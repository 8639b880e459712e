---------------------------- MODULE MCSipServer ----------------------------
(* SipServer with two UDP peers, a TCP peer and two calls.                 *)
EXTENDS SipServer

Complete == Headers

MCHeaderSets ==
  {Complete, Complete \ {"branch", "tag"}, Complete \ {"From", "tag"},
   Complete \ {"Call-ID"}, Complete \ {"CSeq"}, Complete \ {"m"}, {}}
=============================================================================
