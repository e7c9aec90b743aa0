------------------------------ MODULE MCFeeds ------------------------------
(* Instances of Feeds for TLC. *)
EXTENDS Feeds
=============================================================================
