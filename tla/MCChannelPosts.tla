--------------------------- MODULE MCChannelPosts ---------------------------
(* One post: hands of several posts share nothing but the tick's list, which *)
(* goes stale over one post too.                                             *)
EXTENDS ChannelPosts, TLC

CONSTANTS p1
=============================================================================
