---------------------------- MODULE MCMediaEngine ----------------------------
(* Three pictures: each leaves stale lines for the next in both caches.    *)
EXTENDS MediaEngine
=============================================================================
