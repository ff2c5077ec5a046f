---------------------------- MODULE MCCacheProxy ----------------------------
(* A small instance of CacheProxy: an MPD, a segment that is cached like the *)
(* others, one larger than the send buffer, and one the origin lacks.        *)
EXTENDS CacheProxy

CONSTANTS c1, c2, none, mpd, seg, big, lost

MCSize == [f \in {mpd, seg, big, lost} |->
             IF f = big THEN 4 ELSE IF f = seg THEN 2 ELSE 3]
=============================================================================
