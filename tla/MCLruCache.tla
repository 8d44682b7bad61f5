----------------------------- MODULE MCLruCache -----------------------------
(* Four keys compete for three places and five bytes.  Length 0 and a      *)
(* length over the limit are among those tried.                            *)
EXTENDS LruCache

MCSizes == {0, 1, 2, 4, 6}
=============================================================================
