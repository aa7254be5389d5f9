--------------------------- MODULE MCPublishPost ---------------------------
(* Two taps on Post, up to two pictures, an incomplete form and a complete *)
(* one.                                                                    *)
EXTENDS PublishPost, TLC
=============================================================================
