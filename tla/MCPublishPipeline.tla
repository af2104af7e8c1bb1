------------------------- MODULE MCPublishPipeline -------------------------
(* Instances of PublishPipeline for TLC. *)
EXTENDS PublishPipeline, TLC

CONSTANTS j1, j2

OnFacebook == j1 :> "FACEBOOK"
OnTikTok   == j1 :> "TIKTOK"
OnTwo      == j1 :> "FACEBOOK" @@ j2 :> "INSTAGRAM"
=============================================================================
