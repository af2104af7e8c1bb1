------------------------ MODULE MCPlatformAdapters ------------------------
(* Instances of PlatformAdapters for TLC. *)
EXTENDS PlatformAdapters

MediaLists ==
  {<<"IMAGE">>, <<"VIDEO">>, <<"IMAGE", "IMAGE">>, <<"VIDEO", "IMAGE">>}

(* What the composer may submit.  Its form starts with SELF_ONLY, whatever *)
(* the targets; the post format is that of Meta targets.                   *)
MetaDrafts ==
  [platforms : {{"INSTAGRAM"}, {"FACEBOOK"}}, media : MediaLists,
   privacyLevel : {NoLevel, "SELF_ONLY"}, disableComments : {FALSE}, mode : {"DIRECT"},
   reel : BOOLEAN]

TikTokDrafts ==
  [platforms : {{"TIKTOK"}, {"INSTAGRAM", "TIKTOK"}}, media : MediaLists,
   privacyLevel : {NoLevel, "PRIVATE", "SELF_ONLY", "PUBLIC"},
   disableComments : BOOLEAN, mode : {"DIRECT", "DRAFT_UPLOAD"}, reel : {FALSE}]

AllDrafts == MetaDrafts \cup TikTokDrafts

(* The levels TikTok may offer. *)
AllLevels == {<<>>, <<"SELF_ONLY">>, <<"PUBLIC", "SELF_ONLY">>}
=============================================================================
