--------------------------- MODULE MCMediaPipeline ---------------------------
(* Model-checking instances of MediaPipeline. *)
EXTENDS MediaPipeline

OnlyVideo == {"video"}
OnlyAudio == {"audio"}
AudioAndVideo == {"audio", "video"}
NoStream == {}
=============================================================================
