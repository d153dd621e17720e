------------------------ MODULE MCModelDownloader ------------------------
(***************************************************************************)
(* Model checking of the model loader and downloader: one Whisper model,   *)
(* one Llama, one voice of two files.                                      *)
(***************************************************************************)
EXTENDS ModelDownloader

MCVoicePairs == {{"onnx", "json"}}
===========================================================================
