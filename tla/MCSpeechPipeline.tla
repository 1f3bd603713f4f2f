-------------------------- MODULE MCSpeechPipeline --------------------------
(* A room with a speaker and one or two more languages listened to.        *)
EXTENDS SpeechPipeline

CONSTANTS en, fr, de

MCLanguages == {en, fr, de}
MCTongues == {en}
=============================================================================
