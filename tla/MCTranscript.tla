---- MODULE MCTranscript ----
EXTENDS Transcript
====
