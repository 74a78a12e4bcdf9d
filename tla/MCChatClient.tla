---------------------------- MODULE MCChatClient ----------------------------
\* ChatClient with a few messages.
EXTENDS ChatClient, TLC
=============================================================================
