---------------------------- MODULE MCChatBridge ----------------------------
EXTENDS ChatBridge

MCExchanges == 1 .. 2
=============================================================================
