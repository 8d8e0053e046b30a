----------------------------- MODULE MCProcess ------------------------------
EXTENDS Process
=============================================================================
