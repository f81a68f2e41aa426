---------------------------- MODULE MCChatThread ----------------------------
EXTENDS ChatThread

NoFault     == {}
AllFaults   == Fault
OnlyFailure == {"failure"}

=============================================================================
