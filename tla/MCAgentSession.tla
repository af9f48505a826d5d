---------------------------- MODULE MCAgentSession ----------------------------
EXTENDS AgentSession
=============================================================================
