---------------------------- MODULE MCMcpClient -----------------------------
EXTENDS McpClient
CONSTANTS k1, k2
=============================================================================
