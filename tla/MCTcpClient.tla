----------------------------- MODULE MCTcpClient -----------------------------
EXTENDS TcpClient
=============================================================================
