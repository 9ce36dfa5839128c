------------------------------ MODULE MCIngest ------------------------------
EXTENDS Ingest
=============================================================================
