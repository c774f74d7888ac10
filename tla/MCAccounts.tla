------------------------------ MODULE MCAccounts ------------------------------
EXTENDS Accounts
=============================================================================
