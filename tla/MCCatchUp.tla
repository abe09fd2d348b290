------------------------------ MODULE MCCatchUp ------------------------------
EXTENDS CatchUp

\* A database that holds no epoch yet.
EmptyDb == <<>>
=============================================================================
