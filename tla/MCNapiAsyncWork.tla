-------------------------- MODULE MCNapiAsyncWork --------------------------
EXTENDS NapiAsyncWork
=============================================================================
