-------------------------------- MODULE MCLsp --------------------------------
EXTENDS Lsp
=============================================================================
