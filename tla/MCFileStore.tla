----------------------------- MODULE MCFileStore -----------------------------
EXTENDS FileStore

MCPerms == {{"r"}}
=============================================================================
