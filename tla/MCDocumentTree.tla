---------------------------- MODULE MCDocumentTree ----------------------------
\* DocumentTree where the repository itself is the root of the documents.
EXTENDS DocumentTree

MCDocuments == {<<"a">>, <<"docs", "b">>}
MCFiles == MCDocuments
MCRepositoryRoot == {<<<<".">>>>}
=============================================================================
