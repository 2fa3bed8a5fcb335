--------------------------- MODULE MC_ListVolumes ---------------------------
EXTENDS ListVolumes

\* Target indices with one, two and three digits, zeros among them.
MCTargetIndices == {0, 9, 10, 105}

\* No limit, and one to three entries per page.
MCMaxEntries == {0, 1, 2, 3}

\* The empty token, a token naming index 9, one that is not base64 and one
\* that decodes to text that is not a number.
MCStartTokens == {EmptyToken, B64(<<"9">>), NotBase64, B64(<<"x">>)}
=============================================================================
