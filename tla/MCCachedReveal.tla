--------------------------- MODULE MCCachedReveal ---------------------------
EXTENDS RevealRefinement

\* Index 3 (binary 11) alone, and with index 2 (binary 10), which is revealed
\* after it and from which it can be derived.
OneIndex == {{0, 1}}
TwoIndices == {{1}, {0, 1}}
=============================================================================
