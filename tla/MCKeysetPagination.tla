------------------------- MODULE MCKeysetPagination -------------------------
EXTENDS KeysetPagination

CONSTANTS NumIds, NumTitles

TheIds    == 1..NumIds
TheTitles == 1..NumTitles
TheFirsts == {0, 1, 3}
=============================================================================
