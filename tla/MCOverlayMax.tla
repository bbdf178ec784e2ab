---------------------------- MODULE MCOverlayMax ----------------------------
EXTENDS OverlayMax
CONSTANTS a, b, m1, m2
\* a has no area on m2: the quads of one list differ from map to map
MCLists == {<<>>, <<a>>, <<a, b>>}
MCFits  == {<<a, m1>>, <<b, m1>>, <<b, m2>>}
=============================================================================
