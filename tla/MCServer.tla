------------------------------ MODULE MCServer ------------------------------
\* Two codes with a request each, or one code and two requests for it, as two
\* clicks on the page's switch are.
EXTENDS Server
CONSTANTS r1, r2, c1, c2
MCApart == (r1 :> c1) @@ (r2 :> c2)
MCTwice == (r1 :> c1) @@ (r2 :> c1)
=============================================================================
