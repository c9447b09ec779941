------------------------------ MODULE MCCursor ------------------------------
EXTENDS Cursor

\* Every monochrome shape up to 3 pixels wide and 2 high (or 2 by 3): each
\* pixel has a neighbour on every side that exists, and a row to wrap into.
MCMonoSizes == {<<1, 1>>, <<2, 1>>, <<1, 2>>, <<2, 2>>, <<3, 2>>, <<2, 3>>}

\* Colour cursors up to 2 by 2.
MCColorSizes == {<<1, 1>>, <<2, 1>>, <<1, 2>>, <<2, 2>>}

\* Colour bitmap pixels: transparent, opaque white and a grey without alpha
\* (the mask decides), and a half-transparent grey (the bitmap has alpha).
MCColorPixels == {RGBA(0, 0, 0, 0), RGBA(255, 255, 255, 0),
                  RGBA(128, 128, 128, 0), RGBA(200, 200, 200, 128)}
=============================================================================
