------------------------------- MODULE Cursor -------------------------------
(***************************************************************************)
(* mouseCursorFromHCursor() of desktop_capture/win/cursor.cc: turning a   *)
(* Windows cursor (an AND/XOR mask pair, or a mask and a 32bpp colour     *)
(* bitmap) into a premultiplied RGBA MouseCursor.                          *)
(*                                                                         *)
(* Bitmaps are what GetDIBits() returns: row-major, top-down, 32 bits a   *)
(* pixel, indexed from 0 the way the code walks them with a pointer.  A   *)
(* monochrome mask converts to pixels 0x000000 and 0xFFFFFF with alpha 0. *)
(* Channel values are bytes; the colour bitmaps come from a small set.    *)
(*                                                                         *)
(* The model computes the cursor for one icon chosen in Init.  The        *)
(* reference definitions at the end restate the spec's table, outline    *)
(* and premultiplication rules with coordinates instead of pointer        *)
(* arithmetic, and the properties compare the two.                         *)
(***************************************************************************)
EXTENDS Naturals

CONSTANTS
    MonoSizes,      \* <<width, height>> of the monochrome cursors considered
    ColorSizes,     \* <<width, height>> of the colour cursors considered
    ColorPixels     \* pixels a colour bitmap may hold

ASSUME MonoSizes \cup ColorSizes \subseteq (Nat \ {0}) \X (Nat \ {0})

\* RGBA() of line 133, kept as a record of the four bytes.
RGBA(r, g, b, a) == [r |-> r, g |-> g, b |-> b, a |-> a]

kPixelRgbaBlack       == RGBA(0, 0, 0, 255)
kPixelRgbaWhite       == RGBA(255, 255, 255, 255)
kPixelRgbaTransparent == RGBA(0, 0, 0, 0)
kPixelRgbWhite        == RGBA(255, 255, 255, 0)

\* What GetDIBits() makes of a 1bpp mask pixel.
MaskPixels == {kPixelRgbaTransparent, kPixelRgbWhite}

Bytes == 0 .. 255
Pixel == [r : Bytes, g : Bytes, b : Bytes, a : Bytes]

VARIABLES
    icon,     \* the HCURSOR: GetIconInfo() and GetDIBits() results
    result,   \* "pending", then "nullptr" or "cursor" when the call returns
    cursor    \* the MouseCursor built

vars == <<icon, result, cursor>>

Indices(n) == 0 .. n - 1

\* GetObjectW() and GetDIBits() of the cursors considered.
Icons(w, mh, isColor) ==
    [width : {w}, maskHeight : {mh}, isColor : {isColor},
     mask : [Indices(w * mh) -> MaskPixels],
     color : IF isColor THEN [Indices(w * mh) -> ColorPixels] ELSE {<<>>}]

Init ==
    /\ \/ \E s \in MonoSizes : icon \in Icons(s[1], 2 * s[2], FALSE)
       \/ \E s \in ColorSizes : icon \in Icons(s[1], s[2], TRUE)
    /\ result = "pending"
    /\ cursor = [width |-> 0, height |-> 0, image |-> <<>>]

-----------------------------------------------------------------------------
(* The helpers of cursor.cc.                                              *)

\* hasAlphaChannel() (lines 149-165): any non-zero alpha byte.
HasAlphaChannel(data, n) == \E i \in Indices(n) : data[i].a # 0

\* Mutant: the outline check of line 185 without its x < width - 1 guard,
\* reading the first pixel of the next row.
NextToBlackRowWrap(data, i, width, height) ==
    LET x == i % width
        y == i \div width
    IN  \/ y > 0 /\ data[i - width] = kPixelRgbaBlack
        \/ y < height - 1 /\ data[i + width] = kPixelRgbaBlack
        \/ x > 0 /\ data[i - 1] = kPixelRgbaBlack
        \/ i + 1 < width * height /\ data[i + 1] = kPixelRgbaBlack

\* Lines 182-185: is a 4-neighbour of pixel i black?
NextToBlack(data, i, width, height) ==
    LET x == i % width
        y == i \div width
    IN  \/ y > 0 /\ data[i - width] = kPixelRgbaBlack
        \/ y < height - 1 /\ data[i + width] = kPixelRgbaBlack
        \/ x > 0 /\ data[i - 1] = kPixelRgbaBlack
        \/ x < width - 1 /\ data[i + 1] = kPixelRgbaBlack

\* addCursorOutline() (lines 169-194): one pass in memory order, rewriting
\* the buffer in place, so pixels before i are already rewritten.
RECURSIVE OutlineFrom(_, _, _, _)
OutlineFrom(width, height, data, i) ==
    IF i >= width * height THEN data
    ELSE OutlineFrom(width, height,
                     IF data[i] = kPixelRgbaTransparent
                        /\ NextToBlack(data, i, width, height)
                       THEN [data EXCEPT ![i] = kPixelRgbaWhite]
                       ELSE data,
                     i + 1)

AddCursorOutline(width, height, data) == OutlineFrom(width, height, data, 0)

\* Mutant: the divisor off by one, overflowing the byte for opaque white.
PremultiplyPixelOffByOne(p) ==
    [p EXCEPT !.r = (@ * p.a) \div 254, !.g = (@ * p.a) \div 254,
              !.b = (@ * p.a) \div 254]

\* alphaMul() (lines 198-212): each colour byte times alpha, over 255,
\* truncated.
PremultiplyPixel(p) ==
    [p EXCEPT !.r = (@ * p.a) \div 255, !.g = (@ * p.a) \div 255,
              !.b = (@ * p.a) \div 255]

AlphaMul(data) == [i \in DOMAIN data |-> PremultiplyPixel(data[i])]

\* Lines 341-356: one mask pixel and one colour pixel combined.  XOR with
\* kPixelRgbaBlack flips every bit of the alpha byte.
CombineMask(mask, dst) ==
    IF mask = kPixelRgbWhite
      THEN IF dst # kPixelRgbaTransparent THEN kPixelRgbaBlack
           ELSE kPixelRgbaTransparent
      ELSE [dst EXCEPT !.a = 255 - @]

(***************************************************************************)
(* mouseCursorFromHCursor() (lines 217-376).  GetIconInfo(), GetObjectW() *)
(* and either GetDIBits() may fail, and the function returns nullptr.     *)
(* A monochrome cursor's mask holds the AND mask over the XOR mask; the   *)
(* XOR half becomes the colour image (lines 302-314).                     *)
(***************************************************************************)
MouseCursorFromHCursor ==
    LET width  == icon.width
        height == IF icon.isColor THEN icon.maskHeight
                  ELSE icon.maskHeight \div 2
        n      == width * height
        image  == IF icon.isColor THEN icon.color
                  ELSE [i \in Indices(n) |-> icon.mask[n + i]]
        hasAlpha == icon.isColor /\ HasAlphaChannel(image, n)
        combined == [i \in Indices(n) |-> CombineMask(icon.mask[i], image[i])]
        addOutline == \E i \in Indices(n) : icon.mask[i] = kPixelRgbWhite
                                            /\ image[i] # kPixelRgbaTransparent
        final == IF hasAlpha THEN image
                 ELSE IF addOutline THEN AddCursorOutline(width, height, combined)
                 ELSE combined
    IN
    /\ result = "pending"
    /\ \/ /\ result' = "cursor"
          /\ cursor' = [width |-> width, height |-> height,
                        image |-> AlphaMul(final)]
       \/ /\ result' = "nullptr"
          /\ UNCHANGED cursor
    /\ UNCHANGED icon

\* The conversion is one call: once it has returned, nothing more happens.
Next == MouseCursorFromHCursor

Spec == Init /\ [][Next]_vars

-----------------------------------------------------------------------------
(***************************************************************************)
(* The reference: the spec's rules stated over pixel coordinates.         *)
(***************************************************************************)
\* The spec's combination table for a mask bit and a source colour.
TableEntry(maskBit, src) ==
    CASE maskBit = 0 -> [src EXCEPT !.a = 255]
      [] maskBit = 1 /\ src = kPixelRgbaTransparent -> kPixelRgbaTransparent
      [] OTHER -> kPixelRgbaBlack

Coords(w, h) == (0 .. w - 1) \X (0 .. h - 1)
At(w, xy) == xy[2] * w + xy[1]
Neighbours(w, h, xy) ==
    {nb \in Coords(w, h) : \/ nb[1] = xy[1] /\ (nb[2] = xy[2] + 1 \/ nb[2] + 1 = xy[2])
                           \/ nb[2] = xy[2] /\ (nb[1] = xy[1] + 1 \/ nb[1] + 1 = xy[1])}

\* Every transparent pixel with an opaque black 4-neighbour becomes white,
\* all decided on the image before the pass.
OutlineReference(w, h, img) ==
    [i \in DOMAIN img |->
        LET xy == CHOOSE c \in Coords(w, h) : At(w, c) = i
        IN  IF img[i] = kPixelRgbaTransparent
               /\ \E nb \in Neighbours(w, h, xy) : img[At(w, nb)] = kPixelRgbaBlack
              THEN kPixelRgbaWhite ELSE img[i]]

ReferenceCursor ==
    LET w == icon.width
        h == IF icon.isColor THEN icon.maskHeight ELSE icon.maskHeight \div 2
        src == [i \in Indices(w * h) |->
                  IF icon.isColor THEN icon.color[i] ELSE icon.mask[w * h + i]]
        maskBit(i) == IF icon.mask[i] = kPixelRgbWhite THEN 1 ELSE 0
        table == [i \in Indices(w * h) |-> TableEntry(maskBit(i), src[i])]
        xorPixel == \E i \in Indices(w * h) : maskBit(i) = 1
                                              /\ src[i] # kPixelRgbaTransparent
        straight == IF icon.isColor /\ \E i \in Indices(w * h) : src[i].a # 0
                      THEN src
                      ELSE IF xorPixel THEN OutlineReference(w, h, table)
                      ELSE table
    IN  [width |-> w, height |-> h,
         image |-> [i \in Indices(w * h) |->
                      [straight[i] EXCEPT !.r = (@ * straight[i].a) \div 255,
                                          !.g = (@ * straight[i].a) \div 255,
                                          !.b = (@ * straight[i].a) \div 255]]]

-----------------------------------------------------------------------------
TypeOK ==
    /\ icon.isColor \in BOOLEAN
    /\ icon.mask \in [Indices(icon.width * icon.maskHeight) -> MaskPixels]
    /\ result \in {"pending", "nullptr", "cursor"}
    /\ result = "cursor" =>
          /\ cursor.width = icon.width
          /\ cursor.height * (IF icon.isColor THEN 1 ELSE 2) = icon.maskHeight
          /\ cursor.image \in [Indices(cursor.width * cursor.height) -> Pixel]

(***************************************************************************)
(* The cursor built is the one the spec describes: a colour bitmap with   *)
(* any alpha is kept; otherwise the mask/colour table is applied, and when *)
(* a reverse-screen pixel was met every transparent pixel 4-adjacent to   *)
(* black becomes white; then every pixel is premultiplied.  The code's    *)
(* in-place pointer walk, its XOR trick and its row-boundary guards must  *)
(* agree with the coordinate definitions for every icon up to the bounds. *)
(***************************************************************************)
CursorMatchesReference ==
    result = "cursor" => cursor = ReferenceCursor

=============================================================================
