------------------------------- MODULE Drawing -------------------------------
(***************************************************************************)
(* The drawing functions of csf_assign02 (c_drawing_funcs.c): operators    *)
(* that take an image and return the image they leave behind.              *)
(*                                                                         *)
(* Widths and heights are uint32_t, coordinates int32_t.  C converts the   *)
(* signed side of a mixed comparison to unsigned, so a negative number     *)
(* becomes a very large one: Unsigned stands wherever the code has such a  *)
(* comparison.  Sums of coordinates are taken to fit.                      *)
(***************************************************************************)
EXTENDS Integers, FiniteSetsExt

CONSTANTS
    Word,    \* number of values of a 32-bit word: 2^32
    Byte     \* number of values of a color component: 256

ASSUME WordAssumption == Word \in Nat \ {0}
ASSUME ByteAssumption == Byte \in Nat /\ Byte > 1

Opaque == Byte - 1
Colors == 0 .. (Byte * Byte * Byte * Byte) - 1

Unsigned(v) == v % Word
NoIndex == Word - 1                    \* (uint32_t)-1

Image(w, h, pixels) == [width |-> w, height |-> h, data |-> pixels]

-----------------------------------------------------------------------------
(* Helper functions *)

InBounds(img, x, y) == x \in 0 .. img.width - 1 /\ y \in 0 .. img.height - 1

ComputeIndex(img, x, y) ==
    IF InBounds(img, x, y) THEN (y * img.width) + x ELSE NoIndex

(* A color is a word RRGGBBAA.                                               *)
GetR(color) == (color \div (Byte * Byte * Byte)) % Byte
GetG(color) == (color \div (Byte * Byte)) % Byte
GetB(color) == (color \div Byte) % Byte
GetA(color) == color % Byte
Packed(r, g, b, a) == (((((r * Byte) + g) * Byte) + b) * Byte) + a

BlendComponents(fg, bg, alpha) ==
    ((alpha * fg) + (bg * (Opaque - alpha))) \div Opaque

BlendColors(fg, bg) ==
    LET a == GetA(fg)
        Mix(Get(_)) == BlendComponents(Get(fg), Get(bg), a)
    IN  CASE a = 0      -> bg
          [] a = Opaque -> Packed(GetR(fg), GetG(fg), GetB(fg), Opaque)
          [] OTHER      -> Packed(Mix(GetR), Mix(GetG), Mix(GetB), Opaque)

(* set_pixel at several indices at once: pixels is a function from them to   *)
(* their colors.                                                             *)
SetPixels(img, pixels) ==
    [img EXCEPT !.data = [i \in DOMAIN @ |->
        IF i \in DOMAIN pixels /\ i < img.width * img.height
          THEN pixels[i] ELSE @[i]]]

(* draw_pixel at every one of the points a loop visits, each of them once.   *)
DrawPixels(img, points, color) ==
    LET indices == {ComputeIndex(img, p[1], p[2]) :
                       p \in {q \in points : InBounds(img, q[1], q[2])}}
    IN  SetPixels(img, [i \in indices |-> BlendColors(color, img.data[i])])

-----------------------------------------------------------------------------
(* Rectangles and circles *)

FromZero(v) == IF v < 0 THEN 0 ELSE v

(* Variant with a bug: the far edge is drawn, too.                           *)
RectEndClosed(v, size) == IF Unsigned(v) > size THEN size ELSE v + 1

RectEnd(v, size) == IF Unsigned(v) > size THEN size ELSE v

DrawRect(img, rect, color) ==
    IF rect.width <= 0 \/ rect.height <= 0
      THEN img
      ELSE DrawPixels(img,
             (FromZero(rect.x) .. RectEnd(rect.x + rect.width, img.width) - 1)
               \X
             (FromZero(rect.y) .. RectEnd(rect.y + rect.height, img.height) - 1),
             color)

CircleEnd(v, size) == IF Unsigned(v) >= size THEN size - 1 ELSE v

DrawCircle(img, x, y, r, color) ==
    LET columns == FromZero(x - r) .. CircleEnd(x + r, img.width)
        rows    == FromZero(y - r) .. CircleEnd(y + r, img.height)
        Inside(p) == ((x - p[1]) * (x - p[1])) + ((y - p[2]) * (y - p[2]))
                         <= r * r
    IN  IF r < 0
          THEN img
          ELSE DrawPixels(img, {p \in columns \X rows : Inside(p)}, color)

-----------------------------------------------------------------------------
(* Tiles and sprites: parts of one image copied to another *)

(* Variant with a bug: the columns left of the image are not skipped.        *)
TileSpanUnskipped(at, size, from, imgSize, mapSize) ==
    LET to == FromZero(at)
        clipped == IF Unsigned(to + size) > imgSize THEN imgSize - to ELSE size
    IN  [skip  |-> 0,
         to    |-> to,
         count |-> IF clipped <= 0
                     THEN 0 ELSE Min({clipped, mapSize - from, imgSize - to})]

(* What draw_tile does to one axis: how much of the tile it skips, where in  *)
(* the image it starts and how many columns or rows it copies.               *)
TileSpan(at, size, from, imgSize, mapSize) ==
    LET skip == IF at < 0 THEN -at ELSE 0
        to   == FromZero(at)
        clipped == IF Unsigned(to + size - skip) > imgSize
                     THEN imgSize - to ELSE size - skip
    IN  [skip  |-> skip,
         to    |-> to,
         count |-> IF clipped <= 0
                     THEN 0 ELSE Min({clipped, mapSize - from, imgSize - to})]

TileRefused(tilemap, tile) ==
    \/ tile.x < 0 \/ Unsigned(tile.x + tile.width) > tilemap.width
    \/ tile.y < 0 \/ Unsigned(tile.y + tile.height) > tilemap.height

(* The copies of draw_tile: pairs of a target and a source index.            *)
TileCopies(img, x, y, tilemap, tile) ==
    LET h == TileSpan(x, tile.width, tile.x, img.width, tilemap.width)
        v == TileSpan(y, tile.height, tile.y, img.height, tilemap.height)
    IN  IF TileRefused(tilemap, tile)
          THEN {}
          ELSE {<<ComputeIndex(img, h.to + p[1], v.to + p[2]),
                  ComputeIndex(tilemap, tile.x + h.skip + p[1],
                                        tile.y + v.skip + p[2])>> :
                    p \in (0 .. h.count - 1) \X (0 .. v.count - 1)}

(* The source of a copy may lie outside of the tilemap: data[0xFFFFFFFF].    *)
TileCrashes(copies) == \E c \in copies : c[1] = NoIndex \/ c[2] = NoIndex

DrawTile(img, copies, tilemap) ==
    SetPixels(img, [i \in {c[1] : c \in copies} |->
                       tilemap.data[(CHOOSE c \in copies : c[1] = i)[2]]])

SpriteRefused(spritemap, sprite) ==
    \/ ~InBounds(spritemap, sprite.x, sprite.y)
    \/ ~InBounds(spritemap, sprite.x + sprite.width, sprite.y + sprite.height)

(* The pixel of the sprite that lands on index i of the image is blended     *)
(* with the one it covers.                                                   *)
DrawSprite(img, x, y, spritemap, sprite) ==
    LET SpriteIndex(i) ==
            ComputeIndex(spritemap, sprite.x + (i % img.width) - x,
                                    sprite.y + (i \div img.width) - y)
        targets == {ComputeIndex(img, x + p[1], y + p[2]) :
                      p \in {q \in (0 .. sprite.width - 1) \X (0 .. sprite.height - 1) :
                                InBounds(img, x + q[1], y + q[2])}}
    IN  IF SpriteRefused(spritemap, sprite)
          THEN img
          ELSE SetPixels(img, [i \in targets |->
                                  BlendColors(spritemap.data[SpriteIndex(i)],
                                              img.data[i])])

=============================================================================
