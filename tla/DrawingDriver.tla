---------------------------- MODULE DrawingDriver ----------------------------
(***************************************************************************)
(* The drawing program of csf_assign02: c_driver.c reads commands, draws   *)
(* on a canvas and writes it to a file; image.c makes, reads and writes    *)
(* images.  It is linked with the drawing functions in C (c_draw) or with  *)
(* those in assembly (asm_draw).  A command is an action; pnglite is       *)
(* external, it delivers and takes the bytes of the pixels or fails.       *)
(* Memory that is never freed is left out.                                 *)
(***************************************************************************)
EXTENDS AsmDrawing

CONSTANTS
    Slots,        \* the numbers of loaded images: 0 .. NUM_IMAGE_SLOTS - 1
    Files,        \* the PNG files there are: format, width, height, bytes
    Sizes,        \* sizes a canvas may be given
    Rects,        \* rectangles that are drawn, or copied as tiles or sprites
    Points,       \* places where circles, tiles and sprites are drawn
    Radii,        \* radii of circles
    Paints,       \* colors of rectangles and circles
    MaxCommands,  \* bound on the commands of an input
    None,         \* no image, no file
    Partial       \* a file that is not complete

ASSUME PaintsAssumption == Paints \subseteq Colors
ASSUME MaxCommandsAssumption == MaxCommands \in Nat

Coordinates == -(Word \div 2) .. (Word \div 2) - 1              \* an int32_t
Lengths == 0 .. (Word \div 2) - 1          \* one that is not negative
FitsWord(w, h) == w \in Lengths /\ h \in Lengths /\ w * h < Word

(* Nothing that is computed overflows: sums of coordinates, squares of       *)
(* distances in a circle, numbers of pixels.  A file has all of its pixels.  *)
ASSUME SizesAssumption == \A s \in Sizes : FitsWord(s[1], s[2])
ASSUME RectsAssumption ==
    \A r \in Rects :
        /\ {r.x, r.y, r.width, r.height} \subseteq Coordinates
        /\ {r.x + r.width, r.y + r.height} \subseteq Coordinates
ASSUME PointsAssumption ==
    \A p \in Points :
        /\ {p[1], p[2], -p[1], -p[2]} \subseteq Coordinates
        /\ \A r \in Rects : {p[1] + r.width, p[2] + r.height} \subseteq Coordinates
        /\ \A r \in Radii : {p[1] + r, p[2] + r, p[1] - r, p[2] - r} \subseteq Coordinates
ASSUME RadiiAssumption == \A r \in Radii : {r, 2 * r * r} \subseteq Coordinates
ASSUME FilesAssumption ==
    \A f \in Files :
        /\ FitsWord(f.width, f.height)
        /\ DOMAIN f.bytes = 0 .. (f.width * f.height) - 1
        /\ \A i \in DOMAIN f.bytes, k \in 1 .. 4 : f.bytes[i][k] \in 0 .. Byte - 1

VARIABLES
    canvas,        \* canvas, None while its data is NULL
    images,        \* loaded_images
    error,         \* error, or "killed" by a signal
    pc,            \* "commands", "write" or "exit"
    output,        \* the file argv[1]: None, Partial or the bytes of its pixels
    littleEndian,  \* is_little_endian()
    version,       \* the drawing functions: "c" or "asm"
    commands       \* how many commands have been read

vars == <<canvas, images, error, pc, output, littleEndian, version, commands>>

-----------------------------------------------------------------------------
(* image.c *)

Black == Opaque                                          \* 0x000000FF

(* Variant with a bug: the loop that clears the pixels goes one too far.     *)
InitImageClosed(w, h) == Image(w, h, [i \in 0 .. w * h |-> Black])

InitImage(w, h) == Image(w, h, [i \in 0 .. (w * h) - 1 |-> Black])

(* The bytes of a word in memory, the word they are, and byteswap.           *)
Stored(word) ==
    IF littleEndian THEN <<GetA(word), GetB(word), GetG(word), GetR(word)>>
                    ELSE <<GetR(word), GetG(word), GetB(word), GetA(word)>>
Loaded(b) ==
    IF littleEndian THEN Packed(b[4], b[3], b[2], b[1])
                    ELSE Packed(b[1], b[2], b[3], b[4])
Byteswap(word) ==
    LET p == Stored(word) IN Packed(p[1], p[2], p[3], p[4])

(* Variant with a bug: the words are never swapped.                          *)
BigEndianNever(word) == word

BigEndian(word) == IF littleEndian THEN Byteswap(word) ELSE word

Readable(file) == file.format \in {"rgb", "rgba"}

(* RGB pixels become opaque, RGBA words are swapped if need be.              *)
ReadImage(file) ==
    Image(file.width, file.height,
          [i \in DOMAIN file.bytes |->
              LET b == file.bytes[i]
              IN  IF file.format = "rgb" THEN Packed(b[1], b[2], b[3], Opaque)
                                         ELSE BigEndian(Loaded(b))])

Written(img) == [i \in DOMAIN img.data |-> Stored(BigEndian(img.data[i]))]

-----------------------------------------------------------------------------
(* Commands *)

Init ==
    /\ canvas = None
    /\ images = [n \in Slots |-> None]
    /\ error = "no" /\ pc = "commands" /\ output = None
    /\ littleEndian \in BOOLEAN /\ version \in {"c", "asm"}
    /\ commands = 0

Command ==
    /\ pc = "commands" /\ commands < MaxCommands
    /\ commands' = commands + 1
    /\ UNCHANGED <<output, littleEndian, version>>

Draw(img) == canvas' = img /\ UNCHANGED <<images, error, pc>>

(* The loop ends; frees follow, and the program exits with error != 0.       *)
Fail(e) == error' = e /\ pc' = "exit" /\ UNCHANGED <<canvas, images>>

(* "S": a new canvas takes the place of one that there may be.               *)
Size == Command /\ \E s \in Sizes : Draw(InitImage(s[1], s[2]))

RectDrawn(rect, color) ==
    IF version = "c" THEN DrawRect(canvas, rect, color)
                     ELSE AsmDrawRect(canvas, rect, color)

Rectangle ==
    /\ Command /\ canvas # None
    /\ \E rect \in Rects, color \in Paints : Draw(RectDrawn(rect, color))

CircleDrawn(p, r, color) ==
    IF version = "c" THEN DrawCircle(canvas, p[1], p[2], r, color)
                     ELSE AsmDrawCircle(canvas, p[1], p[2], r, color)

Circle ==
    /\ Command /\ canvas # None
    /\ \E p \in Points, r \in Radii, color \in Paints : Draw(CircleDrawn(p, r, color))

Load ==
    /\ Command
    /\ \E n \in Slots, file \in Files :
          /\ images[n] = None /\ Readable(file)
          /\ images' = [images EXCEPT ![n] = ReadImage(file)]
    /\ UNCHANGED <<canvas, error, pc>>

(* Neither tiles nor sprites ask for a canvas: one of no size is drawn on.   *)
Target == IF canvas = None THEN Image(0, 0, [i \in {} |-> Black]) ELSE canvas

Copied(map, p, tile) ==
    IF version = "c" THEN TileCopies(Target, p[1], p[2], map, tile)
                     ELSE AsmTileCopies(Target, p[1], p[2], map, tile)

Tile ==
    /\ Command
    /\ \E n \in Slots, tile \in Rects, p \in Points :
          /\ images[n] # None
          /\ LET copies == Copied(images[n], p, tile)
             IN  IF TileCrashes(copies)
                   THEN Fail("killed")
                   ELSE Draw(IF copies = {} THEN canvas
                             ELSE DrawTile(canvas, copies, images[n]))

Sprite ==
    /\ Command
    /\ \E n \in Slots, sprite \in Rects, p \in Points :
          /\ images[n] # None
          /\ IF version = "asm"
               THEN IF AsmSpriteKills(Target, p[1], p[2], images[n], sprite)
                      THEN Fail("killed") ELSE Draw(canvas)
               ELSE Draw(IF canvas = None THEN canvas
                         ELSE DrawSprite(canvas, p[1], p[2], images[n], sprite))

(* An unknown or malformed command; a drawing before "S"; a slot that does   *)
(* not exist, is in use ("L") or is not ("T", "P"); a file that cannot be    *)
(* opened or decoded or has another format; no memory for the canvas.        *)
BadCommand == Command /\ Fail("yes")

(* read_image writes its pixels through a NULL pointer if malloc fails.      *)
LoadKilled == Command /\ Fail("killed")

EndOfInput ==
    /\ pc = "commands" /\ pc' = "write"
    /\ UNCHANGED <<canvas, images, error, output, littleEndian, version, commands>>

(* write_image: the file cannot be created, or not be completed, or is.      *)
Write ==
    /\ pc = "write" /\ pc' = "exit"
    /\ \/ error' = "no" /\ output' = Written(Target)
       \/ error' = "yes" /\ output' \in {output, Partial}
    /\ UNCHANGED <<canvas, images, littleEndian, version, commands>>

Next ==
    \/ Size \/ Rectangle \/ Circle \/ Load \/ Tile \/ Sprite
    \/ BadCommand \/ LoadKilled \/ EndOfInput \/ Write

Spec == Init /\ [][Next]_vars

-----------------------------------------------------------------------------
(* Properties *)

IsImage(img) ==
    /\ DOMAIN img.data = 0 .. (img.width * img.height) - 1
    /\ \A i \in DOMAIN img.data : img.data[i] \in Colors

(* Every image has as many pixels as its size says, and colors in them.      *)
DriverTypeOK ==
    /\ canvas = None \/ IsImage(canvas)
    /\ \A n \in Slots : images[n] = None \/ IsImage(images[n])
    /\ error \in {"no", "yes", "killed"}
    /\ pc \in {"commands", "write", "exit"}
    /\ littleEndian \in BOOLEAN /\ version \in {"c", "asm"}
    /\ commands \in 0 .. MaxCommands

(* c = (a*fg + (1-a)*bg), rounded down to a component.                       *)
IsMix(c, fg, bg, a) ==
    LET exact == (a * fg) + ((Opaque - a) * bg)
    IN  Opaque * c <= exact /\ exact < Opaque * (c + 1)

IsBlend(new, fg, bg) ==
    IF GetA(fg) = 0
      THEN new = bg
      ELSE /\ GetA(new) = Opaque
           /\ IsMix(GetR(new), GetR(fg), GetR(bg), GetA(fg))
           /\ IsMix(GetG(new), GetG(fg), GetG(bg), GetA(fg))
           /\ IsMix(GetB(new), GetB(fg), GetB(bg), GetA(fg))

(* new is old with the given color blended in at the pixels in the shape.    *)
IsDrawn(new, old, Inside(_, _), color) ==
    /\ new.width = old.width /\ new.height = old.height
    /\ \A i \in DOMAIN old.data :
          IF Inside(i % old.width, i \div old.width)
            THEN IsBlend(new.data[i], color, old.data[i])
            ELSE new.data[i] = old.data[i]

(* The far edge of what is drawn at v with the given length.  In C one left  *)
(* of the image or above it counts as unsigned, and reaches across it.       *)
FarEdge(v, length, size) ==
    IF version = "c" /\ v + length < 0 THEN size ELSE v + length

RectExact(rect, color) ==
    IsDrawn(RectDrawn(rect, color), canvas,
            LAMBDA x, y :
                /\ rect.width > 0 /\ rect.height > 0
                /\ rect.x <= x /\ x < FarEdge(rect.x, rect.width, canvas.width)
                /\ rect.y <= y /\ y < FarEdge(rect.y, rect.height, canvas.height),
            color)

CircleExact(p, r, color) ==
    IsDrawn(CircleDrawn(p, r, color), canvas,
            LAMBDA x, y :
                /\ r >= 0
                /\ ((x - p[1]) * (x - p[1])) + ((y - p[2]) * (y - p[2])) <= r * r,
            color)

(* Wherever a rectangle or a circle lies, partly or wholly outside of the    *)
(* image, the pixels that change are those of the shape within the image,    *)
(* and each is blended with what was there before, once; in C as in          *)
(* assembly.                                                                 *)
ShapesExact ==
    canvas # None /\ pc = "commands" =>
        \A color \in Paints :
            /\ \A rect \in Rects : RectExact(rect, color)
            /\ \A p \in Points, r \in Radii : CircleExact(p, r, color)

(* The part of img that the tile or sprite at p covers, and the pixel of the *)
(* map that belongs at a place in it.                                        *)
Covers(p, part, x, y) ==
    /\ p[1] <= x /\ x < p[1] + part.width
    /\ p[2] <= y /\ y < p[2] + part.height
PixelAt(map, p, part, x, y) ==
    map.data[((part.y + y - p[2]) * map.width) + (part.x + x - p[1])]

Within(map, part, border) ==
    /\ part.x >= 0 /\ part.x + part.width <= map.width - border
    /\ part.y >= 0 /\ part.y + part.height <= map.height - border

(* A tile or sprite that does not end left of the image or above it.         *)
EndsOnImage(p, part) == p[1] + part.width >= 0 /\ p[2] + part.height >= 0

(* In assembly a tile must not be as wide or as high as the map, and one     *)
(* that starts left of the map or above it is drawn as far as it is inside.  *)
TileTaken(map, tile) ==
    IF version = "c"
      THEN Within(map, tile, 0)
      ELSE /\ tile.width < map.width /\ tile.height < map.height
           /\ tile.x + tile.width \in 1 .. map.width
           /\ tile.y + tile.height \in 1 .. map.height

HasPixel(map, p, part, x, y) ==
    part.x + x - p[1] >= 0 /\ part.y + y - p[2] >= 0

TileExact(map, p, tile) ==
    LET copies == Copied(map, p, tile)
    IN  version = "asm" \/ EndsOnImage(p, tile) =>
            /\ ~TileCrashes(copies)
            /\ \A i \in DOMAIN canvas.data :
                  LET x == i % canvas.width
                      y == i \div canvas.width
                  IN  DrawTile(canvas, copies, map).data[i] =
                        IF /\ TileTaken(map, tile) /\ Covers(p, tile, x, y)
                           /\ HasPixel(map, p, tile, x, y)
                          THEN PixelAt(map, p, tile, x, y) ELSE canvas.data[i]

SpriteExact(map, p, sprite) ==
    LET new == DrawSprite(canvas, p[1], p[2], map, sprite)
    IN  \A i \in DOMAIN canvas.data :
            LET x == i % canvas.width
                y == i \div canvas.width
            IN  IF Within(map, sprite, 1) /\ Covers(p, sprite, x, y)
                  THEN IsBlend(new.data[i], PixelAt(map, p, sprite, x, y),
                               canvas.data[i])
                  ELSE new.data[i] = canvas.data[i]

(* In assembly no sprite is drawn, and one that is not higher than wide ends *)
(* the program if any part of it would show.                                 *)
SpriteEnds(map, p, sprite) ==
    LET shows == \E i \in DOMAIN canvas.data :
                     Covers(p, sprite, i % canvas.width, i \div canvas.width)
        kills == AsmSpriteKills(canvas, p[1], p[2], map, sprite)
    IN  /\ kills /\ sprite.height > 0 => Within(map, sprite, 1)
        /\ shows /\ Within(map, sprite, 1) /\ sprite.height <= sprite.width => kills

(* Copying a tile or a sprite moves each pixel of it to its place, or leaves *)
(* it out if that is outside of the image; nothing is read from beyond the   *)
(* tile.  A part of the map that is not wholly inside is not drawn, nor is a *)
(* sprite that touches its right or lower edge.  In assembly this is so for  *)
(* tiles, with other tiles refused.                                          *)
CopiesExact ==
    canvas # None /\ pc = "commands" =>
        \A n \in Slots : images[n] # None =>
            \A p \in Points, part \in Rects :
                /\ TileExact(images[n], p, part)
                /\ IF version = "c" THEN SpriteExact(images[n], p, part)
                                    ELSE SpriteEnds(images[n], p, part)

(* On machines of either byte order, a file that is said to be written has   *)
(* the components of the canvas in order R, G, B, A; if that fails, the      *)
(* program says so.                                                          *)
OutputFaithful ==
    pc = "exit" =>
        IF error = "no"
          THEN output = [i \in DOMAIN Target.data |->
                            <<GetR(Target.data[i]), GetG(Target.data[i]),
                              GetB(Target.data[i]), GetA(Target.data[i])>>]
          ELSE output \in {None, Partial}

(* What is in a slot has the components of the file it was read from.        *)
LoadsFaithful ==
    \A n \in Slots : images[n] # None =>
        \E f \in Files :
            /\ DOMAIN images[n].data = DOMAIN f.bytes
            /\ \A i \in DOMAIN f.bytes :
                  LET c == images[n].data[i]
                      alpha == IF f.format = "rgb" THEN Opaque ELSE f.bytes[i][4]
                  IN  <<GetR(c), GetG(c), GetB(c), GetA(c)>> =
                        <<f.bytes[i][1], f.bytes[i][2], f.bytes[i][3], alpha>>

(* Pixels survive files in both directions.                                  *)
FilesFaithful == OutputFaithful /\ LoadsFaithful

=============================================================================
