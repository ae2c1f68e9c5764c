------------------------------ MODULE AsmDrawing ------------------------------
(***************************************************************************)
(* The drawing functions of csf_assign02 a second time, in assembly        *)
(* (asm_drawing_funcs.S).  Here comparisons are signed, nearly every pixel *)
(* is checked before it is touched, and values live in registers and on    *)
(* the stack, where some do not survive a call: a definition says what is  *)
(* in them when they are used.  get_r to get_a and set_pixel do what they  *)
(* do in C.                                                                *)
(***************************************************************************)
EXTENDS Drawing

AsmInBounds(img, x, y) ==
    /\ y >= 0 /\ y < img.height
    /\ x >= 0 /\ x < img.width

AsmComputeIndex(img, x, y) ==
    IF AsmInBounds(img, x, y) THEN (y * img.width) + x ELSE NoIndex

AsmBlendComponents(fg, bg, alpha) ==
    (((Opaque - alpha) * bg) + (alpha * fg)) \div Opaque

AsmBlendColors(fg, bg) ==
    LET a == GetA(fg)
        Final(Get(_)) == IF a = Opaque
                           THEN Get(fg) ELSE AsmBlendComponents(Get(fg), Get(bg), a)
    IN  IF a = 0 THEN bg ELSE Packed(Final(GetR), Final(GetG), Final(GetB), Opaque)

(* draw_pixel at every one of the points a loop visits, each of them once.   *)
AsmDrawPixels(img, points, color) ==
    LET indices == {AsmComputeIndex(img, p[1], p[2]) : p \in points} \ {NoIndex}
    IN  SetPixels(img, [i \in indices |-> AsmBlendColors(color, img.data[i])])

(* Nothing is clipped: draw_pixel leaves out what is not on the image.       *)
AsmDrawRect(img, rect, color) ==
    AsmDrawPixels(img, (rect.x .. rect.x + rect.width - 1)
                         \X (rect.y .. rect.y + rect.height - 1), color)

AsmDrawCircle(img, x, y, r, color) ==
    LET columns == (IF r > x THEN 0 ELSE x - r) .. Min({x + r, img.width - 1})
        rows    == (IF r > y THEN 0 ELSE y - r) .. Min({y + r, img.height - 1})
        Inside(p) == ((x - p[1]) * (x - p[1])) + ((y - p[2]) * (y - p[2]))
                         <= r * r
    IN  IF r < 0
          THEN img
          ELSE AsmDrawPixels(img, {p \in columns \X rows : Inside(p)}, color)

(* The first corner is never checked: the size of the tile is loaded over it *)
(* before in_bounds is called.                                               *)
AsmTileRefused(tilemap, tile) ==
    \/ ~AsmInBounds(tilemap, tile.width, tile.height)
    \/ ~AsmInBounds(tilemap, tile.x + tile.width - 1, tile.y + tile.height - 1)

AsmTileCopies(img, x, y, tilemap, tile) ==
    LET copy(p) == <<AsmComputeIndex(img, x + p[1], y + p[2]),
                     AsmComputeIndex(tilemap, tile.x + p[1], tile.y + p[2])>>
        pixels == (0 .. tile.width - 1) \X (0 .. tile.height - 1)
    IN  IF AsmTileRefused(tilemap, tile)
          THEN {}
          ELSE {c \in {copy(p) : p \in pixels} : NoIndex \notin {c[1], c[2]}}

(* The address of the sprite map is in rcx, where compute_index puts the     *)
(* width of the map: the first pixel that is on the image and in the map is  *)
(* read through it, which kills the program.  The loop compares rows with    *)
(* the width of the sprite.  If the first pixel on the image is not in the   *)
(* map, the call has left the column where the width was, and both loops end *)
(* before another one that is.  So a sprite never changes the image.         *)
AsmSpriteKills(img, x, y, spritemap, sprite) ==
    LET side == 0 .. sprite.width - 1
        shown == {p \in side \X side : AsmInBounds(img, x + p[1], y + p[2])}
        Before(p, q) == p[1] < q[1] \/ (p[1] = q[1] /\ p[2] <= q[2])
    IN  /\ AsmInBounds(spritemap, sprite.x, sprite.y)
        /\ AsmInBounds(spritemap, sprite.x + sprite.width, sprite.y + sprite.height)
        /\ \E p \in shown :
              /\ \A q \in shown : Before(p, q)
              /\ AsmInBounds(spritemap, sprite.x + p[1], sprite.y + p[2])

=============================================================================
