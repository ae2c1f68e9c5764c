------------------------------ MODULE MCDrawing ------------------------------
(* An instance of DrawingDriver: components of two bits, canvases of a few   *)
(* pixels, and shapes that lie inside, across and beyond every border.       *)
EXTENDS DrawingDriver

SmallSizes == {<<3, 2>>, <<0, 2>>}
SomeRects ==
    [x : {-4, -1, 0, 1, 2}, y : {-3, 0, 1}, width : {-1, 0, 1, 2, 3},
     height : {-1, 1, 2}]
SomePoints == (-3 .. 3) \X (-2 .. 2)
SomeRadii == -1 .. 2
SomePaints == {Packed(2, 1, 3, 3), Packed(3, 0, 1, 1), Packed(1, 2, 2, 0)}

TilePixels ==
    << <<1, 2, 3, 3>>, <<3, 1, 0, 2>>, <<0, 3, 2, 1>>, <<2, 2, 1, 0>>,
       <<1, 0, 2, 3>>, <<3, 3, 0, 1>>, <<0, 1, 1, 2>>, <<2, 0, 3, 3>>,
       <<1, 1, 3, 2>> >>
SomeFiles ==
    {[format |-> "rgba", width |-> 3, height |-> 3,
      bytes |-> [i \in 0 .. 8 |-> TilePixels[i + 1]]],
     [format |-> "rgb", width |-> 2, height |-> 2,
      bytes |-> [i \in 0 .. 3 |-> TilePixels[i + 2]]],
     [format |-> "gray", width |-> 1, height |-> 1,
      bytes |-> [i \in {0} |-> <<1, 1, 1, 1>>]]}

=============================================================================
