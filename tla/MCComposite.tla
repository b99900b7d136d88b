----------------------------- MODULE MCComposite -----------------------------
(* A small instance of Composite.                                          *)
EXTENDS Composite

Picture(k, f, r, c) == [kind |-> k, fmt |-> f, reach |-> r, comp |-> c, pix |-> 0]

MCWords == {[hi |-> One, lo |-> Half], [hi |-> Half, lo |-> One], [hi |-> 0, lo |-> Half]}

MCSources ==
  {Picture("drawable", f, "gpu", FALSE) :
     f \in {"a8r8g8b8", "x8r8g8b8", "b8g8r8x8", "r5g6b5", "a8"}}
  \union {Picture("drawable", "a8r8g8b8", r, FALSE) : r \in {"outside", "alphamap"}}
  \union {Picture("drawable", "x8r8g8b8", "outside", FALSE)}
  \union {Picture("fill", "a8r8g8b8", "gpu", FALSE), Picture("tile", "x8r8g8b8", "gpu", FALSE),
          Picture("gradient", "a8r8g8b8", "cpu", FALSE)}

MCMasks ==
  {NoPicture}
  \union {Picture("drawable", "b8g8r8a8", "gpu", c) : c \in BOOLEAN}
  \union {Picture("drawable", "x8r8g8b8", "gpu", c) : c \in BOOLEAN}
  \union {Picture("drawable", "a8", r, FALSE) : r \in {"gpu", "outside"}}
  \union {Picture("tile", "a8", "gpu", FALSE)}
  \union {Picture("fill", "a8r8g8b8", "gpu", c) : c \in BOOLEAN}

MCDsts ==
  {Picture("drawable", f, "gpu", FALSE) :
     f \in {"a8r8g8b8", "x8r8g8b8", "b8g8r8x8", "a1r5g5b5", "r5g6b5", "a8"}}

MCPlaces == {<<1, 2, 3>>, <<1, 1, 2>>, <<1, 2, 1>>, <<1, 2, 2>>}
=============================================================================
