------------------------------- MODULE Canvas --------------------------------
(****************************************************************************)
(* The drawing surface of kernel/src/gfx.rs: which bytes of the pixel plane  *)
(* an operation writes.  Colours are left out.  A canvas is the record of    *)
(* its geometry and the length of its buffer; all numbers are usize.         *)
(****************************************************************************)
EXTENDS Integers

USIZE_MAX == 18446744073709551615
usize == 0 .. USIZE_MAX

Lesser(a, b) == IF a < b THEN a ELSE b

saturating_add(a, b) == Lesser(a + b, USIZE_MAX)
saturating_sub(a, b) == IF a < b THEN 0 ELSE a - b

\* checked_mul gives a number.
Fits(a, b) == a * b <= USIZE_MAX

Geometry == [len : usize, width : usize, height : usize, pitch : usize, bpp : usize]

\* Canvas::new returns Some.
new(c) ==
  /\ c.bpp # 0 /\ c.width # 0 /\ c.height # 0
  /\ Fits(c.width, c.bpp) /\ c.width * c.bpp <= c.pitch
  /\ Fits(c.height, c.pitch) /\ c.height * c.pitch <= c.len

\* BackBuffer::new: a plane without padding.
BackBuffer(width, height, bpp) ==
  [len |-> width * bpp * height, width |-> width, height |-> height,
   pitch |-> width * bpp, bpp |-> bpp]

pixel_offset(c, x, y) == y * c.pitch + x * c.bpp

\* The bytes set_pixel writes; blend_pixel reads and writes the same ones.
set_pixel(c, x, y) ==
  IF x < c.width /\ y < c.height
    THEN pixel_offset(c, x, y) .. pixel_offset(c, x, y) + c.bpp - 1
    ELSE {}

fill_rect(c, x, y, w, h) ==
  LET x0 == Lesser(x, c.width)
      y0 == Lesser(y, c.height)
      x1 == Lesser(saturating_add(x, w), c.width)
      y1 == Lesser(saturating_add(y, h), c.height)
  IN  UNION {set_pixel(c, xx, yy) : xx \in x0 .. x1 - 1, yy \in y0 .. y1 - 1}

\* clear, gradient_fill and wallpaper_drift.
clear(c) == fill_rect(c, 0, 0, c.width, c.height)

\* blit_from: rows and pixels copied, and for one row where it starts on both
\* sides and how many bytes go over.
BlitWidth(c, src, sw, dx) == Lesser(Lesser(sw, src.width), saturating_sub(c.width, dx))
BlitHeight(c, src, sh, dy) == Lesser(Lesser(sh, src.height), saturating_sub(c.height, dy))
src_off(src, row) == row * src.pitch
dst_off(c, row, dx, dy) == (dy + row) * c.pitch + dx * c.bpp
BlitBytes(c, src, sw, row, dx, dy) ==
  Lesser(Lesser(BlitWidth(c, src, sw, dx) * Lesser(c.bpp, src.bpp),
                src.len - src_off(src, row)),
         c.len - dst_off(c, row, dx, dy))

-----------------------------------------------------------------------------
(* Text.  draw_text and draw_text_aa visit the same cells, at scale 1 and at  *)
(* a given one; a line stops at the first cell that would start too far right. *)

GLYPH_W == 5
GLYPH_H == 7

CellStart(x, k, scale) == x + k * (scale * (GLYPH_W + 1))

CellFits(c, x, k, scale) == saturating_add(CellStart(x, k, scale), scale * GLYPH_W) <= c.width

\* The bytes a line of n characters may write; which of them depends on the font.
draw_text_aa(c, x, y, n, scale) ==
  UNION {set_pixel(c, CellStart(x, k, scale) + ox, y + oy) :
           k \in {j \in 0 .. n - 1 : \A i \in 0 .. j : CellFits(c, x, i, scale)},
           ox \in 0 .. scale * GLYPH_W - 1, oy \in 0 .. scale * GLYPH_H - 1}

draw_text(c, x, y, n) == draw_text_aa(c, x, y, n, 1)

-----------------------------------------------------------------------------
(* Windows *)

Window == [x : usize, y : usize, w : usize, h : usize]

Fill(c, win) == fill_rect(c, win.x, win.y, win.w, win.h)

covers(win, px, py) ==
  /\ px >= win.x /\ px < win.x + win.w
  /\ py >= win.y /\ py < win.y + win.h

\* paint_scene paints the windows in order, and focus looks for the last one
\* that covers a point: the windows a pixel shows, bottom to top, and the
\* windows focus accepts.
paint_scene(c, windows, px, py) ==
  {i \in DOMAIN windows : set_pixel(c, px, py) \subseteq Fill(c, windows[i])}
focus(windows, px, py) == {i \in DOMAIN windows : covers(windows[i], px, py)}
=============================================================================
