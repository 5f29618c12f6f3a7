------------------------------ MODULE Palette ------------------------------
(***************************************************************************)
(* The Video4Linux palettes: how large a frame is and where in it the      *)
(* chaotic octets are (lib/palette.c).  A size of 0 stands for the errors. *)
(***************************************************************************)
EXTENDS Integers

GREY == 1
HI240 == 2
RGB565 == 3
RGB24 == 4
RGB32 == 5
RGB555 == 6
YUV422 == 7
YUYV == 8
UYVY == 9
YUV420 == 10
YUV411 == 11
RAW == 12
YUV422P == 13
YUV411P == 14
YUV420P == 15
YUV410P == 16

valid_palette(p) == p \in GREY .. YUV410P

\* Sixteenths of an octet that a pixel takes; 0 when they cannot be told.
pixel_size(p) ==
  CASE p = GREY -> 16
    [] p \in {RGB565, RGB555, YUV422, YUYV, UYVY, YUV422P} -> 32
    [] p = RGB24 -> 48
    [] p = RGB32 -> 64
    [] p \in {YUV420, YUV411, YUV411P, YUV420P} -> 24
    [] p = YUV410P -> 17
    [] OTHER -> 0

\* frame_size(): the spacing of the frames in the mapped buffer, else a share of
\* the buffer, else what height and width come to.
frame_size(p, bufsize, frames, offsets, height, width) ==
  IF frames > 1 /\ offsets[1] >= 0 /\ offsets[2] > offsets[1] THEN offsets[2] - offsets[1]
  ELSE IF bufsize > 0 /\ frames > 0 THEN bufsize \div frames
  ELSE IF height > 0 /\ width > 0 THEN (pixel_size(p) * height * width) \div 16
  ELSE 0

Planar == {YUV422P, YUV420P, YUV410P}   \* the Y octets come first, one a pixel

\* chaos_zone() for a palette that it knows: how many octets from the start of
\* the frame are used, if the frame has them.
chaos_octets(p, framesize, pixels) ==
  IF p \in {HI240, RAW} THEN framesize
  ELSE IF pixels > 0 THEN (IF p \in Planar THEN pixels ELSE (pixel_size(p) * pixels) \div 16)
  ELSE CASE p = YUV422P -> framesize \div 2
         [] p = YUV420P -> (2 * framesize) \div 3
         [] p = YUV410P -> (8 * framesize) \div 9
         [] OTHER -> framesize

\* mutant: the octets are not cut at the end of the frame
chaos_zone_uncut(p, framesize, pixels) == chaos_octets(p, framesize, pixels)

\* The length of the zone; its offset is always 0.
chaos_zone(p, framesize, pixels) ==
  IF chaos_octets(p, framesize, pixels) > framesize THEN framesize
  ELSE chaos_octets(p, framesize, pixels)

\* Palettes that chaos_zone() takes.
chaos_known(p) == valid_palette(p) /\ p # YUV411P
=============================================================================
