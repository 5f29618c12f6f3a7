------------------------------ MODULE MCCapture ------------------------------
EXTENDS CaptureProperties

\* Two frames in the mapped buffer.
MCMBuf == [size |-> 120, frames |-> 2, offsets |-> <<0, 60>>]

\* Octets that are spread evenly, the same but for one bit, a dark frame, and one
\* that is the complement of the first.
MCPatterns ==
  [ramp  |-> [i \in 0 .. 60 |-> i % 4],
   next  |-> [i \in 0 .. 60 |-> (i + 1) % 4],
   flip  |-> [i \in 0 .. 60 |-> 3 - (i % 4)],
   dark  |-> [i \in 0 .. 60 |-> 0]]

MCPwcLimits   == <<1, 40, 1, 20>>
MCOv511Limits == <<1, 40, 1, 20>>
MCSize        == <<5, 5>>
MCLengths     == {-1, 0, 20}

MCLines ==
  [pwc730 |-> {<< <<"L", 0>> >>,
               << <<"b", 7>>, <<"m", 3>>, <<"R", 9>>, <<"d", 0>>, <<"M", 0>> >>,
               << <<"H", 70000>> >>, << <<"P", 5>>, <<"M", 0>> >>},
   dsbc100 |-> {<< <<"L", 0>>, <<"A", 0>> >>,
                << <<"P", RGB24>>, <<"X", 2>>, <<"d", 10>>, <<"M", 0>>, <<"g", 5>> >>,
                << <<"H", 0>> >>}]

\* As bought, with a palette that is known and with one that is not.
factory(settings, size, palette) ==
  [s \in settings |-> CASE s = "height" -> size[1] [] s = "width" -> size[2]
                        [] s = "palette" -> palette
                        [] s = "fps" -> 5 [] OTHER -> 0]

MCCameras ==
  [pwc730  |-> {[set |-> factory(PwcSettings, MCSize, 0), optional |-> TRUE],
                [set |-> factory(PwcSettings, MCSize, YUV420P), optional |-> FALSE]},
   dsbc100 |-> {[set |-> factory(Ov511Settings, MCSize, p), optional |-> FALSE] : p \in {0, RGB24}}]
=============================================================================
