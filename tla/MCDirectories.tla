---------------------------- MODULE MCDirectories ----------------------------
(* Bytes of ten values: eight of them still fit TLC's integers, and two hold every tag. *)
EXTENDS Directories

MCBase == 10

\* At and beyond the ends of one, two and four bytes; enough values to leave an entry.
MCInts == {<<>>, <<9, 4>>, <<-1>>, <<5>>, <<-5, 3>>, <<99, 50>>, <<-50>>, <<9999>>, <<-5000, 123>>,
           <<10001>>, <<-1, 1, 99999999>>}

MCStrings == {<<>>, <<1>>, <<1, 2, 0, 3>>, <<1, 2, 3>>, <<5, 4, 3, 2, 1, 1, 2>>}

MCSetTwice == {"SMinSampleValue"}

Image(t, dx, dy, cut) == [type |-> t, dx |-> dx, dy |-> dy, x0 |-> cut[1], right |-> cut[2], below |-> cut[3]]

\* Whole images, sub-images with a margin on any side, images without pixels, and one too wide.
MCImages ==
    {Image(t, 2, 2, cut) : t \in GoTypes \ {"Other"}, cut \in {0, 1} \X {0, 1} \X {0, 1}}
    \cup {Image("Other", 2, 2, <<0, 0, 0>>)}
    \cup {Image(t, 0, 0, <<0, 0, 0>>) : t \in GoTypes}
    \cup {Image(t, size[1], size[2], <<0, 0, 0>>) : t \in {"Gray", "RGBA64"}, size \in {<<3, 1>>, <<1, 3>>, <<101, 1>>}}

MCPalette == <<<<1, 23, 45>>, <<67, 89, 9>>>>
=============================================================================
