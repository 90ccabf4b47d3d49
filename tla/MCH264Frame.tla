------------------------------ MODULE MCH264Frame ------------------------------
(* Frames for H264Frame: a parameter set with every choice of its optional  *)
(* parts that the rewriter distinguishes, between other units; and units of *)
(* few bytes, zeros and ones among them, between start codes of any length. *)
EXTENDS H264Frame

\* Values with runs of zeros, which need emulation prevention at some shift.
Timing == {<<>>, <<F(u(32), 1), F(u(32), 50), F(u(1), 1)>>,
           <<F(u(32), 1001), F(u(32), 768), F(u(1), 0)>>}

Aspect == {<<>>, <<F(u(8), 1)>>, <<F(u(8), 255), F(u(16), 4), F(u(16), 3)>>}

Signal == {<<>>, <<F(u(3), 5), F(u(1), 1), F(u(1), 0)>>,
           <<F(u(3), 5), F(u(1), 0), F(u(1), 1), F(u(8), 1), F(u(8), 1), F(u(8), 1)>>}

\* cpb_cnt_minus1 + 1 buffers.
HrdParams(n) ==
    <<F(ue, n - 1), F(u(4), 0), F(u(4), 3)>>
    \o FlattenSeq(Repeat(n, <<F(ue, 700), F(ue, 0), F(u(1), 0)>>))
    \o <<F(u(5), 23), F(u(5), 0), F(u(5), 0), F(u(5), 24)>>

Restriction == {<<>>, <<F(u(1), 1), F(ue, 0), F(ue, 0), F(ue, 11), F(ue, 11), F(ue, 2), F(ue, 4)>>}

Vui == [aspect : Aspect, overscan : {<<>>, <<Flag(TRUE)>>}, signal : Signal,
        chroma_loc : {<<>>, <<F(ue, 0), F(ue, 2)>>}, timing : Timing,
        nal_hrd : {<<>>, HrdParams(1)}, vcl_hrd : {<<>>, HrdParams(2)},
        pic_struct : BOOLEAN, restriction : Restriction]

Baseline == [profile |-> 66, level |-> 31, chroma |-> 1, lists |-> <<>>,
             poc |-> <<F(ue, 0), F(ue, 2)>>, refs |-> 4, width |-> 79,
             interlaced |-> FALSE, crop |-> <<>>, vui |-> <<>>]

\* No list, short and long lists, and one ended by a scale of 0 at once.
Lists(n, P(_)) == [i \in 1 .. n |-> IF P(i) THEN Repeat(IF i <= 6 THEN 16 ELSE 64, 0) ELSE <<>>]
Full == Lists(8, LAMBDA i : i \in {2, 7})
Full444 == Lists(12, LAMBDA i : i \in {1, 12})
Early == [Full EXCEPT ![2] = <<-8>>]

PocTypes == {
    <<F(ue, 0), F(ue, 2)>>,
    <<F(ue, 1), F(u(1), 0), F(se, -32767), F(se, 32767), F(ue, 2), F(se, 1), F(se, -2)>>,
    <<F(ue, 2)>> }

Profiles == {
    [profile |-> 66, chroma |-> 1, lists |-> <<>>],
    [profile |-> 100, chroma |-> 1, lists |-> <<>>],
    [profile |-> 100, chroma |-> 1, lists |-> Full],
    [profile |-> 100, chroma |-> 1, lists |-> Early],
    [profile |-> 244, chroma |-> 3, lists |-> Full444] }

SomeVui == {<<>>, <<EmptyVui>>,
            <<[EmptyVui EXCEPT !.timing = <<F(u(32), 1), F(u(32), 50), F(u(1), 1)>>]>>}

\* Every VUI in one set, and every other choice with three.
Sets ==
    {[Baseline EXCEPT !.vui = <<v>>] : v \in Vui}
    \cup {[Baseline EXCEPT !.profile = p.profile, !.chroma = p.chroma, !.lists = p.lists,
                           !.poc = poc, !.interlaced = i, !.crop = crop, !.vui = v] :
            p \in Profiles, poc \in PocTypes, i \in BOOLEAN,
            crop \in {<<>>, <<F(ue, 0), F(ue, 0), F(ue, 0), F(ue, 65534)>>}, v \in SomeVui}

Delimiter == [code |-> StartCode(3), unit |-> <<9, 240>>, sps |-> <<>>]
Picture == [code |-> StartCode(4), unit |-> <<104, 0, 0, 3, 1, 206>>, sps |-> <<>>]
Set(s) == [code |-> StartCode(2), unit |-> SpsUnit(s), sps |-> <<s>>]

SmallUnits == {<<9>>, <<1, 1>>, <<9, 0, 9>>, <<9, 0, 0, 3>>, <<0, 0, 3, 1>>, <<0, 1>>, <<9, 0, 1>>}
Small(n) == [code : {StartCode(k) : k \in (IF n = 1 THEN {2, 3} ELSE 2 .. 5)},
             unit : SmallUnits, sps : {<<>>}]

MCFrames ==
    {<<Delimiter, Set(s), Picture>> : s \in Sets}
    \cup {<<x, y>> : x \in Small(1), y \in Small(2)}
    \cup {<<Delimiter, x, y>> : x \in Small(2), y \in Small(3)}
=============================================================================
