-------------------------- MODULE MCTinyBufferOps --------------------------
(***************************************************************************)
(* A buffer of four inline cells.  Byte values 6 and 7 are not ASCII; the *)
(* pair <<6, 7>> normalises to the longer <<7, 6, 6>> (as U+00E0 U+0323,   *)
(* four bytes, does to U+1EA1 U+0300, five) and <<7, 1>> to <<7>>.         *)
(***************************************************************************)
EXTENDS TinyBufferOps, FiniteSets

MCByte == 0 .. 7
Text == {1, 6, 7}
MCStrings == {<<>>, <<1>>, <<6>>, <<6, 7>>, <<7, 1>>}
Texts == UNION {[1 .. n -> Text] : n \in 0 .. 6}

HasPair(s, a, b) == \E j \in 1 .. Len(s) - 1 : s[j] = a /\ s[j + 1] = b
FirstPair(s, a, b) ==
    CHOOSE j \in 1 .. Len(s) - 1 :
        /\ s[j] = a /\ s[j + 1] = b
        /\ \A k \in 1 .. j - 1 : ~(s[k] = a /\ s[k + 1] = b)
Replaced(s, j, t) == SubSeq(s, 1, j - 1) \o t \o SubSeq(s, j + 2, Len(s))

MCNFCTable ==
    {<<s, Replaced(s, FirstPair(s, 6, 7), <<7, 6, 6>>)>> :
        s \in {t \in Texts : HasPair(t, 6, 7)}}
    \cup
    {<<s, Replaced(s, FirstPair(s, 7, 1), <<7>>)>> :
        s \in {t \in Texts : HasPair(t, 7, 1) /\ ~HasPair(t, 6, 7)}}

=============================================================================
